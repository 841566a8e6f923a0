---------------------------- MODULE SetupProofs -----------------------------
(***************************************************************************)
(* Proofs about Setup and HostConfig, for any hosts and any number of      *)
(* failures and reconfigurations: what the installer leaves behind,        *)
(* whatever fails or is killed on the way and however often it is run      *)
(* again; what the boot line holds; that lists of cores come out right and *)
(* which of them are isolated; and that the config and the words of a      *)
(* command come back as they were written. The setup's invariant follows   *)
(* the installer from step to step: what is behind it is done, in the run  *)
(* that is on its way.                                                     *)
(***************************************************************************)
EXTENDS Setup, SequenceTheorems, FiniteSetTheorems, WellFoundedInduction, TLAPS

-----------------------------------------------------------------------------
(* The boot line.                                                          *)

\* A set of naturals that holds the successor of each of its members below a
\* bound, and 0, holds all up to the bound.
LEMMA UpTheLine ==
  ASSUME NEW S, NEW N \in Nat, 0 \in S,
         \A n \in 0..N : n # 0 /\ n - 1 \in S => n \in S
  PROVE  0..N \subseteq S
<1> DEFINE Out == {n \in Nat : n \in 0..N /\ n \notin S}
<1>1. SUFFICES ASSUME Out # {} PROVE FALSE
  OBVIOUS
<1> DEFINE Below == {ss \in Nat \X Nat : ss[1] < ss[2]}
<1>2. PICK n \in Out : \A y \in Nat : <<y, n>> \in OpToRel(<, Nat) => y \notin Out
  <2>1. IsWellFoundedOn(OpToRel(<, Nat), Nat)
    BY NatLessThanWellFounded
  <2>2. Out \subseteq Nat
    OBVIOUS
  <2> QED BY ONLY <2>1, <2>2, <1>1, WFMin
<1>3. n \in Nat /\ n # 0
  OBVIOUS
<1>4. <<n - 1, n>> \in OpToRel(<, Nat)
  BY <1>3 DEF OpToRel
<1>5. n - 1 \notin Out /\ n - 1 \in Nat /\ n - 1 \in 0..N /\ n \in 0..N /\ n \notin S
  <2>1. n - 1 \in Nat /\ n - 1 \in 0..N /\ n \in 0..N /\ n \notin S
    BY <1>3
  <2>2. n - 1 \notin Out
    BY ONLY <1>2, <1>4, <2>1
  <2> QED BY ONLY <2>1, <2>2
<1> QED BY <1>3, <1>5

\* A function that is given from one place to the next.
Grows(f, T, first, N, next) ==
  /\ f \in [0..N -> T]
  /\ f = [n \in 0..N |-> IF n = 0 THEN first ELSE next[<<f[n - 1], n>>]]

\* There is one for every first value and every step.
LEMMA StepByStep ==
  ASSUME NEW T, NEW first \in T, NEW N \in Nat, NEW next \in [T \X (1..N) -> T]
  PROVE  \E f : Grows(f, T, first, N, next)
<1> DEFINE Grown(f, m) == f[0] = first /\ \A n \in 1..m : f[n] = next[<<f[n - 1], n>>]
<1> DEFINE S == {m \in 0..N : \E f \in [0..m -> T] : Grown(f, m)}
<1>1. 0 \in S
  <2> DEFINE f == [n \in 0..0 |-> first]
  <2>1. f \in [0..0 -> T] /\ Grown(f, 0)
    OBVIOUS
  <2> HIDE DEF f, Grown
  <2> QED BY <2>1
<1>2. ASSUME NEW m \in 0..N, m # 0, m - 1 \in S PROVE m \in S
  <2>1. PICK f \in [0..m - 1 -> T] : Grown(f, m - 1)
    BY <1>2
  <2>2. m - 1 \in 0..m - 1 /\ m \in 1..N
    BY <1>2
  <2> DEFINE g == [n \in 0..m |-> IF n = m THEN next[<<f[m - 1], m>>] ELSE f[n]]
  <2>3. next[<<f[m - 1], m>>] \in T
    BY <2>1, <2>2
  <2>4. g \in [0..m -> T]
    BY <2>1, <2>2, <2>3
  <2>5. Grown(g, m)
    <3>1. g[0] = first
      BY <2>1, <2>2
    <3>2. ASSUME NEW n \in 1..m PROVE g[n] = next[<<g[n - 1], n>>]
      <4>1. g[n - 1] = f[n - 1]
        BY <2>2
      <4>2. CASE n = m
        <5>1. g[m] = next[<<f[m - 1], m>>]
          BY <2>2
        <5>2. g[m - 1] = f[m - 1]
          BY <4>1, <4>2
        <5> HIDE DEF g
        <5> QED BY <4>2, <5>1, <5>2
      <4>3. CASE n # m
        <5>1. n \in 1..m - 1 /\ g[n] = f[n]
          BY <4>3, <2>2
        <5> QED BY <4>1, <5>1, <2>1
      <4> QED BY <4>2, <4>3
    <3> HIDE DEF g
    <3> QED BY <3>1, <3>2
  <2> HIDE DEF g, Grown
  <2> QED BY <2>4, <2>5
<1>3. 0..N \subseteq S
  <2> HIDE DEF S
  <2> QED BY ONLY <1>1, <1>2, N \in Nat, UpTheLine
<1>4. PICK f \in [0..N -> T] : Grown(f, N)
  <2>1. N \in 0..N
    OBVIOUS
  <2> HIDE DEF Grown
  <2> QED BY <1>3, <2>1
<1>5. ASSUME NEW n \in 0..N
      PROVE  f[n] = IF n = 0 THEN first ELSE next[<<f[n - 1], n>>]
  <2>1. n = 0 \/ n \in 1..N
    OBVIOUS
  <2> QED BY <2>1, <1>4
<1>6. f = [n \in 0..N |-> f[n]]
  BY <1>4
<1>7. [n \in 0..N |-> f[n]] = [n \in 0..N |-> IF n = 0 THEN first ELSE next[<<f[n - 1], n>>]]
  BY <1>5
<1> QED BY <1>4, <1>6, <1>7 DEF Grows

\* What is left of a line after so many of its pieces.
Left(f, line) ==
  f = [n \in 0..Len(line) |-> IF n = 0 THEN <<>>
        ELSE IF Cut(line, n) THEN f[n - 1]
        ELSE Append(f[n - 1], line[n])]

\* The pieces that Strip keeps are found one after another.
LEMMA KeptExists ==
  ASSUME NEW W, NEW line \in Seq(W)
  PROVE  \E f : Left(f, line)
<1> DEFINE N == Len(line)
<1> DEFINE next == [t \in Seq(W) \X (1..N) |->
                      IF Cut(line, t[2]) THEN t[1] ELSE Append(t[1], line[t[2]])]
<1>1. N \in Nat /\ \A k \in 1..N : line[k] \in W
  OBVIOUS
<1> HIDE DEF N
<1>2. next \in [Seq(W) \X (1..N) -> Seq(W)]
  <2>1. ASSUME NEW t \in Seq(W) \X (1..N)
        PROVE  (IF Cut(line, t[2]) THEN t[1] ELSE Append(t[1], line[t[2]])) \in Seq(W)
    <3>1. t[1] \in Seq(W) /\ line[t[2]] \in W
      BY <1>1
    <3> QED BY <3>1
  <2> QED BY <2>1
<1>3. << >> \in Seq(W)
  OBVIOUS
<1>4. ASSUME NEW s \in Seq(W), NEW n \in 1..N
      PROVE  next[<<s, n>>] = IF Cut(line, n) THEN s ELSE Append(s, line[n])
  OBVIOUS
<1> HIDE DEF next
<1>5. PICK f : Grows(f, Seq(W), <<>>, N, next)
  BY <1>1, <1>2, <1>3, StepByStep
<1>6. ASSUME NEW n \in 0..N, n # 0
      PROVE  next[<<f[n - 1], n>>] =
               IF Cut(line, n) THEN f[n - 1] ELSE Append(f[n - 1], line[n])
  <2>1. n \in 1..N /\ f[n - 1] \in Seq(W)
    BY <1>1, <1>5, <1>6 DEF Grows
  <2> QED BY <2>1, <1>4
<1>7. Left(f, line)
  <2>1. [n \in 0..N |-> IF n = 0 THEN << >> ELSE next[<<f[n - 1], n>>]] =
        [n \in 0..N |-> IF n = 0 THEN <<>>
            ELSE IF Cut(line, n) THEN f[n - 1] ELSE Append(f[n - 1], line[n])]
    BY <1>6
  <2> QED BY <1>5, <2>1 DEF Left, N, Grows
<1> QED BY <1>7

\* The pieces of a line's first places that are not the benchmark's.
OthersTo(line, n) == {k \in Others(line) : k <= n}

\* What is left of a line's first pieces: the pieces that are not the
\* benchmark's, each at its number among them.
KeptFits(W, line, n, s) ==
  /\ s \in Seq(W)
  /\ \A k \in 1..Len(s) : s[k].key \notin BenchKeys
  /\ Len(s) = Cardinality(OthersTo(line, n))
  /\ \A k \in OthersTo(line, n) : Nth(line, k) \in 1..Len(s) /\ s[Nth(line, k)] = line[k]

\* What Strip keeps is a line without a piece of the benchmark's and with every
\* other, in their order.
LEMMA StripFacts ==
  ASSUME NEW W, NEW line \in Seq(W)
  PROVE  /\ Strip(line) \in Seq(W)
         /\ \A k \in 1..Len(Strip(line)) : Strip(line)[k].key \notin BenchKeys
         /\ Len(Strip(line)) = Cardinality(Others(line))
         /\ \A k \in Others(line) : /\ Nth(line, k) \in 1..Len(Strip(line))
                                    /\ Strip(line)[Nth(line, k)] = line[k]
<1> DEFINE kept == CHOOSE f : Left(f, line)
<1>0. /\ Len(line) \in Nat /\ DOMAIN line = 1..Len(line)
      /\ \A k \in 1..Len(line) : line[k] \in W
  OBVIOUS
<1>1. Left(kept, line)
  BY KeptExists
<1>2. Strip(line) = kept[Len(line)]
  BY DEF Strip, Left
<1> HIDE DEF kept
<1>3. \A n \in 0..Len(line) :
        kept[n] = IF n = 0 THEN <<>>
                  ELSE IF Cut(line, n) THEN kept[n - 1]
                  ELSE Append(kept[n - 1], line[n])
  <2> DEFINE e(h) == [n \in 0..Len(line) |-> IF n = 0 THEN <<>>
                    ELSE IF Cut(line, n) THEN h[n - 1]
                    ELSE Append(h[n - 1], line[n])]
  <2>1. kept = e(kept)
    BY <1>1 DEF Left
  <2>2. \A n \in 0..Len(line) :
        e(kept)[n] = IF n = 0 THEN <<>>
                  ELSE IF Cut(line, n) THEN kept[n - 1]
                  ELSE Append(kept[n - 1], line[n])
    OBVIOUS
  <2> HIDE DEF e
  <2> QED BY <2>1, <2>2
<1>4. Others(line) \subseteq 1..Len(line)
  BY <1>0 DEF Others
<1>5. ASSUME NEW n \in 0..Len(line)
      PROVE  IsFiniteSet(OthersTo(line, n)) /\ Cardinality(OthersTo(line, n)) \in Nat
  <2>1. OthersTo(line, n) \subseteq 1..Len(line) /\ IsFiniteSet(1..Len(line))
    BY <1>4, <1>0, FS_Interval DEF OthersTo
  <2> QED BY <2>1, FS_Subset, FS_CardinalityType
<1>6. \A k : Nth(line, k) = Cardinality(OthersTo(line, k))
  BY DEF Nth, OthersTo
<1> DEFINE S == {n \in 0..Len(line) : KeptFits(W, line, n, kept[n])}
<1>7. 0 \in S
  <2>1. kept[0] = <<>> /\ 0 \in 0..Len(line)
    BY <1>0, <1>3
  <2>2. OthersTo(line, 0) = {}
    BY <1>4, <1>0 DEF OthersTo
  <2>3. KeptFits(W, line, 0, <<>>)
    <3>1. << >> \in Seq(W) /\ Len(<< >>) = 0
      OBVIOUS
    <3>2. Cardinality(OthersTo(line, 0)) = 0
      BY <2>2, FS_EmptySet
    <3> QED BY <2>2, <3>1, <3>2 DEF KeptFits
  <2> QED BY <2>1, <2>3
<1>8. ASSUME NEW n \in 0..Len(line), n # 0, n - 1 \in S PROVE n \in S
  <2> DEFINE s == kept[n - 1]
  <2>1. n \in 1..Len(line) /\ line[n] \in W /\ KeptFits(W, line, n - 1, s)
    BY <1>0, <1>8
  <2>2. \A k \in Others(line) : k <= n <=> k <= n - 1 \/ k = n
    BY <1>4, <1>0
  <2>3. CASE Cut(line, n)
    <3>1. n \notin Others(line)
      BY <2>3 DEF Others
    <3>2. OthersTo(line, n) = OthersTo(line, n - 1)
      BY <3>1, <2>2 DEF OthersTo
    <3>3. kept[n] = s
      BY <1>3, <1>8, <2>3
    <3> HIDE DEF s
    <3> QED BY <3>2, <3>3, <2>1 DEF KeptFits
  <2>4. CASE ~Cut(line, n)
    <3>1. n \in Others(line)
      BY <2>1, <2>4, <1>0 DEF Others
    <3>2. OthersTo(line, n) = OthersTo(line, n - 1) \cup {n} /\ n \notin OthersTo(line, n - 1)
      <4>1. \A k : k \in OthersTo(line, n) <=> k \in Others(line) /\ (k <= n - 1 \/ k = n)
        BY <2>2 DEF OthersTo
      <4>2. \A k : k \in OthersTo(line, n - 1) <=> k \in Others(line) /\ k <= n - 1
        BY DEF OthersTo
      <4>3. ~(n <= n - 1)
        BY <2>1
      <4> QED BY <3>1, <4>1, <4>2, <4>3
    <3>3. kept[n] = Append(s, line[n])
      BY <1>3, <1>8, <2>4
    <3> HIDE DEF s
    <3>4. s \in Seq(W) /\ Len(s) \in Nat /\ Len(s) = Cardinality(OthersTo(line, n - 1))
      BY <2>1 DEF KeptFits
    <3> DEFINE long == Append(s, line[n])
    <3>5. /\ long \in Seq(W) /\ Len(long) = Len(s) + 1
          /\ \A k \in 1..Len(s) : long[k] = s[k]
          /\ long[Len(s) + 1] = line[n]
      BY <3>4, <2>1
    <3> HIDE DEF long
    <3>6. Cardinality(OthersTo(line, n)) = Len(s) + 1
      <4>1. IsFiniteSet(OthersTo(line, n - 1))
        BY <1>5, <2>1
      <4> DEFINE before == OthersTo(line, n - 1)
      <4>2. n \notin before /\ IsFiniteSet(before) /\ OthersTo(line, n) = before \cup {n}
        BY <4>1, <3>2
      <4>3. Cardinality(before) = Len(s)
        BY <3>4
      <4> HIDE DEF before
      <4>4. Cardinality(before \cup {n}) = Cardinality(before) + 1
        BY <4>2, FS_AddElement
      <4> QED BY <4>2, <4>3, <4>4
    <3>7. Nth(line, n) = Len(s) + 1
      BY <3>6, <1>6
    <3>8. \A k \in 1..Len(long) : long[k].key \notin BenchKeys
      <4>1. \A k \in 1..Len(s) : s[k].key \notin BenchKeys
        BY <2>1 DEF KeptFits
      <4>2. \A k \in 1..Len(s) + 1 : k \in 1..Len(s) \/ k = Len(s) + 1
        BY <3>4
      <4> QED BY <4>1, <4>2, <3>5, <2>4 DEF Cut
    <3>9. ASSUME NEW k \in OthersTo(line, n)
          PROVE  Nth(line, k) \in 1..Len(long) /\ long[Nth(line, k)] = line[k]
      <4>1. CASE k = n
        BY <4>1, <3>4, <3>5, <3>7
      <4>2. CASE k # n
        <5>1. k \in OthersTo(line, n - 1)
          BY <4>2, <3>2, <3>9
        <5>2. Nth(line, k) \in 1..Len(s) /\ s[Nth(line, k)] = line[k]
          BY <5>1, <2>1 DEF KeptFits
        <5>3. Nth(line, k) \in 1..Len(s) + 1
          BY <5>2, <3>4
        <5> QED BY <5>2, <5>3, <3>5
      <4> QED BY <4>1, <4>2
    <3>10. KeptFits(W, line, n, long)
      BY <3>5, <3>6, <3>8, <3>9 DEF KeptFits
    <3> QED BY <3>3, <3>10 DEF long
  <2> QED BY <2>3, <2>4
<1>9. 0..Len(line) \subseteq S
  <2> HIDE DEF S
  <2> QED BY ONLY <1>7, <1>8, <1>0, UpTheLine
<1>10. KeptFits(W, line, Len(line), Strip(line))
  <2>1. Len(line) \in 0..Len(line)
    BY <1>0
  <2> QED BY <2>1, <1>9, <1>2
<1>11. OthersTo(line, Len(line)) = Others(line)
  BY <1>4, <1>0 DEF OthersTo
<1> QED BY <1>10, <1>11 DEF KeptFits

\* Whatever the line was and however often it is written: it holds each
\* parameter once, with the cores of the last time.
LEMMA BootLineFacts ==
  ASSUME NEW W, NEW line \in Seq(W), NEW loader, loader # "bare", NEW isolated,
         Quiet \in Seq(W), BootParams(isolated) \in Seq(W)
  PROVE  /\ UpdateBootLine(loader, line, isolated) \in Seq(W)
         /\ \A word \in ToSet(BootParams(isolated)) :
              HoldsOnce(UpdateBootLine(loader, line, isolated), word)
<1> DEFINE own == IF loader = "grub" THEN Quiet ELSE Strip(line)
<1> DEFINE bench == BootParams(isolated)
<1>1. own \in Seq(W) /\ \A k \in 1..Len(own) : own[k].key \notin BenchKeys
  <2>1. CASE loader = "grub"
    <3>1. Quiet = <<Word("quiet", {})>>
      BY DEF Quiet
    <3>2. Len(Quiet) = 1 /\ Quiet[1].key = "quiet"
      BY <3>1 DEF Word
    <3>3. \A k \in 1..Len(Quiet) : k = 1
      BY <3>2
    <3>4. "quiet" \notin BenchKeys
      BY DEF BenchKeys, Valued
    <3> QED BY <3>2, <3>3, <3>4, <2>1
  <2>2. CASE loader # "grub"
    BY <2>2, StripFacts
  <2> QED BY <2>1, <2>2
<1>2. /\ bench \in Seq(W) /\ Len(bench) = 4
      /\ bench[1].key = "isolcpus" /\ bench[2].key = "nohz_full"
      /\ bench[3].key = "rcu_nocbs" /\ bench[4].key = "nosmt"
      /\ \A k \in 1..4 : ~bench[k].glued
  BY DEF BootParams, Word
<1>3. UpdateBootLine(loader, line, isolated) = own \o bench
  BY DEF UpdateBootLine
<1> HIDE DEF own, bench
<1> DEFINE whole == own \o bench
<1>4. /\ whole \in Seq(W) /\ Len(own) \in Nat
      /\ Len(whole) = Len(own) + 4 /\ DOMAIN whole = 1..Len(own) + 4
      /\ \A k \in 1..Len(own) : whole[k] = own[k]
      /\ \A k \in 1..4 : whole[Len(own) + k] = bench[k]
  <2>0. own \in Seq(W) /\ bench \in Seq(W)
    BY <1>1, <1>2
  <2>1. whole \in Seq(W) /\ Len(whole) = Len(own) + Len(bench) /\ Len(own) \in Nat
    BY ONLY <2>0, ConcatProperties
  <2>2. \A k \in 1..Len(own) + Len(bench) :
          whole[k] = IF k <= Len(own) THEN own[k] ELSE bench[k - Len(own)]
    BY ONLY <2>0, ConcatProperties
  <2> HIDE DEF whole
  <2>3. DOMAIN whole = 1..Len(own) + 4
    BY <2>1, <1>2
  <2>4. ASSUME NEW k \in 1..4 PROVE whole[Len(own) + k] = bench[k]
    <3> DEFINE i == Len(own) + k
    <3>1. i \in 1..Len(own) + Len(bench) /\ ~(i <= Len(own)) /\ i - Len(own) = k
      BY <2>1, <1>2
    <3> HIDE DEF i
    <3>2. whole[i] = bench[k]
      BY <3>1, <2>2
    <3> QED BY <3>2 DEF i
  <2> QED BY <2>1, <2>2, <2>3, <2>4, <1>2
<1> HIDE DEF whole
<1>5. ASSUME NEW j \in 1..4, NEW i \in DOMAIN whole, whole[i].key = bench[j].key
      PROVE  i = Len(own) + j
  <2>1. CASE i <= Len(own)
    <3>1. i \in 1..Len(own) /\ whole[i] = own[i] /\ bench[j].key \in BenchKeys
      BY <2>1, <1>4, <1>2 DEF BenchKeys, Valued
    <3> QED BY <3>1, <1>1, <1>5
  <2>2. CASE ~(i <= Len(own))
    <3> DEFINE k == i - Len(own)
    <3>1. k \in 1..4 /\ i = Len(own) + k
      BY <2>2, <1>4
    <3>2. whole[i] = bench[k]
      BY <3>1, <1>4
    <3> HIDE DEF k
    <3>3. k = j
      BY <3>1, <3>2, <1>2, <1>5
    <3> QED BY <3>1, <3>3
  <2> QED BY <2>1, <2>2
<1>6. ASSUME NEW word \in ToSet(bench) PROVE HoldsOnce(whole, word)
  <2>1. PICK j \in 1..4 : word = bench[j]
    BY <1>2 DEF ToSet
  <2>2. Len(own) + j \in DOMAIN whole /\ whole[Len(own) + j] = word
    BY <2>1, <1>4
  <2>3. ASSUME Len(own) + j + 1 \in DOMAIN whole PROVE ~whole[Len(own) + j + 1].glued
    <3>1. j + 1 \in 1..4 /\ Len(own) + j + 1 = Len(own) + (j + 1)
      BY <2>3, <1>4
    <3>2. whole[Len(own) + (j + 1)] = bench[j + 1]
      BY <3>1, <1>4
    <3> QED BY <3>1, <3>2, <1>2
  <2> QED BY <2>1, <2>2, <2>3, <1>5 DEF HoldsOnce
<1> QED BY <1>3, <1>4, <1>6 DEF bench, whole

\* All pieces are the benchmark's, and none is.
AllBench(line) == \A k \in 1..Len(line) : line[k].key \in BenchKeys
NoBench(line) == \A k \in 1..Len(line) : line[k].key \notin BenchKeys

\* The pieces that are not the benchmark's are a line's first.
InFront(whole, own) ==
  /\ Others(whole) = 1..Len(own)
  /\ \A k \in 1..Len(own) : Nth(whole, k) = k /\ whole[k] = own[k]

\* In a line that begins with pieces that are not the benchmark's and ends with
\* pieces that are, the number of one of the former is its place.
LEMMA OthersInFront ==
  ASSUME NEW W, NEW own \in Seq(W), NEW bench \in Seq(W),
         NoBench(own), AllBench(bench), NEW whole, whole = own \o bench
  PROVE  InFront(whole, own)
<1>0. /\ \A k \in 1..Len(own) : own[k].key \notin BenchKeys
      /\ \A k \in 1..Len(bench) : bench[k].key \in BenchKeys
  BY DEF NoBench, AllBench
<1>1. /\ whole \in Seq(W) /\ Len(own) \in Nat /\ Len(bench) \in Nat
      /\ Len(whole) = Len(own) + Len(bench)
      /\ \A k \in 1..Len(own) + Len(bench) :
           whole[k] = IF k <= Len(own) THEN own[k] ELSE bench[k - Len(own)]
  BY ONLY own \in Seq(W), bench \in Seq(W), whole = own \o bench, ConcatProperties
<1>2. DOMAIN whole = 1..Len(own) + Len(bench)
  BY <1>1
<1>3. \A k \in 1..Len(own) : k \in DOMAIN whole /\ whole[k] = own[k]
  BY <1>1, <1>2
<1>4. ASSUME NEW k \in DOMAIN whole, k \notin 1..Len(own)
      PROVE  whole[k].key \in BenchKeys
  <2> DEFINE i == k - Len(own)
  <2>1. i \in 1..Len(bench) /\ ~(k <= Len(own)) /\ k \in 1..Len(own) + Len(bench)
    BY <1>1, <1>2, <1>4
  <2>2. whole[k] = bench[i]
    BY <2>1, <1>1
  <2> HIDE DEF i
  <2> QED BY <2>1, <2>2, <1>0
<1>5. Others(whole) = 1..Len(own)
  <2>1. ASSUME NEW k \in 1..Len(own) PROVE ~Cut(whole, k)
    <3>1. \A i \in 1..k : whole[i].key \notin BenchKeys
      BY <1>0, <1>1, <1>3
    <3>2. k \in 1..k /\ \A i \in 1..k - 1 : i \in 1..k
      BY <1>1
    <3> QED BY <3>1, <3>2 DEF Cut, InValue, BenchKeys
  <2>2. \A k \in DOMAIN whole : k \notin 1..Len(own) => Cut(whole, k)
    BY <1>4 DEF Cut
  <2> QED BY <1>3, <2>1, <2>2 DEF Others
<1>6. ASSUME NEW k \in 1..Len(own) PROVE Nth(whole, k) = k
  <2>1. {j \in Others(whole) : j <= k} = 1..k
    BY <1>1, <1>5
  <2>2. Cardinality(1..k) = k
    <3>1. k \in Nat /\ k >= 1
      BY <1>1
    <3>2. Cardinality(1..k) = IF 1 > k THEN 0 ELSE k - 1 + 1
      BY <3>1, FS_Interval
    <3> QED BY <3>1, <3>2
  <2> QED BY <2>1, <2>2 DEF Nth
<1> QED BY <1>3, <1>5, <1>6 DEF InFront

\* For every line of any length: the benchmark's parameters are written anew, as
\* words of their own, and what of the text is neither one of them nor the rest
\* of its value stays as it was, in its order.
THEOREM RewrittenLine ==
  ASSUME NEW W, NEW line \in Seq(W), NEW loader, loader # "bare", NEW one, NEW two,
         Quiet \in Seq(W), BootParams(one) \in Seq(W), BootParams(two) \in Seq(W),
         NEW new, new = UpdateBootLine(loader, UpdateBootLine(loader, line, one), two)
  PROVE  IsRewrite(new, loader, line, two)
<1> DEFINE first == UpdateBootLine(loader, line, one)
<1>1. first \in Seq(W)
  BY BootLineFacts
<1>2. \A word \in ToSet(BootParams(two)) : HoldsOnce(new, word)
  <2> HIDE DEF first
  <2> QED BY <1>1, BootLineFacts DEF first
<1>3. ASSUME NEW iso PROVE /\ Len(BootParams(iso)) = 4
                           /\ \A k \in 1..4 : BootParams(iso)[k].key \in BenchKeys
  BY DEF BootParams, Word, BenchKeys, Valued
<1>4. ASSUME loader # "grub"
      PROVE  /\ Cardinality(Others(new)) = Cardinality(Others(line))
             /\ \A k \in Others(new), j \in Others(line) :
                  Nth(new, k) = Nth(line, j) => new[k] = line[j]
  <2> DEFINE own == Strip(line)
  <2> DEFINE again == Strip(first)
  <2>1. first = own \o BootParams(one) /\ new = again \o BootParams(two)
    BY <1>4 DEF UpdateBootLine
  <2>2. /\ own \in Seq(W) /\ \A k \in 1..Len(own) : own[k].key \notin BenchKeys
        /\ Len(own) = Cardinality(Others(line))
        /\ \A k \in Others(line) : Nth(line, k) \in 1..Len(own) /\ own[Nth(line, k)] = line[k]
    BY StripFacts
  <2> HIDE DEF first
  <2>3. /\ again \in Seq(W) /\ \A k \in 1..Len(again) : again[k].key \notin BenchKeys
        /\ Len(again) = Cardinality(Others(first))
        /\ \A k \in Others(first) :
             Nth(first, k) \in 1..Len(again) /\ again[Nth(first, k)] = first[k]
    BY <1>1, StripFacts
  <2> DEFINE written == BootParams(one)
  <2> DEFINE rewritten == BootParams(two)
  <2>a. /\ written \in Seq(W) /\ AllBench(written)
        /\ rewritten \in Seq(W) /\ AllBench(rewritten) /\ NoBench(own) /\ NoBench(again)
    BY <1>3, <2>2, <2>3 DEF AllBench, NoBench
  <2>b. first = own \o written /\ new = again \o rewritten
    BY <2>1
  <2> HIDE DEF own, again, written, rewritten
  <2>4. /\ Others(first) = 1..Len(own)
        /\ \A k \in 1..Len(own) : Nth(first, k) = k /\ first[k] = own[k]
    <3>1. InFront(first, own)
      BY ONLY <2>a, <2>b, <2>2, OthersInFront
    <3> QED BY ONLY <3>1 DEF InFront
  <2>5. /\ Others(new) = 1..Len(again)
        /\ \A k \in 1..Len(again) : Nth(new, k) = k /\ new[k] = again[k]
    <3>1. InFront(new, again)
      BY ONLY <2>a, <2>b, <2>3, OthersInFront
    <3> QED BY ONLY <3>1 DEF InFront
  <2>6. Len(own) \in Nat /\ Len(again) \in Nat
    BY <2>2, <2>3
  <2>7. Len(again) = Len(own) /\ Cardinality(Others(new)) = Len(again)
    <3>1. ASSUME NEW n \in Nat PROVE Cardinality(1..n) = n
      <4>1. Cardinality(1..n) = IF 1 > n THEN 0 ELSE n - 1 + 1
        BY FS_Interval
      <4> QED BY <4>1
    <3>2. Cardinality(1..Len(own)) = Len(own) /\ Cardinality(1..Len(again)) = Len(again)
      BY ONLY <3>1, <2>6
    <3> QED BY ONLY <3>2, <2>3, <2>4, <2>5
  <2>8. \A k \in 1..Len(own) : new[k] = own[k]
    BY <2>3, <2>4, <2>5, <2>7
  <2> QED BY <2>2, <2>5, <2>7, <2>8
<1> QED BY <1>2, <1>4 DEF IsRewrite

-----------------------------------------------------------------------------
(* The installer.                                                          *)

Cores == UNION {m.online : m \in Machines}

\* The words of a boot line.
BootWords == [key : BenchKeys \cup {"quiet"}, is : SUBSET Cores, glued : BOOLEAN]

\* What the disk holds.
DiskType ==
  [marker : BOOLEAN, accounts : SUBSET Accounts, sudoer : BOOLEAN, sudoers : BOOLEAN,
   config : Recommendations \cup {None}, encKey : 0..1, units : Recommendations \cup {None},
   updater : BOOLEAN, image : BOOLEAN, boot : Seq(BootWords), invites : Nat]

ProcType == [page : Pages, first : BOOLEAN, at : 1..14, cores : Recommendations \cup {None}]

TypeInv ==
  /\ machine \in Machines /\ disk \in DiskType /\ proc \in ProcType
  /\ active \subseteq Cores
  /\ running = None \/ \E c \in Recommendations : running = c.isolated
  /\ proc.page # "off" => proc.cores # None
  /\ running # None => disk.config # None /\ disk.units # None
  /\ failed \subseteq reported /\ failed \cap Fatal = {}
  /\ failures \in 0..MaxFailures /\ reconfigures \in 0..MaxReconfigures

\* The steps that are behind the installer have left what they had to, all of
\* them in the run that is on its way or has just ended.
BehindInv ==
  /\ InWizard => proc.at = 1
  /\ proc.page = "done" => proc.at = 14
  /\ proc.page \in {"install", "done"} =>
       /\ proc.at > 4 => disk.accounts = Accounts
       /\ proc.at > 5 => disk.config = proc.cores /\ disk.encKey # 0
       /\ proc.at > 6 => disk.units = proc.cores
       /\ proc.at > 7 => disk.sudoers \/ "helpers" \in failed
       /\ proc.at > 9 => disk.image /\ disk.updater
       /\ proc.at > 12 => running # None /\ disk.invites > 0
       /\ \A k \in 1..proc.at - 1 : Runs(Steps[k]) => Steps[k] \in reported

\* The boot line once its step has ended.
BootInv ==
  /\ proc.page \in {"install", "done"} /\ proc.at > 10 /\ "boot" \notin failed
  /\ machine.loader \notin {"none", "bare"} /\ proc.cores.isolated # {}
  => \A word \in ToSet(BootParams(proc.cores.isolated)) : HoldsOnce(disk.boot, word)

\* The marker is there between the runs of the setup only.
MarkerInv == disk.marker => proc.page \in {"off", "done"} /\ CompleteMeansInstalled

\* One invite may be had for each failure and one more.  It is not spent where
\* a run that creates one is still before that step, where the next run will
\* create one, and where the image cannot be built.
InviteInv ==
  /\ disk.invites <= 1 + failures
  /\ \/ proc.page \in {"off", "done", "failed"} /\ ~disk.marker
     \/ proc.page \notin {"off", "done", "failed"} /\ proc.first /\ proc.at <= 11
     \/ proc.page = "install" /\ proc.at > 7 /\ ~disk.updater
     => disk.invites <= failures

SetupInv == TypeInv /\ BehindInv /\ BootInv /\ MarkerInv /\ InviteInv

-----------------------------------------------------------------------------

Names == {"packages", "sensors", "irqbalance", "users", "config", "units", "helpers",
          "dashboard", "runner", "boot", "invite", "start", "tailscale"}

\* Where each step that changes the disk has its place.
LEMMA StepPlaces ==
  /\ Len(Steps) = 13
  /\ \A k \in 1..13 :
       /\ Steps[k] \in Names
       /\ Steps[k] = "users" <=> k = 4
       /\ Steps[k] = "config" <=> k = 5
       /\ Steps[k] = "units" <=> k = 6
       /\ Steps[k] = "helpers" <=> k = 7
       /\ Steps[k] = "runner" <=> k = 9
       /\ Steps[k] = "boot" <=> k = 10
       /\ Steps[k] = "invite" <=> k = 11
       /\ Steps[k] = "start" <=> k = 12
       /\ Steps[k] = "tailscale" <=> k = 13
<1>1. /\ Len(Steps) = 13
      /\ Steps[1] = "packages" /\ Steps[2] = "sensors" /\ Steps[3] = "irqbalance"
      /\ Steps[4] = "users" /\ Steps[5] = "config" /\ Steps[6] = "units"
      /\ Steps[7] = "helpers" /\ Steps[8] = "dashboard" /\ Steps[9] = "runner"
      /\ Steps[10] = "boot" /\ Steps[11] = "invite" /\ Steps[12] = "start"
      /\ Steps[13] = "tailscale"
  BY DEF Steps
<1>2. ASSUME NEW k \in 1..13
      PROVE  k = 1 \/ k = 2 \/ k = 3 \/ k = 4 \/ k = 5 \/ k = 6 \/ k = 7 \/ k = 8 \/ k = 9
             \/ k = 10 \/ k = 11 \/ k = 12 \/ k = 13
  OBVIOUS
<1> HIDE DEF Steps
<1> QED BY <1>1, <1>2 DEF Names

\* What an attempt at a step may leave on the disk.
Leaves(s, d) ==
  /\ d \in DiskType
  /\ d.marker = disk.marker
  /\ disk.accounts \subseteq d.accounts
  /\ disk.encKey # 0 => d.encKey = disk.encKey
  /\ disk.image => d.image
  /\ disk.updater => d.updater
  /\ disk.sudoers => d.sudoers
  /\ s # "config" => d.config = disk.config
  /\ d.config = disk.config \/ d.config = proc.cores
  /\ s # "units" => d.units = disk.units
  /\ d.units = disk.units \/ d.units = proc.cores
  /\ s # "boot" => d.boot = disk.boot
  /\ \/ d.invites = disk.invites
     \/ s = "invite" /\ d.invites = disk.invites + 1
     \/ s = "start" /\ disk.invites = 0 /\ d.invites = 1

\* What a step has done when it comes to its end.
Does(s, d) ==
  /\ s = "users" => d.accounts = Accounts
  /\ s = "config" => d.config = proc.cores /\ d.encKey # 0
  /\ s = "units" => d.units = proc.cores
  /\ s = "helpers" => d.updater /\ d.sudoers
  /\ s = "runner" => d.image
  /\ s = "boot" => d.boot = BootLine
  /\ s = "start" => d.invites > 0

\* The cores of a recommendation are cores of its machine.
LEMMA RecommendedCores ==
  ASSUME NEW c \in Recommendations PROVE c.isolated \subseteq Cores
<1>1. PICK m \in Machines : c = Recommended(m.online, m.cap)
                            \/ c = Recommended(m.online \ m.siblings, m.cap)
  BY DEF Recommendations
<1>2. ASSUME NEW o, o \subseteq m.online, c = Recommended(o, m.cap)
      PROVE  c.isolated \subseteq Cores
  <2>1. c.isolated = Isolated(o, m.cap)
    BY <1>2 DEF Recommended
  <2>2. c.isolated \subseteq o
    BY <2>1 DEF Isolated, Fastest
  <2> QED BY <2>2, <1>2 DEF Cores
<1> QED BY <1>1, <1>2

\* The boot line that is written for a recommendation.
LEMMA BootLineWritten ==
  ASSUME TypeInv, proc.cores # None
  PROVE  /\ BootLine \in Seq(BootWords)
         /\ machine.loader \notin {"none", "bare"} /\ proc.cores.isolated # {} =>
              \A word \in ToSet(BootParams(proc.cores.isolated)) : HoldsOnce(BootLine, word)
<1>1. proc.cores.isolated \subseteq Cores
  BY RecommendedCores DEF TypeInv, ProcType
<1> DEFINE iso == proc.cores.isolated
<1>2. BootParams(iso) \in Seq(BootWords)
  <2>1. /\ Word("isolcpus", iso) \in BootWords /\ Word("nohz_full", iso) \in BootWords
        /\ Word("rcu_nocbs", iso) \in BootWords /\ Word("nosmt", {}) \in BootWords
    BY <1>1 DEF BootWords, BenchKeys, Valued, Word
  <2> HIDE DEF iso
  <2> QED BY <2>1 DEF BootParams
<1>3. Quiet \in Seq(BootWords)
  <2>1. Word("quiet", {}) \in BootWords
    BY DEF BootWords, Word
  <2> QED BY <2>1 DEF Quiet
<1>4. disk.boot \in Seq(BootWords)
  BY DEF TypeInv, DiskType
<1> HIDE DEF iso
<1>5. CASE machine.loader = "bare"
  <2>1. BootLine = disk.boot
    BY <1>5 DEF BootLine, UpdateBootLine
  <2> QED BY <1>4, <1>5, <2>1
<1>6. CASE machine.loader # "bare"
  <2>1. /\ UpdateBootLine(machine.loader, disk.boot, iso) \in Seq(BootWords)
        /\ \A word \in ToSet(BootParams(iso)) :
             HoldsOnce(UpdateBootLine(machine.loader, disk.boot, iso), word)
    BY ONLY <1>2, <1>3, <1>4, <1>6, BootLineFacts
  <2> QED BY <1>4, <2>1 DEF BootLine, iso
<1> QED BY <1>5, <1>6

\* An attempt at a step leaves the disk in one of these ways.
LEMMA StepEffects ==
  ASSUME TypeInv, proc.cores # None, NEW s \in Names
  PROVE  /\ Leaves(s, disk) /\ Leaves(s, Half(s)) /\ Leaves(s, Effect(s))
         /\ Does(s, Effect(s))
<1>1. disk \in DiskType /\ proc.cores \in Recommendations /\ BootLine \in Seq(BootWords)
  BY BootLineWritten DEF TypeInv, ProcType
<1>2. /\ disk.accounts \subseteq Accounts /\ disk.encKey \in 0..1 /\ disk.invites \in Nat
      /\ disk.sudoer \in BOOLEAN
  BY <1>1 DEF DiskType
<1>3. Leaves(s, disk)
  BY <1>1 DEF Leaves
<1>4. Leaves(s, Effect(s)) /\ Does(s, Effect(s))
  <2>1. CASE s = "users"
    <3>1. Effect(s) = [disk EXCEPT !.accounts = Accounts,
                                   !.sudoer = IF "bench" \in Missing THEN TRUE ELSE @]
      BY <2>1 DEF Effect
    <3> QED BY <1>1, <1>2, <2>1, <3>1 DEF Leaves, Does, DiskType
  <2>2. CASE s = "config"
    <3>1. Effect(s) = [disk EXCEPT !.config = proc.cores, !.encKey = KeyWritten]
      BY <2>2 DEF Effect
    <3>2. KeyWritten \in 0..1 /\ KeyWritten # 0 /\ (disk.encKey # 0 => KeyWritten = disk.encKey)
      BY <1>2 DEF KeyWritten
    <3>3. Effect(s) \in DiskType
      BY <1>1, <3>1, <3>2 DEF DiskType
    <3>4. /\ Effect(s).encKey = KeyWritten /\ Effect(s).config = proc.cores
          /\ Effect(s).marker = disk.marker /\ Effect(s).accounts = disk.accounts
          /\ Effect(s).image = disk.image /\ Effect(s).updater = disk.updater
          /\ Effect(s).sudoers = disk.sudoers
          /\ Effect(s).units = disk.units /\ Effect(s).boot = disk.boot
          /\ Effect(s).invites = disk.invites
      BY <1>1, <3>1 DEF DiskType
    <3> QED BY <2>2, <3>2, <3>3, <3>4 DEF Leaves, Does
  <2>3. CASE s = "units"
    <3>1. Effect(s) = [disk EXCEPT !.units = proc.cores]
      BY <2>3 DEF Effect
    <3> QED BY <1>1, <1>2, <2>3, <3>1 DEF Leaves, Does, DiskType
  <2>4. CASE s = "helpers"
    <3>1. Effect(s) = [disk EXCEPT !.updater = TRUE, !.sudoers = TRUE]
      BY <2>4 DEF Effect
    <3> QED BY <1>1, <1>2, <2>4, <3>1 DEF Leaves, Does, DiskType
  <2>5. CASE s = "runner"
    <3>1. Effect(s) = [disk EXCEPT !.image = TRUE]
      BY <2>5 DEF Effect
    <3> QED BY <1>1, <1>2, <2>5, <3>1 DEF Leaves, Does, DiskType
  <2>6. CASE s = "boot"
    <3>1. Effect(s) = [disk EXCEPT !.boot = BootLine]
      BY <2>6 DEF Effect
    <3> QED BY <1>1, <1>2, <2>6, <3>1 DEF Leaves, Does, DiskType
  <2>7. CASE s = "invite"
    <3>1. Effect(s) = [disk EXCEPT !.invites = @ + 1]
      BY <2>7 DEF Effect
    <3> QED BY <1>1, <1>2, <2>7, <3>1 DEF Leaves, Does, DiskType
  <2>8. CASE s = "start"
    <3>1. Effect(s) = [disk EXCEPT !.invites = IF @ = 0 THEN 1 ELSE @]
      BY <2>8 DEF Effect
    <3> QED BY <1>1, <1>2, <2>8, <3>1 DEF Leaves, Does, DiskType
  <2>9. CASE s \in {"packages", "sensors", "irqbalance", "dashboard", "tailscale"}
    <3>1. Effect(s) = disk
      BY <2>9 DEF Effect
    <3> QED BY <1>3, <2>9, <3>1 DEF Does
  <2> QED BY <2>1, <2>2, <2>3, <2>4, <2>5, <2>6, <2>7, <2>8, <2>9 DEF Names
<1>5. Leaves(s, Half(s))
  <2>1. CASE s = "users"
    <3>1. Half(s) = IF "bench" \in Missing
                      THEN [disk EXCEPT !.accounts = @ \cup {"bench"}, !.sudoer = TRUE] ELSE disk
      BY <2>1 DEF Half
    <3>2. disk.accounts \cup {"bench"} \subseteq Accounts
      BY <1>2 DEF Accounts
    <3> QED BY <1>1, <1>2, <1>3, <2>1, <3>1, <3>2 DEF Leaves, DiskType
  <2>2. CASE s = "config"
    <3>1. Half(s) = [disk EXCEPT !.config = proc.cores]
      BY <2>2 DEF Half
    <3> QED BY <1>1, <1>2, <2>2, <3>1 DEF Leaves, DiskType
  <2>3. CASE s = "helpers"
    <3>1. Half(s) = [disk EXCEPT !.updater = TRUE]
      BY <2>3 DEF Half
    <3> QED BY <1>1, <1>2, <2>3, <3>1 DEF Leaves, DiskType
  <2>4. CASE s \notin {"users", "config", "helpers"}
    <3>1. Half(s) = Effect(s)
      BY <2>4 DEF Half
    <3> QED BY <1>4, <3>1
  <2> QED BY <2>1, <2>2, <2>3, <2>4
<1> QED BY <1>3, <1>4, <1>5

\* What holds while a step is under way.
LEMMA AtStep ==
  ASSUME SetupInv, Installing
  PROVE  /\ proc.page = "install" /\ proc.at \in 1..13 /\ Step \in Names
         /\ proc.cores # None /\ proc.cores \in Recommendations /\ ~disk.marker
         /\ Step = "users" <=> proc.at = 4
         /\ Step = "config" <=> proc.at = 5
         /\ Step = "units" <=> proc.at = 6
         /\ Step = "helpers" <=> proc.at = 7
         /\ Step = "runner" <=> proc.at = 9
         /\ Step = "boot" <=> proc.at = 10
         /\ Step = "invite" <=> proc.at = 11
         /\ Step = "start" <=> proc.at = 12
         /\ proc.cores.isolated # None
<1>1. proc.page = "install" /\ proc.at \in 1..13
  BY StepPlaces DEF Installing, SetupInv, TypeInv, ProcType
<1>2. proc.cores # None /\ proc.cores \in Recommendations /\ ~disk.marker
  BY <1>1 DEF SetupInv, TypeInv, ProcType, MarkerInv
<1>3. proc.cores.isolated # None
  BY <1>2, SetupAssumption
<1> QED BY <1>1, <1>2, <1>3, StepPlaces DEF Step

LEMMA SetupStart == SetupInit => SetupInv
<1> SUFFICES ASSUME SetupInit PROVE SetupInv
  OBVIOUS
<1> USE DEF SetupInit
<1>1. TypeInv
  <2>1. disk \in DiskType
    BY DEF DiskType, Accounts
  <2>2. proc \in ProcType
    BY DEF Idle, ProcType, Pages
  <2>3. 0 \in 0..MaxFailures /\ 0 \in 0..MaxReconfigures
    BY SetupAssumption
  <2> QED BY <2>1, <2>2, <2>3 DEF TypeInv, Idle
<1>2. proc.page = "off" /\ ~disk.marker /\ disk.invites = 0
  BY DEF Idle
<1> QED BY <1>1, <1>2 DEF SetupInv, BehindInv, BootInv, MarkerInv, InviteInv, InWizard

\* The wizard is opened.
LEMMA LaunchStep ==
  SetupInv /\ (Login \/ Reconfigure) => SetupInv'
<1> SUFFICES ASSUME SetupInv, Login \/ Reconfigure PROVE SetupInv'
  OBVIOUS
<1>1. PICK r \in BOOLEAN : Launch(r) /\ (~r => ~disk.marker) 
  BY DEF Login, Reconfigure
<1>2. reconfigures' \in 0..MaxReconfigures
  <2>1. CASE Login
    BY <2>1 DEF Login, SetupInv, TypeInv
  <2>2. CASE Reconfigure
    BY <2>2, SetupAssumption DEF Reconfigure, SetupInv, TypeInv
  <2> QED BY <2>1, <2>2
<1> DEFINE chosen == Recommended(Online, machine.cap)
<1>3. chosen \in Recommendations /\ chosen # None
  <2>1. machine \in Machines
    BY DEF SetupInv, TypeInv
  <2>2. chosen \in Recommendations
    BY <2>1 DEF Recommendations, Online
  <2> HIDE DEF chosen
  <2> QED BY <2>2, SetupAssumption
<1> DEFINE isFirst == ~r /\ ~disk.marker
<1>4. proc' = [page |-> "welcome", first |-> isFirst, at |-> 1, cores |-> chosen]
  BY <1>1 DEF Launch
<1> HIDE DEF chosen
<1>5. /\ proc' \in ProcType /\ proc'.page = "welcome" /\ proc'.at = 1 /\ proc'.cores # None
      /\ proc'.first = isFirst
  BY <1>3, <1>4 DEF ProcType, Pages
<1>6. /\ disk' \in DiskType /\ disk'.config = disk.config /\ disk'.units = disk.units
      /\ disk'.invites = disk.invites /\ ~disk'.marker /\ disk'.updater = disk.updater
  BY <1>1 DEF Launch, SetupInv, TypeInv, DiskType
<1>7. /\ UNCHANGED <<machine, active, running, failures>> /\ failed' = {} /\ reported' = {}
      /\ proc.page \in {"off", "done", "failed"}
  BY <1>1 DEF Launch
<1>8. TypeInv'
  BY <1>2, <1>5, <1>6, <1>7 DEF SetupInv, TypeInv
<1>9. BehindInv' /\ BootInv'
  BY <1>5 DEF BehindInv, BootInv
<1>10. MarkerInv'
  BY <1>6 DEF MarkerInv
<1>11. InviteInv'
  <2>1. disk.invites <= 1 + failures /\ (~disk.marker => disk.invites <= failures)
    BY <1>7 DEF SetupInv, InviteInv
  <2> QED BY <2>1, <1>5, <1>6, <1>7 DEF InviteInv
<1> QED BY <1>8, <1>9, <1>10, <1>11 DEF SetupInv

\* A page is turned.
LEMMA TurnStep ==
  SetupInv /\ (NextPage \/ Back) => SetupInv'
<1> SUFFICES ASSUME SetupInv, NextPage \/ Back PROVE SetupInv'
  OBVIOUS
<1>1. /\ InWizard
      /\ \E page \in Pages \ {"off", "done", "failed"} : Turn(page)
  <2>1. CASE NextPage
    <3>1. After(proc.page) \in Pages \ {"off", "done", "failed"}
      BY <2>1 DEF NextPage, InWizard, After, Pages
    <3> QED BY <2>1, <3>1 DEF NextPage
  <2>2. CASE Back
    BY <2>2 DEF Back, InWizard, Pages
  <2> QED BY <2>1, <2>2
<1>2. PICK page \in Pages \ {"off", "done", "failed"} : Turn(page)
  BY <1>1
<1>3. /\ proc \in ProcType /\ proc.at = 1 /\ proc.page \notin {"off", "install", "done", "failed"}
      /\ proc.cores # None
  BY <1>1 DEF SetupInv, TypeInv, BehindInv, InWizard
<1>4. /\ proc' \in ProcType /\ proc'.page = page /\ proc'.at = 1 /\ proc'.cores = proc.cores
      /\ proc'.first = proc.first
  BY <1>2, <1>3 DEF Turn, ProcType
<1>5. UNCHANGED <<machine, disk, active, running, failed, reported, failures, reconfigures>>
  BY <1>2 DEF Turn
<1>6. TypeInv'
  BY <1>3, <1>4, <1>5 DEF SetupInv, TypeInv
<1>7. BehindInv' /\ BootInv'
  BY <1>4 DEF BehindInv, BootInv
<1>8. MarkerInv'
  BY <1>3, <1>5 DEF SetupInv, MarkerInv
<1>9. InviteInv'
  BY <1>3, <1>4, <1>5 DEF SetupInv, InviteInv
<1> QED BY <1>6, <1>7, <1>8, <1>9 DEF SetupInv

\* The installer has gone past a step.
LEMMA MovedOn ==
  SetupInv /\ Installing /\ proc' = [proc EXCEPT !.at = @ + 1] =>
    /\ proc' \in ProcType /\ proc'.page = "install" /\ proc'.at = proc.at + 1
    /\ proc'.first = proc.first /\ proc'.cores = proc.cores
<1> SUFFICES ASSUME SetupInv, Installing, proc' = [proc EXCEPT !.at = @ + 1]
             PROVE  /\ proc' \in ProcType /\ proc'.page = "install" /\ proc'.at = proc.at + 1
                    /\ proc'.first = proc.first /\ proc'.cores = proc.cores
  OBVIOUS
<1>1. proc \in ProcType /\ proc.at \in 1..13 /\ proc.page = "install"
  BY AtStep DEF SetupInv, TypeInv
<1> QED BY <1>1 DEF ProcType

\* A step that is not run.
LEMMA SkipStep == SetupInv /\ Skip => SetupInv'
<1> SUFFICES ASSUME SetupInv, Skip PROVE SetupInv'
  OBVIOUS
<1>1. /\ Installing /\ ~Runs(Step) /\ proc' = [proc EXCEPT !.at = @ + 1]
      /\ UNCHANGED <<machine, disk, active, running, failed, reported, failures, reconfigures>>
  BY DEF Skip
<1>2. /\ proc' \in ProcType /\ proc'.page = "install" /\ proc'.at = proc.at + 1
      /\ proc'.first = proc.first /\ proc'.cores = proc.cores
  BY <1>1, MovedOn
<1>3. /\ proc.page = "install" /\ proc.at \in 1..13 /\ proc.cores # None /\ ~disk.marker
      /\ Step = Steps[proc.at]
  BY <1>1, AtStep DEF Step
<1>4. proc.at \in {11, 13}
  <2>1. Step \in {"invite", "tailscale"}
    BY <1>1 DEF Runs
  <2> QED BY <2>1, <1>3, StepPlaces
<1>5. TypeInv'
  BY <1>1, <1>2, <1>3 DEF SetupInv, TypeInv
<1>6. BehindInv'
  <2>1. ASSUME NEW k \in 1..proc'.at - 1, Runs(Steps[k])' PROVE (Steps[k] \in reported)'
    <3>1. Runs(Steps[k]) /\ k \in 1..proc.at
      BY <2>1, <1>1, <1>2, <1>3 DEF Runs
    <3>2. k # proc.at
      BY <3>1, <1>1, <1>3
    <3>3. k \in 1..proc.at - 1
      BY <3>1, <3>2, <1>3
    <3> QED BY <3>1, <3>3, <1>1, <1>3 DEF SetupInv, BehindInv
  <2>2. (InWizard => proc.at = 1)' /\ (proc.page = "done" => proc.at = 14)'
    BY <1>2 DEF InWizard
  <2> QED BY <1>1, <1>2, <1>3, <1>4, <2>1, <2>2 DEF SetupInv, BehindInv
<1>7. BootInv'
  BY <1>1, <1>2, <1>3, <1>4 DEF SetupInv, BootInv
<1>8. MarkerInv'
  BY <1>1, <1>3 DEF MarkerInv
<1>9. InviteInv'
  BY <1>1, <1>2, <1>3, <1>4 DEF SetupInv, InviteInv
<1> QED BY <1>5, <1>6, <1>7, <1>8, <1>9 DEF SetupInv

\* benchd is started by its own step, with the cores of the config.
LEMMA StartedWith ==
  ASSUME SetupInv, Installing
  PROVE  /\ \/ Started = running
            \/ /\ Step = "start" /\ Started = proc.cores.isolated
               /\ disk.config = proc.cores /\ disk.units = proc.cores
         /\ Step = "start" => Started # None
<1>1. Step = "start" => disk.config = proc.cores /\ disk.units = proc.cores
  BY AtStep DEF SetupInv, BehindInv
<1>2. proc.cores.isolated # None
  BY AtStep
<1> QED BY <1>1, <1>2 DEF Started

\* A step that is run to its end.
LEMMA DoneStep == SetupInv /\ StepDone => SetupInv'
<1> SUFFICES ASSUME SetupInv, StepDone PROVE SetupInv'
  OBVIOUS
<1>1. /\ Installing /\ Runs(Step) /\ Possible(Step) /\ proc' = [proc EXCEPT !.at = @ + 1]
      /\ disk' = Effect(Step) /\ running' = Started /\ reported' = reported \cup {Step}
      /\ UNCHANGED <<machine, active, failed, failures, reconfigures>>
  BY DEF StepDone
<1>2. /\ proc' \in ProcType /\ proc'.page = "install" /\ proc'.at = proc.at + 1
      /\ proc'.first = proc.first /\ proc'.cores = proc.cores
  BY <1>1, MovedOn
<1>3. Leaves(Step, disk') /\ Does(Step, disk')
  <2>1. TypeInv /\ proc.cores # None /\ Step \in Names
    BY <1>1, AtStep DEF SetupInv
  <2> QED BY <2>1, <1>1, StepEffects
<1>4. TypeInv'
  <2>1. running' = None \/ \E c \in Recommendations : running' = c.isolated
    BY <1>1, AtStep, StartedWith DEF SetupInv, TypeInv
  <2>2. running' # None => disk'.config # None /\ disk'.units # None
    BY <1>1, <1>3, AtStep, StartedWith DEF SetupInv, TypeInv, Leaves
  <2>3. disk' \in DiskType
    BY <1>3 DEF Leaves
  <2>4. /\ machine \in Machines /\ active \subseteq Cores
        /\ failed \subseteq reported /\ failed \cap Fatal = {}
        /\ failures \in 0..MaxFailures /\ reconfigures \in 0..MaxReconfigures
    BY DEF SetupInv, TypeInv
  <2>5. proc'.cores # None
    BY <1>1, <1>2, AtStep
  <2> QED BY <1>1, <1>2, <2>1, <2>2, <2>3, <2>4, <2>5 DEF TypeInv
<1>5. BehindInv'
  <2>1. ASSUME NEW k \in 1..proc'.at - 1, Runs(Steps[k])' PROVE (Steps[k] \in reported)'
    <3>1. Runs(Steps[k]) /\ k \in 1..proc.at /\ proc.at \in 1..13
      BY <2>1, <1>1, <1>2, AtStep DEF Runs
    <3>2. CASE k = proc.at
      BY <3>2, <1>1 DEF Step
    <3>3. CASE k # proc.at
      <4>1. k \in 1..proc.at - 1 /\ proc.page = "install"
        BY <3>1, <3>3, <1>1, AtStep
      <4> QED BY <3>1, <4>1, <1>1 DEF SetupInv, BehindInv
    <3> QED BY <3>2, <3>3
  <2>2. (InWizard => proc.at = 1)' /\ (proc.page = "done" => proc.at = 14)'
    BY <1>2 DEF InWizard
  <2>3. /\ proc.page = "install" /\ proc.at \in 1..13
        /\ Step = "users" <=> proc.at = 4
        /\ Step = "config" <=> proc.at = 5
        /\ Step = "units" <=> proc.at = 6
        /\ Step = "helpers" <=> proc.at = 7
        /\ Step = "runner" <=> proc.at = 9
        /\ Step = "start" <=> proc.at = 12
    BY <1>1, AtStep
  <2>4. proc.at + 1 > 4 => disk'.accounts = Accounts
    <3>1. disk'.accounts \subseteq Accounts
      BY <1>3 DEF Leaves, DiskType
    <3>2. proc.at > 4 => disk.accounts = Accounts
      BY <2>3 DEF SetupInv, BehindInv
    <3>3. disk.accounts = Accounts => disk'.accounts = Accounts
      BY <1>3, <3>1 DEF Leaves
    <3>4. Step = "users" => disk'.accounts = Accounts
      BY <1>3 DEF Does
    <3> QED BY <2>3, <3>2, <3>3, <3>4
  <2>5. proc.at + 1 > 5 => disk'.config = proc.cores /\ disk'.encKey # 0
    <3>2. proc.at > 5 => disk.config = proc.cores /\ disk.encKey # 0
      BY <2>3 DEF SetupInv, BehindInv
    <3> QED BY <2>3, <1>3, <3>2 DEF Leaves, Does
  <2>6. proc.at + 1 > 6 => disk'.units = proc.cores
    <3>2. proc.at > 6 => disk.units = proc.cores
      BY <2>3 DEF SetupInv, BehindInv
    <3> QED BY <2>3, <1>3, <3>2 DEF Leaves, Does
  <2>7. proc.at + 1 > 9 => disk'.image /\ disk'.updater
    <3>2. proc.at > 9 => disk.image /\ disk.updater
      BY <2>3 DEF SetupInv, BehindInv
    <3>3. Step = "runner" => disk.updater
      BY <1>1 DEF Possible
    <3> QED BY <2>3, <1>3, <3>2, <3>3 DEF Leaves, Does
  <2>8. proc.at + 1 > 12 => running' # None /\ disk'.invites > 0
    <3>2. proc.at > 12 => running # None /\ disk.invites > 0
      BY <2>3 DEF SetupInv, BehindInv
    <3>3. disk.invites \in Nat /\ disk'.invites \in Nat
      BY <1>3 DEF SetupInv, TypeInv, DiskType, Leaves
    <3>4. Step = "start" => running' # None
      BY <1>1, StartedWith
    <3>5. Step # "start" => running' = running
      BY <1>1 DEF Started
    <3> QED BY <2>3, <1>3, <3>2, <3>3, <3>4, <3>5 DEF Leaves, Does
  <2>9. proc.at + 1 > 7 => disk'.sudoers \/ "helpers" \in failed'
    <3>1. proc.at > 7 => disk.sudoers \/ "helpers" \in failed
      BY <2>3 DEF SetupInv, BehindInv
    <3>2. /\ disk.sudoers => disk'.sudoers
          /\ Step = "helpers" => disk'.sudoers
      BY <1>3 DEF Leaves, Does
    <3>3. failed' = failed
      BY <1>1
    <3> QED BY <2>3, <3>1, <3>2, <3>3
  <2> QED BY <1>2, <2>1, <2>2, <2>4, <2>5, <2>6, <2>7, <2>8, <2>9 DEF BehindInv
<1>6. BootInv'
  <2>1. /\ proc.page = "install" /\ proc.at \in 1..13 /\ proc.cores # None
        /\ Step = "boot" <=> proc.at = 10
    BY <1>1, AtStep
  <2>2. CASE Step = "boot"
    <3>1. disk'.boot = BootLine
      BY <2>2, <1>3 DEF Does
    <3>2. machine.loader \notin {"none", "bare"} /\ proc.cores.isolated # {} =>
              \A word \in ToSet(BootParams(proc.cores.isolated)) : HoldsOnce(BootLine, word)
      BY <2>1, BootLineWritten DEF SetupInv
    <3> QED BY <1>1, <1>2, <3>1, <3>2 DEF BootInv
  <2>3. CASE Step # "boot"
    <3>1. disk'.boot = disk.boot
      BY <2>3, <1>3 DEF Leaves
    <3>2. proc.at + 1 > 10 => proc.at > 10
      BY <2>1, <2>3
    <3> QED BY <1>1, <1>2, <2>1, <3>1, <3>2 DEF SetupInv, BootInv
  <2> QED BY <2>2, <2>3
<1>7. MarkerInv'
  <2>1. ~disk.marker
    BY <1>1, AtStep
  <2> QED BY <2>1, <1>3 DEF MarkerInv, Leaves
<1>8. InviteInv'
  <2>1. /\ proc.page = "install" /\ proc.at \in 1..13
        /\ Step = "helpers" <=> proc.at = 7
        /\ Step = "invite" <=> proc.at = 11
        /\ Step = "start" <=> proc.at = 12
    BY <1>1, AtStep
  <2>2. /\ disk.invites \in Nat /\ failures \in Nat /\ disk.invites <= 1 + failures
        /\ proc.first /\ proc.at <= 11 => disk.invites <= failures
        /\ proc.at > 7 /\ ~disk.updater => disk.invites <= failures
    BY <2>1, SetupAssumption DEF SetupInv, TypeInv, DiskType, InviteInv
  <2>3. Step = "invite" => proc.first
    BY <1>1 DEF Runs
  <2>4. disk'.invites <= 1 + failures
    BY <2>1, <2>2, <2>3, <1>3 DEF Leaves
  <2>5. CASE proc.first /\ proc.at + 1 <= 11
    <3>1. disk'.invites = disk.invites
      BY <2>1, <2>5, <1>3 DEF Leaves
    <3> QED BY <2>1, <2>2, <2>4, <2>5, <3>1, <1>1, <1>2 DEF InviteInv
  <2>6. CASE proc.at + 1 > 7 /\ ~disk'.updater
    <3>1. proc.at > 7 /\ ~disk.updater
      BY <2>1, <2>6, <1>3 DEF Leaves, Does
    <3>2. proc.at <= 9
      BY <3>1, <2>1 DEF SetupInv, BehindInv
    <3>3. disk'.invites = disk.invites
      BY <2>1, <3>2, <1>3 DEF Leaves
    <3> QED BY <2>1, <2>2, <2>4, <3>1, <3>3, <1>1, <1>2 DEF InviteInv
  <2>7. CASE ~(proc.first /\ proc.at + 1 <= 11) /\ ~(proc.at + 1 > 7 /\ ~disk'.updater)
    BY <2>4, <2>7, <1>1, <1>2 DEF InviteInv
  <2> QED BY <2>5, <2>6, <2>7
<1> QED BY <1>4, <1>5, <1>6, <1>7, <1>8 DEF SetupInv

\* A step that fails, with what it had done until then.
LEMMA FailStep == SetupInv /\ StepFails => SetupInv'
<1> SUFFICES ASSUME SetupInv, StepFails PROVE SetupInv'
  OBVIOUS
<1>1. /\ Installing /\ Runs(Step)
      /\ IF Possible(Step) THEN failures < MaxFailures /\ failures' = failures + 1
         ELSE UNCHANGED failures
      /\ disk' \in {disk, Half(Step), Effect(Step)}
      /\ running' \in {running, Started}
      /\ IF Step \in Fatal
         THEN proc' = [proc EXCEPT !.page = "failed"] /\ UNCHANGED failed
         ELSE proc' = [proc EXCEPT !.at = @ + 1] /\ failed' = failed \cup {Step}
      /\ reported' = reported \cup {Step}
      /\ UNCHANGED <<machine, active, reconfigures>>
  BY DEF StepFails
<1>2. /\ proc.page = "install" /\ proc.at \in 1..13 /\ Step \in Names
      /\ proc.cores # None /\ ~disk.marker
      /\ Step = "users" <=> proc.at = 4
      /\ Step = "config" <=> proc.at = 5
      /\ Step = "units" <=> proc.at = 6
      /\ Step = "helpers" <=> proc.at = 7
      /\ Step = "runner" <=> proc.at = 9
      /\ Step = "boot" <=> proc.at = 10
      /\ Step = "invite" <=> proc.at = 11
      /\ Step = "start" <=> proc.at = 12
  BY <1>1, AtStep
<1>3. Leaves(Step, disk')
  <2>1. TypeInv /\ proc.cores # None /\ Step \in Names
    BY <1>2 DEF SetupInv
  <2> QED BY <2>1, <1>1, StepEffects
<1>4. /\ proc' \in ProcType /\ proc'.first = proc.first /\ proc'.cores = proc.cores
      /\ Step \in Fatal => proc'.page = "failed"
      /\ Step \notin Fatal => proc'.page = "install" /\ proc'.at = proc.at + 1
  <2>1. proc \in ProcType
    BY DEF SetupInv, TypeInv
  <2>2. CASE Step \in Fatal
    BY <1>1, <2>1, <2>2 DEF ProcType, Pages
  <2>3. CASE Step \notin Fatal
    BY <1>1, <2>3, MovedOn
  <2> QED BY <2>2, <2>3
<1>5. failures' \in 0..MaxFailures /\ failures' \in Nat /\ failures \in Nat
      /\ \/ failures' = failures + 1
         \/ Step = "runner" /\ ~disk.updater /\ failures' = failures
  <2>1. failures \in 0..MaxFailures /\ MaxFailures \in Nat
    BY SetupAssumption DEF SetupInv, TypeInv
  <2>2. ~Possible(Step) => Step = "runner" /\ ~disk.updater
    BY DEF Possible, Missing
  <2>3. CASE Possible(Step)
    BY <1>1, <2>1, <2>3
  <2>4. CASE ~Possible(Step)
    BY <1>1, <2>1, <2>2, <2>4
  <2> QED BY <2>3, <2>4
<1>6. TypeInv'
  <2>1. running' = None \/ \E c \in Recommendations : running' = c.isolated
    BY <1>1, AtStep, StartedWith DEF SetupInv, TypeInv
  <2>2. running' # None => disk'.config # None /\ disk'.units # None
    BY <1>1, <1>3, AtStep, StartedWith DEF SetupInv, TypeInv, Leaves
  <2>3. disk' \in DiskType
    BY <1>3 DEF Leaves
  <2>4. /\ machine \in Machines /\ active \subseteq Cores
        /\ failed \subseteq reported /\ failed \cap Fatal = {}
        /\ reconfigures \in 0..MaxReconfigures
    BY DEF SetupInv, TypeInv
  <2>5. failed' \subseteq reported' /\ failed' \cap Fatal = {}
    BY <1>1, <2>4
  <2>6. proc'.cores # None
    BY <1>2, <1>4
  <2> QED BY <1>1, <1>4, <1>5, <2>1, <2>2, <2>3, <2>4, <2>5, <2>6 DEF TypeInv
<1>7. BehindInv'
  <2>1. CASE Step \in Fatal
    BY <1>4, <2>1 DEF BehindInv, InWizard
  <2>2. CASE Step \notin Fatal
    <3>1. Step \notin {"users", "config", "units", "runner", "start"}
      BY <2>2 DEF Fatal
    <3>2. ASSUME NEW k \in 1..proc'.at - 1, Runs(Steps[k])' PROVE (Steps[k] \in reported)'
      <4>1. Runs(Steps[k]) /\ k \in 1..proc.at
        BY <3>2, <2>2, <1>1, <1>2, <1>4 DEF Runs
      <4>2. CASE k = proc.at
        BY <4>2, <1>1 DEF Step
      <4>3. CASE k # proc.at
        <5>1. k \in 1..proc.at - 1 /\ proc.page = "install"
          BY <4>1, <4>3, <1>2
        <5> QED BY <4>1, <5>1, <1>1 DEF SetupInv, BehindInv
      <4> QED BY <4>2, <4>3
    <3>3. (InWizard => proc.at = 1)' /\ (proc.page = "done" => proc.at = 14)'
      BY <1>4, <2>2 DEF InWizard
    <3>4. disk.accounts = Accounts => disk'.accounts = Accounts
      BY <1>3 DEF Leaves, DiskType
    <3>5. running' = running
      BY <1>1, <3>1 DEF Started
    <3>6. /\ disk'.config = disk.config /\ disk'.units = disk.units
          /\ disk.encKey # 0 => disk'.encKey # 0
          /\ disk.image => disk'.image
          /\ disk.updater => disk'.updater
          /\ disk.invites > 0 => disk'.invites > 0
      <4>1. disk.invites \in Nat /\ disk'.invites \in Nat
        BY <1>3 DEF SetupInv, TypeInv, DiskType, Leaves
      <4> QED BY <1>3, <3>1, <4>1 DEF Leaves
    <3>7. /\ proc.at > 4 => disk.accounts = Accounts
          /\ proc.at > 5 => disk.config = proc.cores /\ disk.encKey # 0
          /\ proc.at > 6 => disk.units = proc.cores
          /\ proc.at > 9 => disk.image /\ disk.updater
          /\ proc.at > 12 => running # None /\ disk.invites > 0
      BY <1>2 DEF SetupInv, BehindInv
    <3>8. /\ proc.at + 1 > 4 => proc.at > 4
          /\ proc.at + 1 > 5 => proc.at > 5
          /\ proc.at + 1 > 6 => proc.at > 6
          /\ proc.at + 1 > 9 => proc.at > 9
          /\ proc.at + 1 > 12 => proc.at > 12
      BY <1>2, <3>1
    <3>9. proc.at + 1 > 7 => disk'.sudoers \/ "helpers" \in failed'
      <4>1. proc.at > 7 => disk.sudoers \/ "helpers" \in failed
        BY <1>2 DEF SetupInv, BehindInv
      <4>2. disk.sudoers => disk'.sudoers
        BY <1>3 DEF Leaves
      <4>3. failed' = failed \cup {Step}
        BY <1>1, <2>2
      <4>4. Step = "helpers" <=> proc.at = 7
        BY <1>2
      <4> QED BY <1>2, <4>1, <4>2, <4>3, <4>4
    <3> QED BY <1>4, <2>2, <3>2, <3>3, <3>4, <3>5, <3>6, <3>7, <3>8, <3>9 DEF BehindInv
  <2> QED BY <2>1, <2>2
<1>8. BootInv'
  <2>1. CASE Step \in Fatal
    BY <1>4, <2>1 DEF BootInv
  <2>2. CASE Step = "boot"
    BY <1>1, <2>2 DEF BootInv, Fatal
  <2>3. CASE Step \notin Fatal /\ Step # "boot"
    <3>1. disk'.boot = disk.boot
      BY <2>3, <1>3 DEF Leaves
    <3>2. proc.at + 1 > 10 => proc.at > 10
      BY <1>2, <2>3
    <3>3. "boot" \notin failed' => "boot" \notin failed
      BY <1>1
    <3> QED BY <1>1, <1>2, <1>4, <2>3, <3>1, <3>2, <3>3 DEF SetupInv, BootInv
  <2> QED BY <2>1, <2>2, <2>3
<1>9. MarkerInv'
  BY <1>2, <1>3 DEF MarkerInv, Leaves
<1>10. InviteInv'
  <2>1. /\ disk.invites \in Nat /\ disk'.invites \in Nat /\ disk.invites <= 1 + failures
        /\ proc.first /\ proc.at <= 11 => disk.invites <= failures
        /\ proc.at > 7 /\ ~disk.updater => disk.invites <= failures
    BY <1>2, <1>3 DEF SetupInv, TypeInv, DiskType, InviteInv, Leaves
  <2>2. Step = "invite" => proc.first
    BY <1>1 DEF Runs
  <2>3. CASE failures' = failures + 1
    <3>1. disk'.invites <= failures'
      BY <1>2, <1>3, <1>5, <2>1, <2>2, <2>3 DEF Leaves
    <3> QED BY <3>1, <2>1, <1>5 DEF InviteInv
  <2>4. CASE Step = "runner" /\ ~disk.updater /\ failures' = failures
    <3>1. disk'.invites = disk.invites /\ proc.at > 7
      BY <1>2, <1>3, <2>4 DEF Leaves
    <3> QED BY <3>1, <2>1, <2>4, <1>5 DEF InviteInv
  <2> QED BY <1>5, <2>3, <2>4
<1> QED BY <1>6, <1>7, <1>8, <1>9, <1>10 DEF SetupInv

\* The wizard's last words, and the marker as far as it can be set.
LEMMA FinishStep == SetupInv /\ FinishSetup => SetupInv'
<1> SUFFICES ASSUME SetupInv, FinishSetup PROVE SetupInv'
  OBVIOUS
<1>1. PICK marked \in BOOLEAN :
        /\ disk' = [disk EXCEPT !.marker = marked, !.sudoer = FALSE]
        /\ failures' = IF marked THEN failures ELSE failures + 1
  BY DEF FinishSetup
<1>2. /\ proc.page = "install" /\ proc.at = 14
      /\ failures' <= MaxFailures
      /\ proc' = [proc EXCEPT !.page = "done"]
      /\ UNCHANGED <<machine, active, running, failed, reported, reconfigures>>
  BY StepPlaces DEF FinishSetup
<1>3. /\ disk \in DiskType /\ proc \in ProcType /\ proc.cores # None
      /\ proc.cores \in Recommendations
  BY <1>2 DEF SetupInv, TypeInv, ProcType
<1>4. /\ disk' \in DiskType /\ disk'.marker = marked /\ disk'.accounts = disk.accounts
      /\ disk'.config = disk.config /\ disk'.encKey = disk.encKey /\ disk'.units = disk.units
      /\ disk'.updater = disk.updater /\ disk'.image = disk.image /\ disk'.boot = disk.boot
      /\ disk'.invites = disk.invites /\ disk'.sudoers = disk.sudoers
  BY <1>1, <1>3 DEF DiskType
<1>5. /\ proc' \in ProcType /\ proc'.page = "done" /\ proc'.at = 14
      /\ proc'.first = proc.first /\ proc'.cores = proc.cores
  BY <1>2, <1>3 DEF ProcType, Pages
<1>6. failures \in Nat /\ failures' \in 0..MaxFailures
  BY <1>1, <1>2, SetupAssumption DEF SetupInv, TypeInv
<1>7. TypeInv'
  BY <1>2, <1>3, <1>4, <1>5, <1>6 DEF SetupInv, TypeInv
<1>8. /\ disk.accounts = Accounts
      /\ disk.config = proc.cores /\ disk.encKey # 0
      /\ disk.units = proc.cores
      /\ disk.image /\ disk.updater
      /\ running # None /\ disk.invites > 0
      /\ disk.sudoers \/ "helpers" \in failed
      /\ \A k \in 1..13 : Runs(Steps[k]) => Steps[k] \in reported
  BY <1>2 DEF SetupInv, BehindInv
<1>9. BehindInv'
  <2>1. \A k \in 1..13 : (Runs(Steps[k]) => Steps[k] \in reported)'
    BY <1>2, <1>5, <1>8 DEF Runs
  <2>2. InWizard' => FALSE
    BY <1>5 DEF InWizard
  <2> QED BY <1>2, <1>4, <1>5, <1>8, <2>1, <2>2 DEF BehindInv
<1>10. BootInv'
  BY <1>2, <1>4, <1>5 DEF SetupInv, BootInv
<1>11. MarkerInv'
  BY <1>2, <1>3, <1>4, <1>5, <1>8 DEF MarkerInv, CompleteMeansInstalled
<1>12. InviteInv'
  <2>1. disk.invites <= 1 + failures /\ disk.invites \in Nat
    BY <1>3 DEF SetupInv, InviteInv, DiskType
  <2> QED BY <1>1, <1>4, <1>5, <1>6, <2>1 DEF InviteInv
<1> QED BY <1>7, <1>9, <1>10, <1>11, <1>12 DEF SetupInv

\* The installer is killed where it is.
LEMMA KillStep == SetupInv /\ Killed => SetupInv'
<1> SUFFICES ASSUME SetupInv, Killed PROVE SetupInv'
  OBVIOUS
<1>1. /\ proc.page \notin {"off", "done", "failed"}
      /\ failures < MaxFailures /\ failures' = failures + 1
      /\ \/ disk' = disk
         \/ Installing /\ Runs(Step) /\ disk' = Half(Step)
         \/ proc.at > Len(Steps) /\ disk' = [disk EXCEPT !.marker = TRUE]
      /\ proc' = Idle
      /\ failed' = {} /\ reported' = {}
      /\ UNCHANGED <<machine, active, running, reconfigures>>
  BY DEF Killed
<1>2. /\ proc' \in ProcType /\ proc'.page = "off" /\ disk \in DiskType /\ proc \in ProcType
      /\ ~disk.marker
  BY <1>1 DEF Idle, ProcType, Pages, SetupInv, TypeInv, MarkerInv
<1>3. failures \in Nat /\ failures' \in 0..MaxFailures
  BY <1>1, SetupAssumption DEF SetupInv, TypeInv
<1>4. /\ disk.invites \in Nat /\ disk.invites <= 1 + failures
      /\ proc.first /\ proc.at <= 11 => disk.invites <= failures
  BY <1>1, <1>2 DEF SetupInv, InviteInv, DiskType
<1>5. BehindInv' /\ BootInv'
  BY <1>2 DEF BehindInv, BootInv, InWizard
<1>6. CASE proc.at > Len(Steps) /\ disk' = [disk EXCEPT !.marker = TRUE]
  <2>1. proc.at = 14 /\ proc.page = "install"
    BY <1>1, <1>2, <1>6, StepPlaces DEF ProcType, SetupInv, BehindInv, InWizard
  <2>2. /\ disk' \in DiskType /\ disk'.accounts = disk.accounts
        /\ disk'.config = disk.config /\ disk'.encKey = disk.encKey
        /\ disk'.units = disk.units /\ disk'.image = disk.image
        /\ disk'.invites = disk.invites /\ disk'.marker
    BY <1>2, <1>6 DEF DiskType
  <2>3. /\ disk.accounts = Accounts /\ disk.config = proc.cores /\ disk.encKey # 0
        /\ disk.units = proc.cores /\ disk.image /\ running # None /\ disk.invites > 0
    BY <2>1 DEF SetupInv, BehindInv
  <2>4. TypeInv'
    BY <1>1, <1>2, <1>3, <2>2 DEF SetupInv, TypeInv
  <2>5. MarkerInv'
    <3>1. proc.cores # None
      BY <2>1 DEF SetupInv, TypeInv
    <3> QED BY <1>1, <1>2, <2>2, <2>3, <3>1 DEF MarkerInv, CompleteMeansInstalled
  <2>6. InviteInv'
    BY <1>1, <1>2, <1>3, <1>4, <2>2 DEF InviteInv
  <2> QED BY <1>5, <2>4, <2>5, <2>6 DEF SetupInv
<1>7. CASE disk' = disk \/ (Installing /\ Runs(Step) /\ disk' = Half(Step))
  <2>1. /\ disk' \in DiskType /\ disk'.marker = disk.marker
        /\ running # None => disk'.config # None /\ disk'.units # None
        /\ disk'.invites <= failures'
    <3>1. CASE disk' = disk
      BY <3>1, <1>1, <1>2, <1>3, <1>4 DEF SetupInv, TypeInv
    <3>2. CASE Installing /\ Runs(Step) /\ disk' = Half(Step)
      <4>1. /\ Leaves(Step, disk') /\ proc.cores # None
            /\ Step = "invite" => proc.first /\ proc.at <= 11
        <5>1. TypeInv /\ proc.cores # None /\ Step \in Names
          BY <3>2, AtStep DEF SetupInv
        <5>2. Step = "invite" => proc.first /\ proc.at <= 11
          BY <3>2, AtStep DEF Runs
        <5> QED BY <3>2, <5>1, <5>2, StepEffects
      <4>2. disk'.invites <= failures'
        BY <4>1, <1>1, <1>3, <1>4 DEF Leaves
      <4> QED BY <4>1, <4>2 DEF Leaves, SetupInv, TypeInv
    <3> QED BY <1>7, <3>1, <3>2
  <2>2. TypeInv'
    BY <1>1, <1>2, <1>3, <2>1 DEF SetupInv, TypeInv
  <2>3. MarkerInv'
    BY <1>2, <2>1 DEF MarkerInv
  <2>4. InviteInv'
    <3>1. disk'.invites \in Nat
      BY <2>1 DEF DiskType
    <3> QED BY <1>3, <2>1, <3>1 DEF InviteInv
  <2> QED BY <1>5, <2>2, <2>3, <2>4 DEF SetupInv
<1> QED BY <1>1, <1>6, <1>7

\* The host is started again.
LEMMA RebootStep == SetupInv /\ Reboot => SetupInv'
<1> SUFFICES ASSUME SetupInv, Reboot PROVE SetupInv'
  OBVIOUS
<1>1. /\ proc.page \in {"off", "done", "failed"}
      /\ active' = BootCores
      /\ running' = IF running = None THEN None ELSE disk.config.isolated
      /\ proc' = Idle
      /\ UNCHANGED <<machine, disk, failed, reported, failures, reconfigures>>
  BY DEF Reboot
<1>2. /\ proc' \in ProcType /\ proc'.page = "off"
  BY <1>1 DEF Idle, ProcType, Pages
<1>3. active' \subseteq Cores
  <2>1. disk.boot \in Seq(BootWords)
    BY DEF SetupInv, TypeInv, DiskType
  <2>2. \A w \in ToSet(disk.boot) : w \in BootWords
    BY <2>1 DEF ToSet
  <2>3. \A w \in ToSet(disk.boot) : w.is \subseteq Cores
    BY <2>2 DEF BootWords
  <2> QED BY <1>1, <2>3 DEF BootCores
<1>4. running # None => disk.config \in Recommendations /\ disk.config.isolated # None
  BY SetupAssumption DEF SetupInv, TypeInv, DiskType
<1>5. TypeInv'
  BY <1>1, <1>2, <1>3, <1>4 DEF SetupInv, TypeInv
<1>6. BehindInv' /\ BootInv'
  BY <1>2 DEF BehindInv, BootInv, InWizard
<1>7. MarkerInv'
  BY <1>1, <1>2, <1>4 DEF SetupInv, MarkerInv, CompleteMeansInstalled
<1>8. InviteInv'
  BY <1>1, <1>2 DEF SetupInv, InviteInv
<1> QED BY <1>5, <1>6, <1>7, <1>8 DEF SetupInv

\* The invariant is inductive.
LEMMA SetupStep == SetupInv /\ [SetupNext]_setupVars => SetupInv'
<1> SUFFICES ASSUME SetupInv, [SetupNext]_setupVars PROVE SetupInv'
  OBVIOUS
<1>1. CASE Login \/ Reconfigure
  BY <1>1, LaunchStep
<1>2. CASE NextPage \/ Back
  BY <1>2, TurnStep
<1>3. CASE Skip
  BY <1>3, SkipStep
<1>4. CASE StepDone
  BY <1>4, DoneStep
<1>5. CASE StepFails
  BY <1>5, FailStep
<1>6. CASE FinishSetup
  BY <1>6, FinishStep
<1>7. CASE Killed
  BY <1>7, KillStep
<1>8. CASE Reboot
  BY <1>8, RebootStep
<1>9. CASE UNCHANGED setupVars
  <2>1. UNCHANGED <<machine, disk, active, running, proc, failed, reported, failures, reconfigures>>
    BY <1>9 DEF setupVars
  <2> QED BY <2>1 DEF SetupInv, TypeInv, BehindInv, BootInv, MarkerInv, InviteInv,
                      CompleteMeansInstalled, InWizard, Runs
<1> QED BY <1>1, <1>2, <1>3, <1>4, <1>5, <1>6, <1>7, <1>8, <1>9 DEF SetupNext

\* The invariant has all that the runs check of the setup.
LEMMA SetupSound == SetupInv => SetupIsSound
<1> SUFFICES ASSUME SetupInv PROVE SetupIsSound
  OBVIOUS
<1>1. SetupTypeOK
  <2>1. disk.invites \in 0..MaxFailures + 1
    BY SetupAssumption DEF SetupInv, TypeInv, InviteInv, DiskType
  <2>2. proc.at \in 1..Len(Steps) + 1
    BY StepPlaces DEF SetupInv, TypeInv, ProcType
  <2> QED BY <2>1, <2>2 DEF SetupTypeOK, SetupInv, TypeInv, ProcType, DiskType
<1>2. CompleteMeansInstalled
  BY DEF SetupInv, MarkerInv, CompleteMeansInstalled
<1>3. CoresAgree
  <2>1. proc.page = "done" => disk.units = proc.cores /\ disk.config = proc.cores /\ proc.at = 14
    BY DEF SetupInv, BehindInv
  <2> QED BY <2>1 DEF CoresAgree, SetupInv, BootInv
<1>4. FewInvites
  BY DEF SetupInv, InviteInv, FewInvites
<1>5. ProgressIsHonest
  <2>1. SUFFICES ASSUME proc.page = "done", NEW s \in Listed(proc.first) PROVE s \in reported
    BY DEF ProgressIsHonest
  <2>2. PICK k \in DOMAIN Steps : s = Steps[k]
    BY <2>1 DEF Listed
  <2>3. k \in 1..13
    BY <2>2 DEF Steps
  <2>4. Runs(Steps[k])
    BY <2>1, <2>2 DEF Listed, Runs
  <2>5. proc.at = 14
    BY <2>1 DEF SetupInv, BehindInv
  <2> QED BY <2>1, <2>2, <2>3, <2>4, <2>5 DEF SetupInv, BehindInv
<1>6. SudoIsReplaced
  BY DEF SetupInv, BehindInv, SudoIsReplaced
<1> QED BY <1>1, <1>2, <1>3, <1>4, <1>5, <1>6 DEF SetupIsSound

\* Whatever fails or is killed on the way and however often the setup is run
\* again: a host that counts as set up has what its services cannot do without,
\* with the cores of one run in the config and the units, and in the boot line
\* where there is a line to write; bench has its sudo rules, or the page has shown
\* that they failed; there are no more invites than one and one for each run
\* that went wrong; and the page tells what was done.
THEOREM SetupLeavesItWhole == SetupSpec => []SetupIsSound
<1>1. SetupSpec => []SetupInv
  BY SetupStart, SetupStep, PTL DEF SetupSpec
<1> QED BY <1>1, SetupSound, PTL

\* No step of the installer, done or half done, replaces the key that seals
\* the tokens of the database.
THEOREM KeyOutlivesSetups == SetupSpec => KeyIsKept
<1>1. SetupInv /\ [SetupNext]_setupVars => (disk.encKey # 0 => disk'.encKey = disk.encKey)
  <2> SUFFICES ASSUME SetupInv, [SetupNext]_setupVars, disk.encKey # 0
               PROVE disk'.encKey = disk.encKey
    OBVIOUS
  <2>1. disk \in DiskType
    BY DEF SetupInv, TypeInv
  <2>2. ASSUME NEW d \in {disk, Half(Step), Effect(Step)}, Installing
        PROVE d.encKey = disk.encKey
    <3>1. TypeInv /\ proc.cores # None /\ Step \in Names
      BY <2>2, AtStep DEF SetupInv
    <3>2. Leaves(Step, d)
      BY <2>2, <3>1, StepEffects
    <3> QED BY <3>2 DEF Leaves
  <2>3. CASE Login \/ Reconfigure
    BY <2>1, <2>3 DEF Login, Reconfigure, Launch, DiskType
  <2>4. CASE NextPage \/ Back
    BY <2>4 DEF NextPage, Back, Turn
  <2>5. CASE Skip
    BY <2>5 DEF Skip
  <2>6. CASE StepDone
    BY <2>2, <2>6 DEF StepDone
  <2>7. CASE StepFails
    BY <2>2, <2>7 DEF StepFails
  <2>8. CASE FinishSetup
    BY <2>1, <2>8 DEF FinishSetup, DiskType
  <2>9. CASE Killed
    BY <2>1, <2>2, <2>9 DEF Killed, DiskType
  <2>10. CASE Reboot
    BY <2>10 DEF Reboot
  <2>11. CASE UNCHANGED setupVars
    BY <2>11 DEF setupVars
  <2> QED BY <2>3, <2>4, <2>5, <2>6, <2>7, <2>8, <2>9, <2>10, <2>11 DEF SetupNext
<1>2. SetupSpec => []SetupInv
  BY SetupStart, SetupStep, PTL DEF SetupSpec
<1> QED BY <1>1, <1>2, PTL DEF SetupSpec, KeyIsKept

-----------------------------------------------------------------------------
(* The functions on cores and on the config.                               *)

\* A set of naturals that is not empty has a least member.
LEMMA LeastMember ==
  ASSUME NEW S, S \subseteq Nat, S # {}
  PROVE  \E x \in S : \A y \in S : x <= y
<1>1. PICK x \in S : \A y \in Nat : <<y, x>> \in OpToRel(<, Nat) => y \notin S
  <2>1. IsWellFoundedOn(OpToRel(<, Nat), Nat)
    BY NatLessThanWellFounded
  <2>2. \A y : <<y, y>> \in OpToRel(<, Nat) => y \in Nat
    BY DEF OpToRel
  <2> QED BY ONLY <2>1, S \subseteq Nat, S # {}, WFMin
<1>2. ASSUME NEW y \in S PROVE x <= y
  <2>1. x \in Nat /\ y \in Nat
    OBVIOUS
  <2>2. SUFFICES ASSUME y < x PROVE FALSE
    BY <2>1
  <2>3. <<y, x>> \in OpToRel(<, Nat)
    BY <2>1, <2>2 DEF OpToRel
  <2> QED BY <1>1, <2>1, <2>3
<1> QED BY <1>2

LEMMA MinOfNaturals ==
  ASSUME NEW S, S \subseteq Nat, S # {}
  PROVE  Min(S) \in S
BY LeastMember DEF Min

\* There is a slowest and a fastest core.
LEMMA SlowestAndFastest ==
  ASSUME NEW online, online \subseteq CoreIds, online # {}, NEW cap \in [online -> Capacities]
  PROVE  Slowest(online, cap) # {} /\ Fastest(online, cap) # {}
<1>0. /\ MaxCore \in Nat /\ \A c \in online : cap[c] \in Nat /\ c \in 0..MaxCore
  BY HostAssumption DEF CoreIds
<1>1. Slowest(online, cap) # {}
  <2> DEFINE caps == {cap[c] : c \in online}
  <2>1. caps \subseteq Nat /\ caps # {}
    BY <1>0
  <2>2. PICK x \in caps : \A y \in caps : x <= y
    <3> HIDE DEF caps
    <3> QED BY ONLY <2>1, LeastMember
  <2>3. PICK c \in online : cap[c] = x
    OBVIOUS
  <2> QED BY <2>2, <2>3 DEF Slowest
<1>2. Fastest(online, cap) # {}
  <2> DEFINE To(n) == {c \in online : c <= n}
  <2> DEFINE Top(n) == \E c \in To(n) : \A d \in To(n) : cap[c] >= cap[d]
  <2> DEFINE S == {n \in 0..MaxCore : To(n) = {} \/ Top(n)}
  <2>1. 0 \in S
    <3>1. \A c \in To(0) : c = 0
      BY <1>0
    <3>2. 0 \in 0..MaxCore
      BY <1>0
    <3>3. CASE To(0) = {}
      BY <3>2, <3>3
    <3>4. CASE To(0) # {}
      <4>1. PICK c \in To(0) : TRUE
        BY <3>4
      <4>2. \A d \in To(0) : cap[c] >= cap[d]
        BY <4>1, <3>1, <1>0
      <4> QED BY <4>1, <4>2, <3>2
    <3> QED BY <3>3, <3>4
  <2>2. ASSUME NEW n \in 0..MaxCore, n # 0, n - 1 \in S PROVE n \in S
    <3>0. n - 1 \in 0..MaxCore /\ (To(n - 1) = {} \/ Top(n - 1))
      BY <2>2
    <3>1. \A c \in online : c \in To(n) <=> c \in To(n - 1) \/ c = n
      BY <1>0
    <3>2. CASE n \notin online
      <4>1. To(n) = To(n - 1)
        BY <3>1, <3>2
      <4>2. To(n) = {} \/ Top(n)
        <5> HIDE DEF To
        <5> QED BY <3>0, <4>1
      <4> QED BY <4>2
    <3>3. CASE n \in online /\ To(n - 1) = {}
      <4>1. \A d \in To(n) : d = n
        BY <3>1, <3>3
      <4>2. n \in To(n)
        BY <3>1, <3>3
      <4>3. \A d \in To(n) : cap[n] >= cap[d]
        BY <4>1, <1>0
      <4> HIDE DEF To
      <4> QED BY <4>2, <4>3
    <3>4. CASE n \in online /\ To(n - 1) # {}
      <4>1. PICK c \in To(n - 1) : \A d \in To(n - 1) : cap[c] >= cap[d]
        BY <3>0, <3>4
      <4>2. c \in online /\ c \in To(n) /\ n \in To(n)
        BY <3>1, <3>4, <4>1
      <4>3. \A d \in To(n) : d \in online /\ (d \in To(n - 1) \/ d = n)
        BY <3>1
      <4> HIDE DEF To
      <4>4. CASE cap[n] >= cap[c]
        <5>1. \A d \in To(n) : cap[n] >= cap[d]
          BY <4>1, <4>2, <4>3, <4>4, <1>0
        <5> QED BY <4>2, <5>1
      <4>5. CASE ~(cap[n] >= cap[c])
        <5>1. \A d \in To(n) : cap[c] >= cap[d]
          BY <4>1, <4>2, <4>3, <4>5, <1>0
        <5> QED BY <4>2, <5>1
      <4> QED BY <4>4, <4>5
    <3> QED BY <3>2, <3>3, <3>4
  <2>3. 0..MaxCore \subseteq S
    <3> HIDE DEF S
    <3> QED BY ONLY <2>1, <2>2, <1>0, UpTheLine
  <2>4. MaxCore \in S
    BY <2>3, <1>0
  <2>5. To(MaxCore) = online
    BY <1>0
  <2>6. \E c \in online : \A d \in online : cap[c] >= cap[d]
    <3> HIDE DEF To
    <3> QED BY <2>4, <2>5
  <2> QED BY <2>6 DEF Fastest
<1> QED BY <1>1, <1>2

\* The inputs of the four kinds are told apart by their kind.
LEMMA SplitsAreSplits == \A i \in SplitInputs : i.of = "split"
<1> SUFFICES ASSUME NEW i \in SplitInputs PROVE i.of = "split"
  OBVIOUS
<1> DEFINE Quoted(p, q) == [of : {"split"}, p : {p}, v : Quotable(p), q : {q}, w : Quotable(q)]
<1>1. SplitInputs = UNION {Quoted(p, q) : p, q \in {Single, Double}}
  BY DEF SplitInputs
<1>2. \A p, q : \A r \in Quoted(p, q) : r.of = "split"
  OBVIOUS
<1> HIDE DEF Quoted
<1>3. PICK r \in {Quoted(p, q) : p, q \in {Single, Double}} : i \in r
  BY <1>1
<1>4. PICK p \in {Single, Double}, q \in {Single, Double} : r = Quoted(p, q)
  BY <1>3
<1> QED BY <1>2, <1>3, <1>4

\* On every host, whatever its cores and their capacities: the core of the
\* services is not isolated, something is when there is a second core, and the
\* isolated cores are alike.
THEOREM ServicesKeepACore == input \in Inputs => CoresApart
<1> SUFFICES ASSUME input \in Inputs, input.of = "cores" PROVE CoresApart
  BY DEF CoresApart
<1> DEFINE online == input.online
<1> DEFINE cap == input.cap
<1>1. /\ online \subseteq CoreIds /\ online # {}
      /\ cap \in [online -> Capacities] \cup {NoCapacities}
  <2>1. input \notin RangeInputs /\ input \notin BootInputs
    <3>1. \A i \in RangeInputs : i.of = "range"
      BY DEF RangeInputs
    <3>2. \A i \in BootInputs : i.of = "boot"
      BY DEF BootInputs
    <3> QED BY <3>1, <3>2
  <2>2. input \notin SplitInputs /\ input \notin ConfigInputs
    <3>1. \A i \in SplitInputs : i.of = "split"
      BY SplitsAreSplits
    <3>2. \A i \in ConfigInputs : i.of = "config"
      BY DEF ConfigInputs
    <3> QED BY <3>1, <3>2
  <2>3. input \in CoreInputs
    BY <2>1, <2>2 DEF Inputs
  <2>4. PICK o \in (SUBSET CoreIds) \ {{}} :
          input \in [of : {"cores"}, online : {o}, cap : [o -> Capacities] \cup {NoCapacities}]
    BY <2>3 DEF CoreInputs
  <2> QED BY <2>4
<1>2. CoreIds \subseteq Nat /\ IsFiniteSet(CoreIds)
  BY HostAssumption, FS_Interval DEF CoreIds
<1>3. IsFiniteSet(online)
  BY <1>1, <1>2, FS_Subset
<1> DEFINE least == Housekeeping(online, cap)
<1> DEFINE rest == Isolated(online, cap)
<1>4. Recommended(online, cap).isolated = rest /\ Recommended(online, cap).housekeeping = least
  BY DEF Recommended
<1>5. Cardinality(online) = 1 <=> \E c : online = {c}
  BY <1>3, FS_Singleton
<1> HIDE DEF online, cap
<1>6. CASE cap = NoCapacities
  <2>1. least \in online
    BY <1>1, <1>2, <1>6, MinOfNaturals DEF Housekeeping
  <2>2. rest = online \ {least}
    BY <1>6 DEF Isolated
  <2> HIDE DEF least, rest
  <2>3. (rest = {}) <=> \E c : online = {c}
    BY <2>1, <2>2
  <2>4. (rest = {}) = (Cardinality(online) = 1)
    BY <2>3, <1>5
  <2> QED BY <1>4, <1>6, <2>1, <2>2, <2>4 DEF CoresApart, online, cap
<1>7. CASE cap # NoCapacities
  <2>0. cap \in [online -> Capacities] /\ \A c \in online : cap[c] \in Nat
    BY <1>1, <1>7, HostAssumption
  <2>1. Slowest(online, cap) # {} /\ Fastest(online, cap) # {}
    BY <1>1, <2>0, SlowestAndFastest
  <2>2. least \in Slowest(online, cap)
    <3>1. Slowest(online, cap) \subseteq Nat
      BY <1>1, <1>2 DEF Slowest
    <3> QED BY <2>1, <3>1, <1>7, MinOfNaturals DEF Housekeeping
  <2>3. rest = Fastest(online, cap) \ {least}
    BY <1>7 DEF Isolated
  <2> HIDE DEF least, rest
  <2>4. least \in online /\ \A d \in online : cap[least] <= cap[d]
    BY <2>2 DEF Slowest
  <2>5. rest \subseteq online \ {least} /\ \A c \in rest : \A d \in online : cap[c] >= cap[d]
    BY <2>3 DEF Fastest
  <2>6. ASSUME rest = {}, NEW c \in online PROVE c = least
    <3>1. least \in Fastest(online, cap)
      BY <2>1, <2>3, <2>6
    <3>2. \A d \in online : cap[d] = cap[least]
      BY <3>1, <2>0, <2>4 DEF Fastest
    <3>3. c \in Fastest(online, cap)
      BY <3>2, <2>0, <2>6 DEF Fastest
    <3> QED BY <3>3, <2>3, <2>6
  <2>7. (rest = {}) <=> \E c : online = {c}
    <3>1. ASSUME rest = {} PROVE online = {least}
      BY <3>1, <2>4, <2>6
    <3>2. ASSUME NEW c, online = {c} PROVE rest = {}
      BY <3>2, <2>4, <2>5
    <3> QED BY <3>1, <3>2
  <2>8. (rest = {}) = (Cardinality(online) = 1)
    BY <2>7, <1>5
  <2>9. \A c, d \in rest : cap[c] = cap[d]
    BY <2>0, <2>5
  <2> QED BY <1>4, <2>4, <2>5, <2>8, <2>9 DEF CoresApart, online, cap
<1> QED BY <1>6, <1>7

\* The config that is written is the config that is read, for every key and
\* every value of the key, a text that looks like a number included.
THEOREM ConfigComesBack == input \in Inputs => ConfigRoundTrips
<1> SUFFICES ASSUME input \in Inputs, input.of = "config" PROVE ConfigRoundTrips
  BY DEF ConfigRoundTrips
<1>1. input.key \in Keys /\ input.value \in Values(input.key)
  <2>1. input \notin RangeInputs /\ input \notin BootInputs
    <3>1. \A i \in RangeInputs : i.of = "range"
      BY DEF RangeInputs
    <3>2. \A i \in BootInputs : i.of = "boot"
      BY DEF BootInputs
    <3> QED BY <3>1, <3>2
  <2>2. input \notin SplitInputs /\ input \notin CoreInputs
    <3>1. \A i \in SplitInputs : i.of = "split"
      BY SplitsAreSplits
    <3>2. \A i \in CoreInputs : i.of = "cores"
      BY DEF CoreInputs
    <3> QED BY <3>1, <3>2
  <2>3. input \in ConfigInputs
    BY <2>1, <2>2 DEF Inputs
  <2>4. PICK k \in Keys : input \in [of : {"config"}, key : {k}, value : Values(k)]
    BY <2>3 DEF ConfigInputs
  <2> QED BY <2>4
<1> DEFINE config == [Defaults EXCEPT ![input.key] = input.value]
<1> DEFINE Entry(k, is) ==
              IF k \in TextKeys THEN [form |-> "quoted", text |-> is]
              ELSE IF k = "isolated_cores"
                   THEN [form |-> "list", text |-> [i \in DOMAIN is |-> Bare(is[i].is)]]
              ELSE Bare(is)
<1>2. ASSUME NEW k \in Keys
      PROVE  /\ \E v : v \in Values(k)
             /\ \A v \in Values(k) : ParseValue(Entry(k, v.is)) = v
  <2>1. k # "isolated_cores" => k \in TextKeys \/ k = "update_auto" \/ k \in NumberKeys
    BY DEF Keys
  <2>2. CASE k \in TextKeys
    <3>1. Values(k) = {Value("string", is) : is \in {"noron", "true", "4"}}
      BY <2>2 DEF Values
    <3>2. \A is : ParseValue(Entry(k, is)) = Value("string", is)
      BY <2>2 DEF ParseValue
    <3>3. \A is : Value("string", is).is = is
      BY DEF Value
    <3> HIDE DEF Entry
    <3> QED BY <3>1, <3>2, <3>3
  <2>3. CASE k \notin TextKeys /\ k = "update_auto"
    <3>1. Values(k) = {Value("boolean", is) : is \in {"true", "false"}}
      BY <2>3 DEF Values
    <3>2. \A is \in {"true", "false"} : ParseValue(Entry(k, is)) = Value("boolean", is)
      BY <2>3 DEF ParseValue, ParseBare, Bare
    <3>3. \A is : Value("boolean", is).is = is
      BY DEF Value
    <3> HIDE DEF Entry
    <3> QED BY <3>1, <3>2, <3>3
  <2>4. CASE k \notin TextKeys /\ k \notin {"update_auto", "isolated_cores"}
    <3>1. Values(k) = {Value("number", is) : is \in {"0", "4"}}
      BY <2>4 DEF Values
    <3>2. \A is \in {"0", "4"} : ParseValue(Entry(k, is)) = Value("number", is)
      BY <2>4 DEF ParseValue, ParseBare, Bare
    <3>3. \A is : Value("number", is).is = is
      BY DEF Value
    <3> HIDE DEF Entry
    <3> QED BY <3>1, <3>2, <3>3
  <2>5. CASE k = "isolated_cores"
    <3> DEFINE Cells == {Value("number", "0"), Value("number", "4")}
    <3>1. k \notin TextKeys /\ Values(k) = {Value("array", is) : is \in BoundedSeq(Cells, 2)}
      BY <2>5 DEF Values, TextKeys
    <3>2. \A c \in Cells : ParseBare(c.is) = c
      BY DEF ParseBare, Value
    <3>3. \A is \in BoundedSeq(Cells, 2) : \E n \in 0..2 : is \in [1..n -> Cells]
      BY DEF BoundedSeq, SeqOf
    <3> HIDE DEF Cells
    <3>4. ASSUME NEW is \in BoundedSeq(Cells, 2)
          PROVE  ParseValue(Entry(k, is)) = Value("array", is)
      <4>1. PICK n \in 0..2 : is \in [1..n -> Cells]
        BY <3>3
      <4> DEFINE raw == [i \in DOMAIN is |-> Bare(is[i].is)]
      <4>2. Entry(k, is) = [form |-> "list", text |-> raw]
        BY <2>5, <3>1
      <4>3. ParseValue([form |-> "list", text |-> raw])
              = Value("array", [i \in DOMAIN raw |-> ParseBare(raw[i].text)])
        <5> HIDE DEF raw
        <5> QED BY DEF ParseValue
      <4>4. \A i \in DOMAIN is : raw[i].text = is[i].is /\ is[i] \in Cells
        BY <4>1 DEF Bare
      <4>5. DOMAIN raw = DOMAIN is
        OBVIOUS
      <4> HIDE DEF raw, Entry
      <4>6. [i \in DOMAIN raw |-> ParseBare(raw[i].text)] = [i \in DOMAIN is |-> is[i]]
        BY <4>4, <4>5, <3>2
      <4>7. [i \in DOMAIN is |-> is[i]] = is
        BY <4>1
      <4> QED BY <4>2, <4>3, <4>6, <4>7
    <3>5. \A is : Value("array", is).is = is
      BY DEF Value
    <3>6. <<>> \in BoundedSeq(Cells, 2)
      <4>1. 0 \in 0..2 /\ <<>> \in [1..0 -> Cells]
        OBVIOUS
      <4> QED BY <4>1 DEF BoundedSeq, SeqOf
    <3> HIDE DEF Entry
    <3> QED BY <3>1, <3>4, <3>5, <3>6
  <2> QED BY <2>1, <2>2, <2>3, <2>4, <2>5
<1>3. \A k \in Keys : Defaults[k] \in Values(k)
  BY <1>2 DEF Defaults
<1>4. DOMAIN Defaults = Keys
  BY DEF Defaults
<1>5. \A k \in Keys : config[k] \in Values(k)
  BY <1>1, <1>3, <1>4
<1>6. config = [k \in Keys |-> config[k]]
  <2>1. Defaults \in [Keys -> UNION {Values(k) : k \in Keys}]
    <3>1. Defaults = [k \in Keys |-> Defaults[k]]
      BY DEF Defaults
    <3> QED BY <1>3, <3>1
  <2> HIDE DEF config
  <2>2. config \in [Keys -> UNION {Values(k) : k \in Keys}]
    BY <1>1, <2>1 DEF config
  <2> QED BY <2>2
<1> HIDE DEF config
<1>7. LoadConfig(Serialize(config)) = [k \in Keys |-> config[k]]
  <2>1. Serialize(config) = [k \in Keys |-> Entry(k, config[k].is)]
    BY DEF Serialize, QuotedKeys
  <2> HIDE DEF Entry
  <2>2. LoadConfig(Serialize(config)) = [k \in Keys |-> ParseValue(Entry(k, config[k].is))]
    BY <2>1 DEF LoadConfig
  <2>3. \A k \in Keys : ParseValue(Entry(k, config[k].is)) = config[k]
    BY <1>2, <1>5
  <2> QED BY <2>2, <2>3
<1> QED BY <1>6, <1>7 DEF ConfigRoundTrips, config

-----------------------------------------------------------------------------
(* The words of a command.                                                 *)

\* Whatever the line, the loader and the cores of two runs: the parameters of
\* the benchmark are those of the second, and the line's own text stays.
LEMMA BootLineHolds ==
  ASSUME input \in Inputs
  PROVE  BootLineIsStable
<1> SUFFICES ASSUME input.of = "boot"
             PROVE  LET new == UpdateBootLine(input.loader,
                                 UpdateBootLine(input.loader, input.line, {1}), {2})
                    IN IF input.loader = "bare" THEN new = input.line
                       ELSE IsRewrite(new, input.loader, input.line, {2})
  BY DEF BootLineIsStable
<1> DEFINE W == [key : BenchKeys \cup {"root", "quiet"}, is : {{}, {1}, {2}}, glued : BOOLEAN]
<1>1. input \in BootInputs
  <2>1. \A i \in RangeInputs : i.of = "range"
    BY DEF RangeInputs
  <2>2. \A i \in CoreInputs : i.of = "cores"
    BY DEF CoreInputs
  <2>3. \A i \in ConfigInputs : i.of = "config"
    BY DEF ConfigInputs
  <2> QED BY <2>1, <2>2, <2>3, SplitsAreSplits DEF Inputs
<1>2. input.line \in BoundedSeq(Pieces, 3)
  BY <1>1 DEF BootInputs
<1>3. Pieces \subseteq W
  BY DEF Pieces, BenchKeys, Valued
<1>4. PICK n \in 0..3 : input.line \in [1..n -> Pieces]
  BY <1>2 DEF BoundedSeq, SeqOf
<1>5. input.line \in Seq(W)
  <2> HIDE DEF W
  <2> QED BY <1>3, <1>4
<1>6. /\ Quiet \in Seq(W) /\ BootParams({1}) \in Seq(W) /\ BootParams({2}) \in Seq(W)
  BY DEF Quiet, BootParams, Word, BenchKeys, Valued
<1> HIDE DEF W
<1> DEFINE new == UpdateBootLine(input.loader,
                    UpdateBootLine(input.loader, input.line, {1}), {2})
<1>7. new = UpdateBootLine(input.loader, UpdateBootLine(input.loader, input.line, {1}), {2})
  OBVIOUS
<1> HIDE DEF new
<1>8. CASE input.loader = "bare"
  BY <1>7, <1>8 DEF UpdateBootLine, new
<1>9. CASE input.loader # "bare"
  <2>1. IsRewrite(new, input.loader, input.line, {2})
    BY ONLY <1>9, <1>5, <1>6, <1>7, RewrittenLine
  <2> QED BY <2>1, <1>9 DEF new
<1> QED BY <1>8, <1>9 DEF new

\* The state of the split with these words behind it, this word begun, and the
\* quote that is open, a blank for none.
At(tokens, current, quote) ==
  [tokens |-> tokens, current |-> current, single |-> quote = Single, double |-> quote = Double]

\* What one character makes of it: the first quote opens, the same one closes,
\* what is between belongs to the word, and a blank outside ends it.
LEMMA OneCharacter ==
  ASSUME NEW tokens, NEW current, NEW p \in {Single, Double}
  PROVE  /\ SplitStep(At(tokens, current, Space), p) = At(tokens, current, p)
         /\ SplitStep(At(tokens, current, p), p) = At(tokens, current, Space)
         /\ \A ch : ch # p =>
              SplitStep(At(tokens, current, p), ch) = At(tokens, Append(current, ch), p)
         /\ current # <<>> =>
              SplitStep(At(tokens, current, Space), Space)
                = At(Append(tokens, current), <<>>, Space)
<1>0. Single # Double /\ Single # Space /\ Double # Space
  BY DEF Single, Double, Space
<1>1. SplitStep(At(tokens, current, Space), p) = At(tokens, current, p)
  BY <1>0 DEF SplitStep, Quotes, Toggle, At
<1>2. SplitStep(At(tokens, current, p), p) = At(tokens, current, Space)
  BY <1>0 DEF SplitStep, Quotes, Toggle, At
<1>3. ASSUME NEW ch, ch # p
      PROVE  SplitStep(At(tokens, current, p), ch) = At(tokens, Append(current, ch), p)
  BY <1>0, <1>3 DEF SplitStep, Quotes, At
<1>4. ASSUME current # <<>>
      PROVE  SplitStep(At(tokens, current, Space), Space)
               = At(Append(tokens, current), <<>>, Space)
  BY <1>0, <1>4 DEF SplitStep, Quotes, EndWord, At
<1> QED BY <1>1, <1>2, <1>3, <1>4

\* The states of the split, one after another.
Splits(f, command) ==
  f = [n \in 0..Len(command) |->
         IF n = 0 THEN [tokens |-> <<>>, current |-> <<>>, single |-> FALSE, double |-> FALSE]
         ELSE SplitStep(f[n - 1], command[n])]

\* Every command has them.
LEMMA SplitExists ==
  ASSUME NEW C, NEW command \in Seq(C)
  PROVE  \E f : Splits(f, command)
<1> DEFINE T == [tokens : Seq(Seq(C)), current : Seq(C), single : BOOLEAN, double : BOOLEAN]
<1> DEFINE N == Len(command)
<1> DEFINE next == [t \in T \X (1..N) |-> SplitStep(t[1], command[t[2]])]
<1> DEFINE none == [tokens |-> <<>>, current |-> <<>>, single |-> FALSE, double |-> FALSE]
<1>1. N \in Nat /\ \A k \in 1..N : command[k] \in C
  OBVIOUS
<1>2. none \in T
  OBVIOUS
<1>3. ASSUME NEW s \in T, NEW ch \in C PROVE SplitStep(s, ch) \in T
  <2>1. CASE Quotes(s, ch)
    <3>1. SplitStep(s, ch) = Toggle(s, ch)
      BY <2>1 DEF SplitStep
    <3>2. CASE ch = Single
      BY <3>1, <3>2 DEF Toggle
    <3>3. CASE ch # Single
      BY <3>1, <3>3 DEF Toggle
    <3> QED BY <3>2, <3>3
  <2>2. CASE ~Quotes(s, ch) /\ ch = Space /\ ~s.single /\ ~s.double
    <3>1. SplitStep(s, ch) = EndWord(s)
      BY <2>2 DEF SplitStep
    <3>2. s.current \in Seq(C) /\ s.tokens \in Seq(Seq(C)) /\ <<>> \in Seq(C)
      OBVIOUS
    <3>3. Append(s.tokens, s.current) \in Seq(Seq(C))
      BY <3>2
    <3> QED BY <3>1, <3>2, <3>3 DEF EndWord
  <2>3. CASE ~Quotes(s, ch) /\ ~(ch = Space /\ ~s.single /\ ~s.double)
    <3>1. SplitStep(s, ch) = [s EXCEPT !.current = Append(@, ch)]
      BY <2>3 DEF SplitStep
    <3>2. Append(s.current, ch) \in Seq(C)
      OBVIOUS
    <3> QED BY <3>1, <3>2
  <2> QED BY <2>1, <2>2, <2>3
<1> HIDE DEF N, T, none
<1>4. next \in [T \X (1..N) -> T]
  <2>1. ASSUME NEW t \in T \X (1..N) PROVE SplitStep(t[1], command[t[2]]) \in T
    <3>1. t[1] \in T /\ command[t[2]] \in C
      BY <1>1
    <3> QED BY <3>1, <1>3
  <2> QED BY <2>1
<1>5. ASSUME NEW s \in T, NEW n \in 1..N PROVE next[<<s, n>>] = SplitStep(s, command[n])
  OBVIOUS
<1> HIDE DEF next
<1>6. PICK f : Grows(f, T, none, N, next)
  BY <1>1, <1>2, <1>4, StepByStep
<1>7. ASSUME NEW n \in 0..N, n # 0
      PROVE  next[<<f[n - 1], n>>] = SplitStep(f[n - 1], command[n])
  <2>1. n \in 1..N /\ f[n - 1] \in T
    BY <1>1, <1>6, <1>7 DEF Grows
  <2> QED BY <2>1, <1>5
<1>8. [n \in 0..N |-> IF n = 0 THEN none ELSE next[<<f[n - 1], n>>]] =
      [n \in 0..N |-> IF n = 0 THEN none ELSE SplitStep(f[n - 1], command[n])]
  BY <1>7
<1>9. f = [n \in 0..N |-> IF n = 0 THEN none ELSE SplitStep(f[n - 1], command[n])]
  BY <1>6, <1>8 DEF Grows
<1> QED BY <1>9 DEF Splits, N, none

\* What the split makes of a command: the words of its last state, which has
\* come from the first one character at a time.
LEMMA SplitByStates ==
  ASSUME NEW C, NEW command \in Seq(C)
  PROVE  \E f : /\ SplitCommand(command) = EndWord(f[Len(command)]).tokens
                /\ f[0] = At(<<>>, <<>>, Space)
                /\ \A n \in 1..Len(command) : f[n] = SplitStep(f[n - 1], command[n])
<1> DEFINE state == CHOOSE f : Splits(f, command)
<1> DEFINE none == [tokens |-> <<>>, current |-> <<>>, single |-> FALSE, double |-> FALSE]
<1>1. Splits(state, command)
  BY SplitExists
<1>2. SplitCommand(command) = EndWord(state[Len(command)]).tokens
  BY DEF SplitCommand, Splits
<1> HIDE DEF state
<1>3. Len(command) \in Nat
  OBVIOUS
<1>4. \A n \in 0..Len(command) :
        state[n] = IF n = 0 THEN none ELSE SplitStep(state[n - 1], command[n])
  <2> DEFINE e(h) == [n \in 0..Len(command) |->
                        IF n = 0 THEN none ELSE SplitStep(h[n - 1], command[n])]
  <2>1. state = e(state)
    BY <1>1 DEF Splits
  <2>2. \A n \in 0..Len(command) :
          e(state)[n] = IF n = 0 THEN none ELSE SplitStep(state[n - 1], command[n])
    OBVIOUS
  <2> HIDE DEF e
  <2> QED BY <2>1, <2>2
<1>5. none = At(<<>>, <<>>, Space)
  BY DEF At, Space, Single, Double
<1> HIDE DEF none
<1>6. state[0] = At(<<>>, <<>>, Space)
  BY <1>3, <1>4, <1>5
<1>7. \A n \in 1..Len(command) : state[n] = SplitStep(state[n - 1], command[n])
  BY <1>3, <1>4
<1> QED BY <1>2, <1>6, <1>7

\* A word that has no such quote in it, and states that go through it.
Free(v, p) == \A k \in 1..Len(v) : v[k] # p
Through(f, i, v) == \A k \in 1..Len(v) : f[i + k] = SplitStep(f[i + k - 1], v[k])

\* Between two quotes of a kind the characters gather in one word.
LEMMA WithinQuotes ==
  ASSUME NEW C, NEW v \in Seq(C), NEW p \in {Single, Double}, NEW tokens,
         Free(v, p), NEW f, NEW i \in Nat, f[i] = At(tokens, <<>>, p), Through(f, i, v)
  PROVE  f[i + Len(v)] = At(tokens, v, p)
<1> DEFINE n == Len(v)
<1> DEFINE Begun(k) == [j \in 1..k |-> v[j]]
<1> DEFINE S == {k \in 0..n : f[i + k] = At(tokens, Begun(k), p)}
<1>1. n \in Nat /\ Begun(n) = v /\ \A k \in 1..n : v[k] \in C
  OBVIOUS
<1>2. Begun(0) = <<>>
  OBVIOUS
<1>3. ASSUME NEW k \in 1..n PROVE Append(Begun(k - 1), v[k]) = Begun(k)
  <2>1. Begun(k - 1) \in Seq(C) /\ Len(Begun(k - 1)) = k - 1 /\ v[k] \in C
    <3> DEFINE j == k - 1
    <3>1. j \in Nat /\ j <= n /\ k \in 1..n
      BY <1>1
    <3> HIDE DEF n, j
    <3>2. Begun(j) \in [1..j -> C]
      BY <3>1, <1>1
    <3> HIDE DEF Begun
    <3>3. Begun(j) \in Seq(C) /\ Len(Begun(j)) = j
      BY <3>1, <3>2, LenProperties
    <3> QED BY <3>1, <3>3, <1>1 DEF j
  <2>2. Append(Begun(k - 1), v[k]) =
          [j \in 1..k |-> IF j = k THEN v[k] ELSE Begun(k - 1)[j]]
    <3> HIDE DEF Begun, n
    <3>1. Append(Begun(k - 1), v[k]) =
            [j \in 1..Len(Begun(k - 1)) + 1 |->
               IF j <= Len(Begun(k - 1)) THEN Begun(k - 1)[j] ELSE v[k]]
      BY <2>1, <1>1
    <3> QED BY <3>1, <2>1, <1>1
  <2>3. \A j \in 1..k : (IF j = k THEN v[k] ELSE Begun(k - 1)[j]) = v[j]
    BY <1>1
  <2> QED BY <2>2, <2>3
<1> HIDE DEF Begun, n
<1>4. 0 \in S
  BY <1>1, <1>2
<1>5. ASSUME NEW k \in 0..n, k # 0, k - 1 \in S PROVE k \in S
  <2>1. k \in 1..n /\ f[i + (k - 1)] = At(tokens, Begun(k - 1), p)
    BY <1>1, <1>5
  <2>2. i + (k - 1) = i + k - 1
    BY <1>1
  <2>3. f[i + k] = SplitStep(f[i + k - 1], v[k]) /\ v[k] # p
    BY <2>1 DEF n, Free, Through
  <2>4. f[i + k] = At(tokens, Append(Begun(k - 1), v[k]), p)
    BY <2>1, <2>2, <2>3, OneCharacter
  <2>5. f[i + k] = At(tokens, Begun(k), p)
    BY <2>1, <2>4, <1>3
  <2> QED BY <2>5
<1>6. 0..n \subseteq S
  <2> HIDE DEF S
  <2> QED BY ONLY <1>4, <1>5, <1>1, UpTheLine
<1>7. n \in S
  <2> HIDE DEF S
  <2> QED BY <1>6, <1>1
<1> QED BY <1>7, <1>1 DEF n

\* Two words, each in quotes, with a blank between them.
Quoting(p, v, q, w) == <<p>> \o v \o <<p, Space, q>> \o w \o <<q>>

\* The characters of that, place by place.
Placed(command, C, p, v, q, w, n, m) ==
  /\ command \in Seq(C) /\ Len(command) = n + m + 5
  /\ command[1] = p /\ command[n + 2] = p /\ command[n + 3] = Space
  /\ command[n + 4] = q /\ command[n + m + 5] = q
  /\ \A k \in 1..n : command[1 + k] = v[k]
  /\ \A k \in 1..m : command[n + 4 + k] = w[k]

\* Quoting puts them there.
LEMMA QuotingFacts ==
  ASSUME NEW C, {Space, Single, Double} \subseteq C,
         NEW p \in {Single, Double}, NEW q \in {Single, Double},
         NEW v \in Seq(C), NEW w \in Seq(C),
         NEW command, command = Quoting(p, v, q, w),
         NEW n, n = Len(v), NEW m, m = Len(w)
  PROVE  Placed(command, C, p, v, q, w, n, m)
<1> DEFINE a == <<p>>
<1> DEFINE b == <<p, Space, q>>
<1> DEFINE d == <<q>>
<1> DEFINE av == a \o v
<1> DEFINE avb == av \o b
<1> DEFINE avbw == avb \o w
<1> DEFINE all == avbw \o d
<1>0. /\ a \in Seq(C) /\ Len(a) = 1 /\ a[1] = p
      /\ b \in Seq(C) /\ Len(b) = 3 /\ b[1] = p /\ b[2] = Space /\ b[3] = q
      /\ d \in Seq(C) /\ Len(d) = 1 /\ d[1] = q
      /\ n \in Nat /\ m \in Nat
  OBVIOUS
<1>1. command = all
  BY DEF Quoting
<1> HIDE DEF a, b, d
<1>a. a \in Seq(C) /\ b \in Seq(C) /\ d \in Seq(C)
  BY <1>0
<1>2. /\ av \in Seq(C) /\ Len(av) = 1 + n
      /\ \A k \in 1..1 + n : av[k] = IF k <= 1 THEN a[k] ELSE v[k - 1]
  <2>1. /\ av \in Seq(C) /\ Len(av) = Len(a) + Len(v)
        /\ \A k \in 1..Len(a) + Len(v) :
             av[k] = IF k <= Len(a) THEN a[k] ELSE v[k - Len(a)]
    BY ONLY <1>a, v \in Seq(C), ConcatProperties
  <2> HIDE DEF av
  <2> QED BY <2>1, <1>0
<1> HIDE DEF av
<1>3. /\ avb \in Seq(C) /\ Len(avb) = n + 4
      /\ \A k \in 1..Len(av) + Len(b) :
           avb[k] = IF k <= Len(av) THEN av[k] ELSE b[k - Len(av)]
  <2>1. /\ avb \in Seq(C) /\ Len(avb) = Len(av) + Len(b)
        /\ \A k \in 1..Len(av) + Len(b) :
             avb[k] = IF k <= Len(av) THEN av[k] ELSE b[k - Len(av)]
    <3>1. av \in Seq(C)
      BY <1>2
    <3> QED BY ONLY <1>a, <3>1, ConcatProperties
  <2> HIDE DEF avb
  <2> QED BY <2>1, <1>0, <1>2
<1> HIDE DEF avb
<1>4. /\ avbw \in Seq(C) /\ Len(avbw) = n + 4 + m
      /\ \A k \in 1..Len(avb) + Len(w) :
           avbw[k] = IF k <= Len(avb) THEN avb[k] ELSE w[k - Len(avb)]
  <2>1. /\ avbw \in Seq(C) /\ Len(avbw) = Len(avb) + Len(w)
        /\ \A k \in 1..Len(avb) + Len(w) :
             avbw[k] = IF k <= Len(avb) THEN avb[k] ELSE w[k - Len(avb)]
    <3>1. avb \in Seq(C)
      BY <1>3
    <3> QED BY ONLY <3>1, w \in Seq(C), ConcatProperties
  <2> HIDE DEF avbw
  <2> QED BY <2>1, <1>0, <1>3
<1> HIDE DEF avbw
<1>5. /\ all \in Seq(C) /\ Len(all) = n + m + 5
      /\ \A k \in 1..Len(avbw) + Len(d) :
           all[k] = IF k <= Len(avbw) THEN avbw[k] ELSE d[k - Len(avbw)]
  <2>1. /\ all \in Seq(C) /\ Len(all) = Len(avbw) + Len(d)
        /\ \A k \in 1..Len(avbw) + Len(d) :
             all[k] = IF k <= Len(avbw) THEN avbw[k] ELSE d[k - Len(avbw)]
    <3>1. avbw \in Seq(C)
      BY <1>4
    <3> QED BY ONLY <1>a, <3>1, ConcatProperties
  <2> HIDE DEF all
  <2> QED BY <2>1, <1>0, <1>4
<1> HIDE DEF all
<1>6. ASSUME NEW k \in 1..n + 4 + m PROVE all[k] = avbw[k]
  <2>1. k \in 1..Len(avbw) + Len(d) /\ k <= Len(avbw)
    BY <1>0, <1>4
  <2> QED BY <2>1, <1>5
<1>7. ASSUME NEW k \in 1..n + 4 PROVE all[k] = avb[k]
  <2>1. k \in 1..n + 4 + m /\ k \in 1..Len(avb) + Len(w) /\ k <= Len(avb)
    BY <1>0, <1>3
  <2> QED BY <2>1, <1>4, <1>6
<1>8. ASSUME NEW k \in 1..1 + n PROVE all[k] = av[k]
  <2>1. k \in 1..n + 4 /\ k \in 1..Len(av) + Len(b) /\ k <= Len(av)
    BY <1>0, <1>2
  <2> QED BY <2>1, <1>3, <1>7
<1>9. all[1] = p /\ \A k \in 1..n : all[1 + k] = v[k]
  <2>1. all[1] = p
    <3>1. 1 \in 1..1 + n /\ 1 <= 1
      BY <1>0
    <3> QED BY <3>1, <1>0, <1>2, <1>8
  <2>2. ASSUME NEW k \in 1..n PROVE all[1 + k] = v[k]
    <3> DEFINE j == 1 + k
    <3>1. j \in 1..1 + n /\ ~(j <= 1) /\ j - 1 = k
      BY <1>0
    <3> HIDE DEF j
    <3>2. all[j] = v[k]
      BY <3>1, <1>2, <1>8
    <3> QED BY <3>2 DEF j
  <2> QED BY <2>1, <2>2
<1>10. all[n + 2] = p /\ all[n + 3] = Space /\ all[n + 4] = q
  <2>1. ASSUME NEW k \in 1..3 PROVE all[n + 1 + k] = b[k]
    <3> DEFINE j == n + 1 + k
    <3>1. j \in 1..n + 4 /\ j \in 1..Len(av) + Len(b) /\ ~(j <= Len(av)) /\ j - Len(av) = k
      BY <1>0, <1>2
    <3> HIDE DEF j
    <3>2. all[j] = b[k]
      BY <3>1, <1>3, <1>7
    <3> QED BY <3>2 DEF j
  <2>2. n + 1 + 1 = n + 2 /\ n + 1 + 2 = n + 3 /\ n + 1 + 3 = n + 4
    BY <1>0
  <2>3. all[n + 1 + 1] = b[1] /\ all[n + 1 + 2] = b[2] /\ all[n + 1 + 3] = b[3]
    BY <2>1
  <2> QED BY <2>2, <2>3, <1>0
<1>11. ASSUME NEW k \in 1..m PROVE all[n + 4 + k] = w[k]
  <2> DEFINE j == n + 4 + k
  <2>1. /\ j \in 1..n + 4 + m /\ j \in 1..Len(avb) + Len(w) /\ ~(j <= Len(avb))
        /\ j - Len(avb) = k
    BY <1>0, <1>3
  <2> HIDE DEF j
  <2>2. all[j] = w[k]
    BY <2>1, <1>4, <1>6
  <2> QED BY <2>2 DEF j
<1>12. all[n + m + 5] = q
  <2> DEFINE j == n + m + 5
  <2>1. j \in 1..Len(avbw) + Len(d) /\ ~(j <= Len(avbw)) /\ j - Len(avbw) = 1
    BY <1>0, <1>4
  <2> HIDE DEF j
  <2>2. all[j] = d[1]
    BY <2>1, <1>5
  <2> QED BY <2>2, <1>0 DEF j
<1> QED BY <1>1, <1>5, <1>9, <1>10, <1>11, <1>12 DEF Placed

\* A sequence of one, and one more.
LEMMA TwoOfThem ==
  ASSUME NEW S, NEW x \in S, NEW y \in S
  PROVE  Append(<<x>>, y) = <<x, y>>
<1> DEFINE one == <<x>>
<1> DEFINE two == <<x, y>>
<1>1. one \in Seq(S) /\ Len(one) = 1 /\ one[1] = x
  OBVIOUS
<1>2. two \in Seq(S) /\ Len(two) = 2 /\ two[1] = x /\ two[2] = y
  OBVIOUS
<1> HIDE DEF one, two
<1> DEFINE both == Append(one, y)
<1>3. both \in Seq(S) /\ Len(both) = 2 /\ both[1] = x /\ both[2] = y
  <2>1. /\ both \in Seq(S) /\ Len(both) = Len(one) + 1
        /\ \A i \in 1..Len(one) : both[i] = one[i]
        /\ both[Len(one) + 1] = y
    <3>1. one \in Seq(S)
      BY <1>1
    <3>2. /\ Append(one, y) \in Seq(S) /\ Len(Append(one, y)) = Len(one) + 1
          /\ \A i \in 1..Len(one) : Append(one, y)[i] = one[i]
          /\ Append(one, y)[Len(one) + 1] = y
      BY ONLY <3>1, y \in S, AppendProperties
    <3> QED BY ONLY <3>2
  <2> HIDE DEF both
  <2>2. 1 \in 1..Len(one) /\ Len(one) + 1 = 2
    BY <1>1
  <2> QED BY <2>1, <2>2, <1>1
<1> HIDE DEF both
<1>4. both = two
  BY <1>2, <1>3, SeqEqual
<1> QED BY <1>4 DEF both, one, two

\* However long the two words, and whatever they hold beside the quote around
\* them: the command that has them in quotes is split into these two.
THEOREM QuotedComeBack ==
  ASSUME NEW C, {Space, Single, Double} \subseteq C,
         NEW p \in {Single, Double}, NEW q \in {Single, Double},
         NEW v \in Seq(C), NEW w \in Seq(C), v # <<>>, w # <<>>,
         Free(v, p), Free(w, q)
  PROVE  SplitCommand(Quoting(p, v, q, w)) = <<v, w>>
<1> DEFINE command == Quoting(p, v, q, w)
<1> DEFINE n == Len(v)
<1> DEFINE m == Len(w)
<1>0. n \in Nat /\ m \in Nat
  OBVIOUS
<1>1. /\ command \in Seq(C) /\ Len(command) = n + m + 5
      /\ command[1] = p /\ command[n + 2] = p /\ command[n + 3] = Space
      /\ command[n + 4] = q /\ command[n + m + 5] = q
      /\ \A k \in 1..n : command[1 + k] = v[k]
      /\ \A k \in 1..m : command[n + 4 + k] = w[k]
  <2> DEFINE c == command
  <2>1. c = Quoting(p, v, q, w) /\ n = Len(v) /\ m = Len(w)
    OBVIOUS
  <2> HIDE DEF n, m, c
  <2>2. Placed(c, C, p, v, q, w, n, m)
    BY ONLY <2>1, {Space, Single, Double} \subseteq C, p \in {Single, Double},
            q \in {Single, Double}, v \in Seq(C), w \in Seq(C), QuotingFacts
  <2> QED BY <2>2 DEF Placed, c
<1>2. n = Len(v) /\ m = Len(w)
  OBVIOUS
<1> HIDE DEF command, n, m
<1>3. PICK f : /\ SplitCommand(command) = EndWord(f[Len(command)]).tokens
               /\ f[0] = At(<<>>, <<>>, Space)
               /\ \A i \in 1..Len(command) : f[i] = SplitStep(f[i - 1], command[i])
  BY <1>1, SplitByStates
<1>4. ASSUME NEW i \in 1..n + m + 5, NEW j, j = i - 1 PROVE f[i] = SplitStep(f[j], command[i])
  BY <1>1, <1>3, <1>4
<1>5. f[1] = At(<<>>, <<>>, p)
  <2>1. 1 \in 1..n + m + 5 /\ 1 - 1 = 0
    BY <1>0
  <2> QED BY <2>1, <1>1, <1>3, <1>4, OneCharacter
<1>6. f[1 + n] = At(<<>>, v, p)
  <2>1. ASSUME NEW k \in 1..n PROVE f[1 + k] = SplitStep(f[1 + k - 1], v[k])
    <3>1. 1 + k \in 1..n + m + 5
      BY <1>0
    <3> QED BY <3>1, <1>1, <1>4
  <2>2. \A k \in 1..Len(v) : f[1 + k] = SplitStep(f[1 + k - 1], v[k])
    BY <2>1, <1>2
  <2>3. f[1 + Len(v)] = At(<<>>, v, p)
    <3>1. Through(f, 1, v)
      BY <2>2 DEF Through
    <3>2. 1 \in Nat
      OBVIOUS
    <3> QED BY ONLY <1>5, <3>1, <3>2, v \in Seq(C), p \in {Single, Double}, Free(v, p),
                    WithinQuotes
  <2> QED BY <2>3, <1>2
<1>7. f[n + 2] = At(<<>>, v, Space)
  <2>1. n + 2 \in 1..n + m + 5 /\ 1 + n = n + 2 - 1
    BY <1>0
  <2>2. SplitStep(At(<<>>, v, p), p) = At(<<>>, v, Space)
    BY OneCharacter
  <2>3. f[n + 2] = SplitStep(f[1 + n], command[n + 2])
    BY ONLY <1>0, <2>1, <1>4
  <2> QED BY ONLY <2>2, <2>3, <1>1, <1>6
<1>8. f[n + 3] = At(<<v>>, <<>>, Space)
  <2>1. n + 3 \in 1..n + m + 5 /\ n + 2 = n + 3 - 1 /\ Append(<<>>, v) = <<v>>
    BY <1>0
  <2>2. SplitStep(At(<<>>, v, Space), Space) = At(Append(<<>>, v), <<>>, Space)
    BY OneCharacter
  <2>3. f[n + 3] = SplitStep(f[n + 2], command[n + 3])
    BY ONLY <1>0, <2>1, <1>4
  <2> QED BY ONLY <2>2, <2>3, <1>1, <1>7
<1>9. f[n + 4] = At(<<v>>, <<>>, q)
  <2>1. n + 4 \in 1..n + m + 5 /\ n + 3 = n + 4 - 1
    BY <1>0
  <2>2. SplitStep(At(<<v>>, <<>>, Space), q) = At(<<v>>, <<>>, q)
    BY OneCharacter
  <2>3. f[n + 4] = SplitStep(f[n + 3], command[n + 4])
    BY ONLY <1>0, <2>1, <1>4
  <2> QED BY ONLY <2>2, <2>3, <1>1, <1>8
<1>10. f[n + 4 + m] = At(<<v>>, w, q)
  <2>1. ASSUME NEW k \in 1..m PROVE f[n + 4 + k] = SplitStep(f[n + 4 + k - 1], w[k])
    <3>1. n + 4 + k \in 1..n + m + 5
      BY <1>0
    <3>2. command[n + 4 + k] = w[k]
      BY <1>1
    <3> DEFINE i == n + 4 + k
    <3> DEFINE j == n + 4 + k - 1
    <3>a. i \in 1..n + m + 5 /\ j = i - 1
      BY <1>0
    <3> HIDE DEF i, j
    <3>b. f[i] = SplitStep(f[j], command[i])
      BY ONLY <3>a, <1>4
    <3>3. f[n + 4 + k] = SplitStep(f[n + 4 + k - 1], command[n + 4 + k])
      BY <3>b DEF i, j
    <3> QED BY ONLY <3>2, <3>3
  <2>2. \A k \in 1..Len(w) : f[n + 4 + k] = SplitStep(f[n + 4 + k - 1], w[k])
    BY <2>1, <1>2
  <2>3. n + 4 \in Nat
    BY <1>0
  <2>4. f[n + 4 + Len(w)] = At(<<v>>, w, q)
    <3> DEFINE i == n + 4
    <3>1. Through(f, i, w) /\ i \in Nat /\ f[i] = At(<<v>>, <<>>, q)
      BY <2>2, <2>3, <1>9 DEF Through
    <3> HIDE DEF i
    <3>2. f[i + Len(w)] = At(<<v>>, w, q)
      BY ONLY <3>1, w \in Seq(C), q \in {Single, Double}, Free(w, q), WithinQuotes
    <3> QED BY <3>2 DEF i
  <2> QED BY <2>4, <1>2
<1>11. f[n + m + 5] = At(<<v>>, w, Space)
  <2>1. n + m + 5 \in 1..n + m + 5 /\ n + 4 + m = n + m + 5 - 1
    BY <1>0
  <2>2. SplitStep(At(<<v>>, w, q), q) = At(<<v>>, w, Space)
    BY OneCharacter
  <2>3. f[n + m + 5] = SplitStep(f[n + 4 + m], command[n + m + 5])
    BY ONLY <1>0, <2>1, <1>4
  <2> QED BY ONLY <2>2, <2>3, <1>1, <1>10
<1>12. EndWord(At(<<v>>, w, Space)).tokens = <<v, w>>
  <2>1. Append(<<v>>, w) = <<v, w>>
    BY TwoOfThem
  <2> QED BY <2>1 DEF EndWord, At
<1> QED BY <1>1, <1>3, <1>11, <1>12 DEF command

\* Every pair of words that can be quoted comes back from the split.
LEMMA SplitHolds ==
  ASSUME input \in Inputs
  PROVE  SplitsAsQuoted
<1> SUFFICES ASSUME input.of = "split" PROVE SplitsAsQuoted
  BY DEF SplitsAsQuoted
<1> DEFINE Quoted(p, q) == [of : {"split"}, p : {p}, v : Quotable(p), q : {q}, w : Quotable(q)]
<1> DEFINE C == {"a", Space, Single, Double}
<1>1. input \in SplitInputs
  <2>1. \A i \in RangeInputs : i.of = "range"
    BY DEF RangeInputs
  <2>2. \A i \in CoreInputs : i.of = "cores"
    BY DEF CoreInputs
  <2>3. \A i \in BootInputs : i.of = "boot"
    BY DEF BootInputs
  <2>4. \A i \in ConfigInputs : i.of = "config"
    BY DEF ConfigInputs
  <2> QED BY <2>1, <2>2, <2>3, <2>4 DEF Inputs
<1>2. SplitInputs = UNION {Quoted(p, q) : p, q \in {Single, Double}}
  BY DEF SplitInputs
<1>3. PICK p \in {Single, Double}, q \in {Single, Double} : input \in Quoted(p, q)
  <2> HIDE DEF Quoted
  <2> QED BY <1>1, <1>2
<1>4. /\ input.p = p /\ input.q = q
      /\ input.v \in Quotable(p) /\ input.w \in Quotable(q)
  BY <1>3
<1>5. ASSUME NEW quote, NEW word \in Quotable(quote)
      PROVE  word \in Seq(C) /\ word # <<>> /\ Free(word, quote)
  <2>1. word \in BoundedSeq(C \ {quote}, 2) /\ word # <<>>
    BY DEF Quotable
  <2>2. PICK n \in 0..2 : word \in [1..n -> C \ {quote}]
    BY <2>1 DEF BoundedSeq, SeqOf
  <2> HIDE DEF C
  <2>3. word \in Seq(C) /\ Len(word) = n
    BY <2>2
  <2>4. \A k \in 1..n : word[k] # quote
    BY <2>2
  <2> QED BY <2>1, <2>3, <2>4 DEF Free
<1>6. {Space, Single, Double} \subseteq C
  OBVIOUS
<1> HIDE DEF C
<1>7. /\ input.v \in Seq(C) /\ input.v # <<>> /\ Free(input.v, p)
      /\ input.w \in Seq(C) /\ input.w # <<>> /\ Free(input.w, q)
  BY <1>4, <1>5
<1>8. SplitCommand(Quoting(p, input.v, q, input.w)) = <<input.v, input.w>>
  BY ONLY <1>6, <1>7, p \in {Single, Double}, q \in {Single, Double}, QuotedComeBack
<1> QED BY <1>4, <1>8 DEF SplitsAsQuoted, Quoting

\* What is written comes back, for every input: the boot parameters and a
\* line's own words, the quoted arguments of a command, and the settings.
THEOREM TextComesBack == input \in Inputs => TextIsKept
<1> SUFFICES ASSUME input \in Inputs PROVE TextIsKept
  OBVIOUS
<1> QED BY BootLineHolds, SplitHolds, ConfigComesBack DEF TextIsKept

-----------------------------------------------------------------------------
(* The ranges of cores.                                                    *)

\* How often a core is in a list.
Times(cores, c) == Cardinality({i \in DOMAIN cores : cores[i] = c})

\* How many are no higher.
UpTo(cores, c) == Cardinality({j \in DOMAIN cores : cores[j] <= c})

\* How many are no higher grows with the core, from none of a list up to all.
LEMMA UpToGrows ==
  ASSUME NEW N \in Nat, NEW cores \in [1..N -> CoreIds]
  PROVE  /\ \A c \in CoreIds : UpTo(cores, c) \in 0..N
         /\ \A c, d \in CoreIds : c <= d => UpTo(cores, c) <= UpTo(cores, d)
         /\ UpTo(cores, MaxCore) = N
<1>0. MaxCore \in Nat /\ CoreIds \subseteq Nat /\ MaxCore \in CoreIds
  BY HostAssumption DEF CoreIds
<1> DEFINE Low(c) == {j \in DOMAIN cores : cores[j] <= c}
<1>1. IsFiniteSet(1..N) /\ Cardinality(1..N) = N
  <2>1. IsFiniteSet(1..N) /\ Cardinality(1..N) = IF 1 > N THEN 0 ELSE N - 1 + 1
    BY FS_Interval
  <2> QED BY <2>1
<1>2. \A c : Low(c) \subseteq 1..N
  OBVIOUS
<1>3. \A c : UpTo(cores, c) = Cardinality(Low(c))
  BY DEF UpTo
<1>4. \A c, d \in CoreIds : c <= d => Low(c) \subseteq Low(d)
  <2>1. \A j \in 1..N : cores[j] \in Nat
    BY <1>0
  <2> QED BY <1>0, <2>1
<1>5. Low(MaxCore) = 1..N
  BY <1>0 DEF CoreIds
<1> HIDE DEF Low
<1>6. ASSUME NEW c PROVE /\ IsFiniteSet(Low(c)) /\ Cardinality(Low(c)) \in Nat
                         /\ Cardinality(Low(c)) <= N
  <2>1. /\ IsFiniteSet(Low(c)) /\ Cardinality(Low(c)) <= Cardinality(1..N)
    BY ONLY <1>1, <1>2, FS_Subset
  <2>2. Cardinality(Low(c)) \in Nat
    BY ONLY <2>1, FS_CardinalityType
  <2> QED BY <2>1, <2>2, <1>1
<1>7. ASSUME NEW c \in CoreIds, NEW d \in CoreIds, c <= d PROVE UpTo(cores, c) <= UpTo(cores, d)
  <2>1. Low(c) \subseteq Low(d) /\ IsFiniteSet(Low(d))
    BY <1>4, <1>6, <1>7
  <2>2. Cardinality(Low(c)) <= Cardinality(Low(d))
    BY ONLY <2>1, FS_Subset
  <2> QED BY <2>2, <1>3
<1>8. \A c \in CoreIds : UpTo(cores, c) \in 0..N
  BY <1>3, <1>6
<1>9. UpTo(cores, MaxCore) = N
  BY <1>1, <1>3, <1>5
<1> QED BY <1>7, <1>8, <1>9

\* In a list in order, a core is in the places after those of the lower ones.
LEMMA PlaceInOrder ==
  ASSUME NEW N \in Nat, NEW cores \in [1..N -> CoreIds], NEW i \in 1..N
  PROVE  /\ Ascending(cores)[i] \in CoreIds
         /\ \A c \in CoreIds : Ascending(cores)[i] <= c <=> i <= UpTo(cores, c)
<1>0. MaxCore \in Nat /\ CoreIds \subseteq Nat /\ MaxCore \in CoreIds
  BY HostAssumption DEF CoreIds
<1> DEFINE Enough == {c \in CoreIds : UpTo(cores, c) >= i}
<1>1. Ascending(cores)[i] = Min(Enough)
  BY DEF Ascending, UpTo
<1>2. MaxCore \in Enough /\ Enough \subseteq CoreIds
  <2>1. UpTo(cores, MaxCore) = N
    BY UpToGrows
  <2> QED BY <2>1, <1>0
<1>3. Min(Enough) \in Enough /\ \A c \in Enough : Min(Enough) <= c
  <2>1. \E x \in Enough : \A y \in Enough : x <= y
    <3> HIDE DEF Enough
    <3>1. Enough \subseteq Nat /\ Enough # {}
      BY <1>0, <1>2
    <3> QED BY ONLY <3>1, LeastMember
  <2> HIDE DEF Enough
  <2> QED BY <2>1 DEF Min
<1> DEFINE x == Min(Enough)
<1>4. x \in CoreIds /\ UpTo(cores, x) >= i
  BY <1>3
<1>5. ASSUME NEW c \in CoreIds PROVE x <= c <=> i <= UpTo(cores, c)
  <2>0. UpTo(cores, c) \in Nat /\ UpTo(cores, x) \in Nat /\ i \in Nat /\ c \in Nat /\ x \in Nat
    <3> HIDE DEF x
    <3> QED BY UpToGrows, <1>0, <1>4
  <2>1. ASSUME x <= c PROVE i <= UpTo(cores, c)
    <3>1. UpTo(cores, x) <= UpTo(cores, c)
      <4> HIDE DEF x
      <4> QED BY <1>4, <2>1, UpToGrows
    <3> HIDE DEF x
    <3> QED BY <2>0, <3>1, <1>4
  <2>2. ASSUME i <= UpTo(cores, c) PROVE x <= c
    <3>1. c \in Enough
      BY <2>0, <2>2
    <3> QED BY <3>1, <1>3
  <2> QED BY <2>1, <2>2
<1> QED BY <1>1, <1>4, <1>5

\* The list in order is in order and holds each core as often as it did.
LEMMA InOrder ==
  ASSUME NEW N \in Nat, NEW cores \in [1..N -> CoreIds]
  PROVE  /\ Ascending(cores) \in [1..N -> CoreIds]
         /\ \A i \in 1..N - 1 : Ascending(cores)[i] <= Ascending(cores)[i + 1]
         /\ \A c \in CoreIds : Times(Ascending(cores), c) = Times(cores, c)
<1>0. MaxCore \in Nat /\ CoreIds \subseteq Nat /\ CoreIds = 0..MaxCore
  BY HostAssumption DEF CoreIds
<1> DEFINE t == Ascending(cores)
<1>1. t = [i \in 1..N |-> t[i]]
  BY DEF Ascending
<1> HIDE DEF t
<1>2. \A i \in 1..N : t[i] \in CoreIds /\ \A c \in CoreIds : t[i] <= c <=> i <= UpTo(cores, c)
  BY PlaceInOrder DEF t
<1>3. t \in [1..N -> CoreIds]
  BY <1>1, <1>2
<1>4. ASSUME NEW i \in 1..N - 1 PROVE t[i] <= t[i + 1]
  <2>1. i \in 1..N /\ i + 1 \in 1..N /\ i \in Nat
    OBVIOUS
  <2>2. t[i + 1] \in CoreIds /\ t[i + 1] <= t[i + 1]
    BY <2>1, <1>2, <1>0
  <2>3. i + 1 <= UpTo(cores, t[i + 1]) /\ UpTo(cores, t[i + 1]) \in Nat
    BY <2>1, <2>2, <1>2, UpToGrows
  <2>4. i <= UpTo(cores, t[i + 1])
    BY <2>1, <2>3
  <2> QED BY <2>1, <2>2, <2>4, <1>2
<1> DEFINE Low(c) == {j \in DOMAIN cores : cores[j] <= c}
<1> DEFINE Here(c) == {j \in DOMAIN cores : cores[j] = c}
<1>5. ASSUME NEW c PROVE /\ IsFiniteSet(Low(c)) /\ IsFiniteSet(Here(c))
                         /\ Cardinality(Low(c)) \in Nat /\ Cardinality(Here(c)) \in Nat
  <2>1. IsFiniteSet(1..N)
    BY FS_Interval
  <2>2. Low(c) \subseteq 1..N /\ Here(c) \subseteq 1..N
    OBVIOUS
  <2> HIDE DEF Low, Here
  <2>3. IsFiniteSet(Low(c)) /\ IsFiniteSet(Here(c))
    BY ONLY <2>1, <2>2, FS_Subset
  <2> QED BY ONLY <2>3, FS_CardinalityType
<1>6. ASSUME NEW a \in Nat, NEW b \in Nat, a <= b PROVE Cardinality(a + 1..b) = b - a
  <2>1. Cardinality(a + 1..b) = IF a + 1 > b THEN 0 ELSE b - (a + 1) + 1
    BY FS_Interval
  <2> QED BY <2>1, <1>6
<1>a. ASSUME NEW b \in 0..N PROVE {i \in 1..N : i <= b} = 0 + 1..b
  OBVIOUS
<1>b. ASSUME NEW a \in 0..N, NEW b \in 0..N, a <= b
      PROVE  {i \in 1..N : i <= b /\ ~(i <= a)} = a + 1..b
  BY <1>b
<1>7. ASSUME NEW c \in CoreIds PROVE Times(t, c) = Times(cores, c)
  <2> DEFINE Places == {i \in 1..N : t[i] = c}
  <2>1. Times(t, c) = Cardinality(Places) /\ Times(cores, c) = Cardinality(Here(c))
    BY <1>3 DEF Times
  <2>2. \A j \in 1..N : cores[j] \in Nat /\ t[j] \in Nat
    BY <1>0, <1>3
  <2>3. UpTo(cores, c) \in 0..N /\ UpTo(cores, c) = Cardinality(Low(c)) /\ c \in Nat
    BY <1>0, UpToGrows DEF UpTo
  <2>4. CASE c = 0
    <3>1. Here(c) = Low(c)
      BY <2>2, <2>4
    <3>2. Places = {i \in 1..N : t[i] <= c}
      BY <2>2, <2>4
    <3>3. {i \in 1..N : t[i] <= c} = {i \in 1..N : i <= UpTo(cores, c)}
      BY <1>2
    <3>4. {i \in 1..N : i <= UpTo(cores, c)} = 0 + 1..UpTo(cores, c)
      BY ONLY <1>a, <2>3
    <3>5. Cardinality(0 + 1..UpTo(cores, c)) = UpTo(cores, c)
      BY <2>3, <1>6
    <3> HIDE DEF Places, Low, Here
    <3> QED BY ONLY <2>1, <2>3, <3>1, <3>2, <3>3, <3>4, <3>5
  <2>5. CASE c # 0
    <3> DEFINE d == c - 1
    <3>1. d \in CoreIds /\ d <= c /\ d \in Nat /\ \A n \in Nat : n <= d <=> n <= c /\ n # c
      BY <2>5, <1>0
    <3> HIDE DEF d
    <3>2. /\ UpTo(cores, d) \in 0..N /\ UpTo(cores, d) = Cardinality(Low(d))
          /\ UpTo(cores, d) <= UpTo(cores, c)
      <4>1. UpTo(cores, d) \in 0..N /\ UpTo(cores, d) <= UpTo(cores, c)
        BY <3>1, UpToGrows
      <4> QED BY <4>1 DEF UpTo
    <3>3. Low(c) = Low(d) \cup Here(c) /\ Low(d) \cap Here(c) = {}
      <4>1. DOMAIN cores = 1..N
        OBVIOUS
      <4>2. ASSUME NEW j \in 1..N
            PROVE  /\ cores[j] <= c <=> cores[j] <= d \/ cores[j] = c
                   /\ ~(cores[j] <= d /\ cores[j] = c)
        <5>1. cores[j] \in Nat
          BY <2>2
        <5>2. cores[j] <= d <=> cores[j] <= c /\ cores[j] # c
          BY ONLY <5>1, <3>1
        <5>3. cores[j] = c => cores[j] <= c
          BY <2>3
        <5> QED BY ONLY <5>2, <5>3
      <4> QED BY ONLY <4>1, <4>2
    <3>4. Places = {i \in 1..N : t[i] <= c /\ ~(t[i] <= d)}
      <4>1. ASSUME NEW i \in 1..N PROVE t[i] = c <=> t[i] <= c /\ ~(t[i] <= d)
        <5>1. t[i] \in Nat
          BY <2>2
        <5>2. t[i] <= d <=> t[i] <= c /\ t[i] # c
          BY ONLY <5>1, <3>1
        <5>3. t[i] = c => t[i] <= c
          BY <2>3
        <5> QED BY ONLY <5>2, <5>3
      <4> QED BY ONLY <4>1
    <3>5. {i \in 1..N : t[i] <= c /\ ~(t[i] <= d)} =
          {i \in 1..N : i <= UpTo(cores, c) /\ ~(i <= UpTo(cores, d))}
      BY <1>2, <3>1
    <3>6. {i \in 1..N : i <= UpTo(cores, c) /\ ~(i <= UpTo(cores, d))} =
          UpTo(cores, d) + 1..UpTo(cores, c)
      BY ONLY <1>b, <2>3, <3>2
    <3>7. Cardinality(UpTo(cores, d) + 1..UpTo(cores, c)) = UpTo(cores, c) - UpTo(cores, d)
      BY <2>3, <3>2, <1>6
    <3> HIDE DEF Places, Low, Here
    <3>8. Cardinality(Low(d) \cup Here(c)) =
            Cardinality(Low(d)) + Cardinality(Here(c)) - Cardinality(Low(d) \cap Here(c))
      BY ONLY <1>5, FS_Union
    <3>9. Cardinality({}) = 0
      BY FS_EmptySet
    <3>10. Cardinality(Places) = UpTo(cores, c) - UpTo(cores, d)
      BY ONLY <3>4, <3>5, <3>6, <3>7
    <3>11. Cardinality(Here(c)) = UpTo(cores, c) - UpTo(cores, d)
      <4>1. Cardinality(Low(c)) = Cardinality(Low(d)) + Cardinality(Here(c)) - 0
        BY ONLY <3>3, <3>8, <3>9
      <4> QED BY <4>1, <1>5, <2>3, <3>2
    <3> QED BY ONLY <2>1, <3>10, <3>11
  <2> QED BY <2>4, <2>5
<1> QED BY <1>3, <1>4, <1>7 DEF t

\* A part of a range string stands for each of its cores once.
LEMMA OncePerPart ==
  ASSUME NEW part \in Parts
  PROVE  /\ CoresOf(part) \in Seq(CoreIds)
         /\ \A c \in CoreIds :
              Times(CoresOf(part), c) = IF c \in part.first..part.last THEN 1 ELSE 0
<1> DEFINE n == part.last - part.first + 1
<1>0. /\ CoreIds \subseteq Nat /\ CoreIds = 0..MaxCore /\ MaxCore \in Nat
      /\ part.first \in CoreIds /\ part.last \in CoreIds /\ part.first <= part.last
  BY HostAssumption DEF CoreIds, Parts
<1>1. n \in Nat
  BY <1>0
<1>2. \A i \in 1..n : part.first + i - 1 \in CoreIds
  BY <1>0
<1>3. CoresOf(part) = [i \in 1..n |-> part.first + i - 1]
  BY DEF CoresOf
<1>4. CoresOf(part) \in [1..n -> CoreIds]
  <2> HIDE DEF n
  <2> QED BY <1>2, <1>3
<1>5. ASSUME NEW c \in CoreIds
      PROVE  Times(CoresOf(part), c) = IF c \in part.first..part.last THEN 1 ELSE 0
  <2> DEFINE Places == {i \in 1..n : part.first + i - 1 = c}
  <2>1. Times(CoresOf(part), c) = Cardinality(Places)
    BY <1>3 DEF Times
  <2>2. CASE c \in part.first..part.last
    <3>1. Places = {c - part.first + 1}
      BY <1>0, <2>2
    <3>2. Cardinality(Places) = 1
      <4> HIDE DEF Places
      <4> QED BY ONLY <3>1, FS_Singleton
    <3> QED BY <2>1, <2>2, <3>2
  <2>3. CASE c \notin part.first..part.last
    <3>1. Places = {}
      BY <1>0, <2>3
    <3>2. Cardinality(Places) = 0
      <4> HIDE DEF Places
      <4> QED BY ONLY <3>1, FS_EmptySet
    <3> QED BY <2>1, <2>3, <3>2
  <2> QED BY <2>2, <2>3
<1>6. CoresOf(part) \in Seq(CoreIds)
  <2> HIDE DEF n
  <2> QED BY <1>1, <1>4
<1> QED BY <1>5, <1>6

\* One list after another holds a core as often as the two do together.
LEMMA TimesInBoth ==
  ASSUME NEW S, NEW s \in Seq(S), NEW r \in Seq(S), NEW c
  PROVE  /\ Times(s, c) \in Nat /\ Times(r, c) \in Nat
         /\ Times(s \o r, c) = Times(s, c) + Times(r, c)
<1> DEFINE n == Len(s)
<1> DEFINE m == Len(r)
<1> DEFINE both == s \o r
<1> DEFINE A == {i \in 1..n : s[i] = c}
<1> DEFINE B == {i \in 1..m : r[i] = c}
<1> DEFINE moved == [k \in B |-> n + k]
<1> DEFINE C == {n + k : k \in B}
<1>0. n \in Nat /\ m \in Nat /\ DOMAIN s = 1..n /\ DOMAIN r = 1..m
  OBVIOUS
<1>1. /\ both \in Seq(S) /\ Len(both) = n + m
      /\ \A i \in 1..n + m : both[i] = IF i <= n THEN s[i] ELSE r[i - n]
  BY ONLY s \in Seq(S), r \in Seq(S), ConcatProperties
<1>2. /\ Times(s, c) = Cardinality(A) /\ Times(r, c) = Cardinality(B)
      /\ Times(both, c) = Cardinality({i \in 1..n + m : both[i] = c})
  <2>1. DOMAIN both = 1..n + m
    <3> HIDE DEF both, n, m
    <3> QED BY <1>1
  <2> HIDE DEF n, m, both
  <2> QED BY <1>0, <2>1 DEF Times
<1> HIDE DEF n, m, both
<1>3. {i \in 1..n + m : both[i] = c} = A \cup C
  <2>1. ASSUME NEW i \in 1..n + m, both[i] = c PROVE i \in A \cup C
    <3>1. CASE i <= n
      <4>1. i \in 1..n /\ both[i] = s[i]
        BY <3>1, <1>0, <1>1
      <4> QED BY <4>1, <2>1
    <3>2. CASE ~(i <= n)
      <4> DEFINE k == i - n
      <4>1. k \in 1..m /\ i = n + k /\ both[i] = r[k]
        BY <3>2, <1>0, <1>1
      <4> HIDE DEF k
      <4>2. k \in B
        BY <4>1, <2>1
      <4> QED BY <4>1, <4>2
    <3> QED BY <3>1, <3>2
  <2>2. ASSUME NEW i \in A PROVE i \in 1..n + m /\ both[i] = c
    <3>1. i \in 1..n /\ i \in 1..n + m /\ i <= n
      BY <1>0
    <3> QED BY <3>1, <1>1
  <2>3. ASSUME NEW k \in B PROVE n + k \in 1..n + m /\ both[n + k] = c
    <3> DEFINE i == n + k
    <3>1. i \in 1..n + m /\ ~(i <= n) /\ i - n = k
      BY <1>0
    <3> HIDE DEF i
    <3>2. both[i] = c
      BY <3>1, <1>1
    <3> QED BY <3>1, <3>2 DEF i
  <2> HIDE DEF A, B
  <2> QED BY <2>1, <2>2, <2>3
<1>4. IsFiniteSet(A) /\ IsFiniteSet(B) /\ Cardinality(A) \in Nat /\ Cardinality(B) \in Nat
  <2>1. IsFiniteSet(1..n) /\ IsFiniteSet(1..m)
    BY <1>0, FS_Interval
  <2>2. A \subseteq 1..n /\ B \subseteq 1..m
    OBVIOUS
  <2> HIDE DEF A, B
  <2>3. IsFiniteSet(A) /\ IsFiniteSet(B)
    BY ONLY <2>1, <2>2, FS_Subset
  <2> QED BY ONLY <2>3, FS_CardinalityType
<1>5. IsFiniteSet(C) /\ Cardinality(C) = Cardinality(B)
  <2>1. moved \in Bijection(B, C)
    <3>1. B \subseteq Nat
      BY <1>0
    <3> HIDE DEF B
    <3>2. moved \in [B -> C]
      OBVIOUS
    <3>3. \A k, j \in B : n + k = n + j => k = j
      BY <1>0, <3>1
    <3>4. \A x \in C : \E k \in B : moved[k] = x
      OBVIOUS
    <3>5. \A k \in B : moved[k] = n + k
      OBVIOUS
    <3> HIDE DEF moved, C
    <3>6. \A k, j \in B : moved[k] = moved[j] => k = j
      BY <3>3, <3>5
    <3> QED BY <3>2, <3>4, <3>6 DEF Bijection, Injection, IsInjective, Surjection
  <2> HIDE DEF B, C, moved
  <2>2. ExistsBijection(B, C)
    BY <2>1 DEF ExistsBijection
  <2> QED BY ONLY <2>2, <1>4, FS_Bijection
<1>6. A \cap C = {}
  BY <1>0
<1> HIDE DEF A, B, C
<1>7. Cardinality(A \cup C) = Cardinality(A) + Cardinality(C) - Cardinality(A \cap C)
  BY ONLY <1>4, <1>5, FS_Union
<1>8. Cardinality(A \cup C) = Cardinality(A) + Cardinality(B) - 0
  BY ONLY <1>5, <1>6, <1>7, FS_EmptySet
<1>9. Cardinality(A \cup C) = Cardinality(A) + Cardinality(B)
  BY ONLY <1>4, <1>8
<1> QED BY ONLY <1>2, <1>3, <1>4, <1>9 DEF both

\* The lists one after another, up to each of them.
Flat(f, lists) ==
  f = [i \in 1..Len(lists) |-> IF i = 1 THEN lists[i] ELSE f[i - 1] \o lists[i]]

\* Every sequence of lists has them.
LEMMA FlatExists ==
  ASSUME NEW S, NEW lists \in Seq(Seq(S))
  PROVE  \E f : Flat(f, lists)
<1> DEFINE N == Len(lists)
<1> DEFINE T == Seq(S)
<1> DEFINE next == [t \in T \X (1..N) |-> t[1] \o lists[t[2]]]
<1>1. N \in Nat /\ \A k \in 1..N : lists[k] \in T
  OBVIOUS
<1>2. <<>> \in T
  OBVIOUS
<1>3. ASSUME NEW s \in T, NEW r \in T PROVE s \o r \in T /\ <<>> \o r = r
  OBVIOUS
<1> HIDE DEF N, T
<1>4. next \in [T \X (1..N) -> T]
  <2>1. ASSUME NEW t \in T \X (1..N) PROVE t[1] \o lists[t[2]] \in T
    BY <1>1, <1>3
  <2> QED BY <2>1
<1>5. ASSUME NEW s \in T, NEW n \in 1..N PROVE next[<<s, n>>] = s \o lists[n]
  OBVIOUS
<1> HIDE DEF next
<1>6. PICK g : Grows(g, T, <<>>, N, next)
  BY <1>1, <1>2, <1>4, StepByStep
<1>7. g \in [0..N -> T] /\ \A n \in 0..N : g[n] = IF n = 0 THEN <<>> ELSE next[<<g[n - 1], n>>]
  <2> DEFINE e(h) == [n \in 0..N |-> IF n = 0 THEN <<>> ELSE next[<<h[n - 1], n>>]]
  <2>1. g \in [0..N -> T] /\ g = e(g)
    BY <1>6 DEF Grows
  <2>2. \A n \in 0..N : e(g)[n] = IF n = 0 THEN <<>> ELSE next[<<g[n - 1], n>>]
    OBVIOUS
  <2> HIDE DEF e
  <2> QED BY <2>1, <2>2
<1> DEFINE f == [i \in 1..N |-> g[i]]
<1>8. ASSUME NEW i \in 1..N
      PROVE  g[i] = IF i = 1 THEN lists[i] ELSE f[i - 1] \o lists[i]
  <2>1. i \in 0..N /\ i - 1 \in 0..N /\ i # 0
    BY <1>1
  <2>2. g[i] = g[i - 1] \o lists[i]
    <3>1. g[i] = next[<<g[i - 1], i>>] /\ g[i - 1] \in T
      BY <2>1, <1>7
    <3> QED BY <3>1, <1>5
  <2>3. CASE i = 1
    <3>1. g[i - 1] = <<>>
      <4>1. 0 \in 0..N /\ i - 1 = 0
        BY <1>1, <2>3
      <4> QED BY <4>1, <1>7
    <3>2. <<>> \o lists[i] = lists[i]
      BY <1>1, <1>2, <1>3
    <3> QED BY <2>2, <2>3, <3>1, <3>2
  <2>4. CASE i # 1
    <3>1. i - 1 \in 1..N
      BY <1>1, <2>4
    <3>2. f[i - 1] = g[i - 1]
      BY <3>1
    <3> HIDE DEF f
    <3> QED BY <2>2, <2>4, <3>2
  <2> QED BY <2>3, <2>4
<1>9. f = [i \in 1..N |-> IF i = 1 THEN lists[i] ELSE f[i - 1] \o lists[i]]
  <2>1. \A i \in 1..N : f[i] = g[i]
    OBVIOUS
  <2>2. f = [i \in 1..N |-> f[i]]
    OBVIOUS
  <2> HIDE DEF f
  <2>3. [i \in 1..N |-> f[i]] = [i \in 1..N |-> IF i = 1 THEN lists[i] ELSE f[i - 1] \o lists[i]]
    BY <1>8, <2>1
  <2> QED BY <2>2, <2>3
<1>10. Flat(f, lists)
  <2> HIDE DEF f
  <2> QED BY <1>9 DEF Flat, N
<1> QED BY <1>10

\* The parts of a range string that name a core, up to one of them.
Naming(parts, c, k) == {j \in 1..k : c \in parts[j].first..parts[j].last}

\* However many parts: their lists one after another hold a core as often as
\* the parts name it.
LEMMA TimesInParts ==
  ASSUME NEW parts \in Seq(Parts), NEW flat,
         flat = FlattenSeq([k \in DOMAIN parts |-> CoresOf(parts[k])])
  PROVE  /\ flat \in Seq(CoreIds)
         /\ \A c \in CoreIds : Times(flat, c) = Cardinality(Naming(parts, c, Len(parts)))
<1> DEFINE N == Len(parts)
<1> DEFINE lists == [k \in DOMAIN parts |-> CoresOf(parts[k])]
<1>0. N \in Nat /\ DOMAIN parts = 1..N /\ \A k \in 1..N : parts[k] \in Parts
  OBVIOUS
<1>1. /\ lists = [k \in 1..N |-> CoresOf(parts[k])]
      /\ \A k \in 1..N : lists[k] = CoresOf(parts[k])
  BY <1>0
<1>2. flat = FlattenSeq(lists)
  OBVIOUS
<1> HIDE DEF N, lists
<1>3. \A k \in 1..N : lists[k] \in Seq(CoreIds)
  BY <1>0, <1>1, OncePerPart
<1>4. lists \in Seq(Seq(CoreIds)) /\ Len(lists) = N
  <2>1. lists \in [1..N -> Seq(CoreIds)]
    BY <1>1, <1>3
  <2> QED BY <2>1, <1>0
<1>5. \A c : Cardinality(Naming(parts, c, 0)) = 0
  <2>1. \A c : Naming(parts, c, 0) = {}
    BY DEF Naming
  <2> QED BY ONLY <2>1, FS_EmptySet
<1>6. CASE N = 0
  <2>1. lists = <<>>
    BY <1>4, <1>6
  <2>2. flat = lists
    BY <1>2, <1>4, <1>6 DEF FlattenSeq
  <2>3. flat = <<>> /\ flat \in Seq(CoreIds)
    BY <2>1, <2>2
  <2>4. ASSUME NEW c PROVE Times(flat, c) = 0
    <3>1. {i \in DOMAIN flat : flat[i] = c} = {}
      <4>1. Len(flat) = 0 /\ DOMAIN flat = 1..Len(flat)
        BY <2>3
      <4>2. DOMAIN flat = {}
        BY ONLY <4>1
      <4> QED BY ONLY <4>2
    <3> QED BY <3>1, FS_EmptySet DEF Times
  <2> QED BY <2>3, <2>4, <1>5, <1>6 DEF N
<1>7. CASE N # 0
  <2> DEFINE f == CHOOSE g : Flat(g, lists)
  <2>1. Flat(f, lists)
    BY <1>4, FlatExists
  <2>2. flat = f[N]
    BY <1>2, <1>4, <1>7 DEF FlattenSeq, Flat
  <2> HIDE DEF f
  <2>3. \A i \in 1..N : f[i] = IF i = 1 THEN lists[i] ELSE f[i - 1] \o lists[i]
    <3> DEFINE e(h) == [i \in 1..N |-> IF i = 1 THEN lists[i] ELSE h[i - 1] \o lists[i]]
    <3>1. f = e(f)
      BY <2>1, <1>4 DEF Flat
    <3>2. \A i \in 1..N : e(f)[i] = IF i = 1 THEN lists[i] ELSE f[i - 1] \o lists[i]
      OBVIOUS
    <3> HIDE DEF e
    <3> QED BY <3>1, <3>2
  <2> DEFINE Fits(k) == /\ f[k] \in Seq(CoreIds)
                        /\ \A c \in CoreIds : Times(f[k], c) = Cardinality(Naming(parts, c, k))
  <2> DEFINE S == {k \in 0..N : k # 0 => Fits(k)}
  <2>4. ASSUME NEW k \in 1..N, NEW c \in CoreIds
        PROVE  /\ Cardinality(Naming(parts, c, k - 1)) \in Nat
               /\ Cardinality(Naming(parts, c, k)) =
                    Cardinality(Naming(parts, c, k - 1)) + Times(lists[k], c)
    <3> DEFINE j == k - 1
    <3>0. j \in Nat /\ k = j + 1
      BY <1>0
    <3>1. IsFiniteSet(1..j)
      BY <3>0, FS_Interval
    <3> HIDE DEF j
    <3>2. Naming(parts, c, j) \subseteq 1..j
      BY DEF Naming
    <3>3. /\ IsFiniteSet(Naming(parts, c, j)) /\ Cardinality(Naming(parts, c, j)) \in Nat
      BY ONLY <3>1, <3>2, FS_Subset, FS_CardinalityType
    <3>4. Times(lists[k], c) = IF c \in parts[k].first..parts[k].last THEN 1 ELSE 0
      BY <1>0, <1>1, OncePerPart
    <3>5. CASE c \in parts[k].first..parts[k].last
      <4>1. Naming(parts, c, k) = Naming(parts, c, j) \cup {k} /\ k \notin Naming(parts, c, j)
        BY <3>0, <3>5 DEF Naming
      <4>2. Cardinality(Naming(parts, c, j) \cup {k}) = Cardinality(Naming(parts, c, j)) + 1
        BY ONLY <3>3, <4>1, FS_AddElement
      <4>3. Cardinality(Naming(parts, c, k)) = Cardinality(Naming(parts, c, j)) + 1
        BY ONLY <4>1, <4>2
      <4> QED BY <3>3, <3>4, <3>5, <4>3 DEF j
    <3>6. CASE c \notin parts[k].first..parts[k].last
      <4>1. Naming(parts, c, k) = Naming(parts, c, j)
        BY <3>0, <3>6 DEF Naming
      <4> QED BY <3>3, <3>4, <3>6, <4>1 DEF j
    <3> QED BY <3>5, <3>6
  <2>5. 0 \in S
    BY <1>0
  <2>6. ASSUME NEW k \in 0..N, k # 0, k - 1 \in S PROVE k \in S
    <3>0. k \in 1..N /\ k - 1 \in Nat
      BY <1>0, <2>6
    <3>1. CASE k = 1
      <4>1. f[k] = lists[k] /\ f[k] \in Seq(CoreIds)
        BY <3>0, <3>1, <2>3, <1>3
      <4>2. ASSUME NEW c \in CoreIds
            PROVE  Times(f[k], c) = Cardinality(Naming(parts, c, k))
        <5>1. Cardinality(Naming(parts, c, k)) =
                Cardinality(Naming(parts, c, k - 1)) + Times(lists[k], c)
          BY <3>0, <2>4
        <5>2. Cardinality(Naming(parts, c, k - 1)) = 0
          BY <3>1, <1>5
        <5>3. Times(lists[k], c) \in Nat
          BY <4>1, TimesInBoth
        <5> QED BY <4>1, <5>1, <5>2, <5>3
      <4> QED BY <4>1, <4>2
    <3>2. CASE k # 1
      <4>1. f[k] = f[k - 1] \o lists[k] /\ lists[k] \in Seq(CoreIds)
        BY <3>0, <3>2, <2>3, <1>3
      <4>2. Fits(k - 1)
        <5>1. k - 1 # 0
          BY <3>0, <3>2
        <5> QED BY <5>1, <2>6
      <4>3. f[k] \in Seq(CoreIds)
        BY <4>1, <4>2, ConcatProperties
      <4>4. ASSUME NEW c \in CoreIds
            PROVE  Times(f[k], c) = Cardinality(Naming(parts, c, k))
        <5>1. Cardinality(Naming(parts, c, k)) =
                Cardinality(Naming(parts, c, k - 1)) + Times(lists[k], c)
          BY <3>0, <2>4
        <5>2. Times(f[k - 1] \o lists[k], c) = Times(f[k - 1], c) + Times(lists[k], c)
          BY <4>1, <4>2, TimesInBoth
        <5>3. Times(f[k - 1], c) = Cardinality(Naming(parts, c, k - 1))
          BY <4>2
        <5> QED BY ONLY <4>1, <5>1, <5>2, <5>3
      <4> QED BY <4>3, <4>4
    <3> QED BY <3>1, <3>2
  <2>7. 0..N \subseteq S
    <3> HIDE DEF S
    <3> QED BY ONLY <2>5, <2>6, <1>0, UpTheLine
  <2>8. Fits(N)
    <3>1. N \in 0..N
      BY <1>0
    <3>2. N \in S
      <4> HIDE DEF S
      <4> QED BY <2>7, <3>1
    <3> QED BY <3>2, <1>7
  <2> QED BY <2>2, <2>8 DEF N
<1> QED BY <1>6, <1>7

\* A range string of any number of parts, of any length, stands for the cores
\* of its parts, each as often as it is named, in ascending order.
THEOREM RangesOfAnyLength ==
  ASSUME NEW parts \in Seq(Parts)
  PROVE  LET cores == ParseCpuRange(parts)
         IN /\ \A i \in 1..Len(cores) - 1 : cores[i] <= cores[i + 1]
            /\ \A c \in CoreIds :
                 Cardinality({i \in DOMAIN cores : cores[i] = c})
                   = Cardinality({k \in DOMAIN parts : c \in parts[k].first..parts[k].last})
<1>4. parts \in Seq(Parts) /\ DOMAIN parts = 1..Len(parts)
  OBVIOUS
<1> DEFINE flat == FlattenSeq([k \in DOMAIN parts |-> CoresOf(parts[k])])
<1> DEFINE cores == Ascending(flat)
<1> DEFINE N == Len(flat)
<1>5. /\ flat \in Seq(CoreIds)
      /\ \A c \in CoreIds : Times(flat, c) = Cardinality(Naming(parts, c, Len(parts)))
  <2>1. flat = FlattenSeq([k \in DOMAIN parts |-> CoresOf(parts[k])])
    OBVIOUS
  <2> HIDE DEF flat
  <2> QED BY ONLY <1>4, <2>1, TimesInParts
<1>6. ParseCpuRange(parts) = cores
  BY DEF ParseCpuRange
<1> HIDE DEF flat
<1>7. N \in Nat /\ flat \in [1..N -> CoreIds]
  BY <1>5
<1> HIDE DEF N
<1>8. /\ cores \in [1..N -> CoreIds]
      /\ \A i \in 1..N - 1 : cores[i] <= cores[i + 1]
      /\ \A c \in CoreIds : Times(cores, c) = Times(flat, c)
  BY ONLY <1>7, InOrder
<1> HIDE DEF cores
<1>9. Len(cores) = N
  BY <1>7, <1>8
<1>10. ASSUME NEW c \in CoreIds
       PROVE  Cardinality({i \in DOMAIN cores : cores[i] = c})
                = Cardinality({k \in DOMAIN parts : c \in parts[k].first..parts[k].last})
  <2>1. Times(cores, c) = Cardinality(Naming(parts, c, Len(parts)))
    BY <1>5, <1>8
  <2> QED BY <2>1, <1>4 DEF Times, Naming
<1> QED BY <1>6, <1>8, <1>9, <1>10

\* So the ranges of the inputs come out right.
LEMMA RangesHold ==
  ASSUME input \in Inputs
  PROVE  RangesParsed
<1> SUFFICES ASSUME input.of = "range" PROVE RangesParsed
  BY DEF RangesParsed
<1>1. input \in RangeInputs
  <2>1. \A i \in BootInputs : i.of = "boot"
    BY DEF BootInputs
  <2>2. \A i \in CoreInputs : i.of = "cores"
    BY DEF CoreInputs
  <2>3. \A i \in ConfigInputs : i.of = "config"
    BY DEF ConfigInputs
  <2> QED BY <2>1, <2>2, <2>3, SplitsAreSplits DEF Inputs
<1>2. input.parts \in BoundedSeq(Parts, 2)
  BY <1>1 DEF RangeInputs
<1>3. PICK n \in 0..2 : input.parts \in [1..n -> Parts]
  BY <1>2 DEF BoundedSeq, SeqOf
<1>4. input.parts \in Seq(Parts)
  BY <1>3
<1> QED BY <1>4, RangesOfAnyLength DEF RangesParsed

\* What the functions on cores compute is right, for every input: the ranges
\* stand for their cores, and the services keep one of their own.
THEOREM CoresComeOutRight == input \in Inputs => CoresAreRight
<1> SUFFICES ASSUME input \in Inputs PROVE CoresAreRight
  OBVIOUS
<1> QED BY RangesHold, ServicesKeepACore DEF CoresAreRight
=============================================================================
