----------------------------- MODULE HostConfig -----------------------------
(***************************************************************************)
(* What the appliance computes about its host without keeping any state:   *)
(* the cores to isolate (packages/shared/src/cpu-topology.ts), the kernel  *)
(* parameters and the config file the setup writes (packages/setup/src/    *)
(* generate.ts, packages/shared/src/config.ts), and the words of the       *)
(* benchmark's command (packages/action/src/split-command.ts).             *)
(* The input is any of a bounded set; the properties compare what each     *)
(* function makes of it with what it promises.                             *)
(***************************************************************************)
EXTENDS Integers, Sequences, FiniteSets, SequencesExt

CONSTANTS
  MaxCore,      \* bound: the highest core
  Capacities    \* cpu_capacity of a core, where sysfs has it

ASSUME HostAssumption == MaxCore \in Nat /\ Capacities \subseteq Nat

VARIABLE input

CoreIds == 0..MaxCore

-----------------------------------------------------------------------------
(* Cores.                                                                  *)

\* Fault: the end of a range is left out.
UntilLast(part) == [i \in 1..part.last - part.first |-> part.first + i - 1]

\* One part of a range string: "4" or "0-3".
CoresOf(part) == [i \in 1..part.last - part.first + 1 |-> part.first + i - 1]

\* sort((a, b) => a - b): in each place the least core with at least so many
\* of them no higher.
Ascending(cores) ==
  [i \in DOMAIN cores |->
     Min({c \in CoreIds : Cardinality({j \in DOMAIN cores : cores[j] <= c}) >= i})]

\* parseCpuRange: the parts one after another, sorted.
ParseCpuRange(parts) ==
  Ascending(FlattenSeq([k \in DOMAIN parts |-> CoresOf(parts[k])]))

NoCapacities == <<>>

Slowest(online, cap) == {c \in online : \A d \in online : cap[c] <= cap[d]}
Fastest(online, cap) == {c \in online : \A d \in online : cap[c] >= cap[d]}

\* The first of the cores, or of the efficiency cores where they differ.
Housekeeping(online, cap) ==
  Min(IF cap = NoCapacities THEN online ELSE Slowest(online, cap))

\* Fault: on cores that are all alike the housekeeping core is isolated too.
FastestAll(online, cap) ==
  IF cap = NoCapacities THEN online \ {Housekeeping(online, cap)} ELSE Fastest(online, cap)

\* The rest of the cores, or of the performance cores.
Isolated(online, cap) ==
  (IF cap = NoCapacities THEN online ELSE Fastest(online, cap)) \ {Housekeeping(online, cap)}

\* detectCpuTopology.
Recommended(online, cap) ==
  [isolated |-> Isolated(online, cap), housekeeping |-> Housekeeping(online, cap)]

-----------------------------------------------------------------------------
(* Kernel parameters.  A line is a sequence of pieces: a parameter of the  *)
(* benchmark wherever the text has one, also within a word, or the text    *)
(* between two of them.  A piece is glued to the one before it where there *)
(* is no blank.                                                            *)

Valued == {"isolcpus", "nohz_full", "rcu_nocbs"}
BenchKeys == Valued \cup {"nosmt"}

Word(key, is) == [key |-> key, is |-> is, glued |-> FALSE]

\* generateGrubAppend.
BootParams(isolated) ==
  <<Word("isolcpus", isolated), Word("nohz_full", isolated), Word("rcu_nocbs", isolated),
    Word("nosmt", {})>>

\* A value is the rest of the word, whatever is in it.
InValue(line, n) ==
  \E i \in 1..n - 1 : line[i].key \in Valued /\ \A j \in i + 1..n : line[j].glued

\* What the patterns of stripBenchParams match.  They are not anchored to words:
\* of "mitigations=auto,nosmt" a part is cut, and "=force" of "nosmt=force" is
\* left, glued to what was before the parameter.
Cut(line, n) == line[n].key \in BenchKeys \/ InValue(line, n)

\* Fault: the parameter without a value is not taken out.
StripValued(line) == SelectSeq(line, LAMBDA w : w.key \notin Valued)

\* stripBenchParams.
Strip(line) ==
  LET kept[n \in 0..Len(line)] ==
        IF n = 0 THEN <<>>
        ELSE IF Cut(line, n) THEN kept[n - 1]
        ELSE Append(kept[n - 1], line[n])
  IN kept[Len(line)]

Quiet == <<Word("quiet", {})>>

\* updateGrubDefault replaces the line, and writes none where the file has none
\* ("bare"); updateArmbianEnv and updateCmdline keep its other text.
UpdateBootLine(loader, line, isolated) ==
  CASE loader = "bare" -> line
    [] loader = "grub" -> Quiet \o BootParams(isolated)
    [] OTHER -> Strip(line) \o BootParams(isolated)

-----------------------------------------------------------------------------
(* The words of a command.                                                 *)

Space == " "
Single == "'"
Double == "\""

\* A quote opens or closes, and does not show in the word.
Toggle(s, ch) ==
  IF ch = Single THEN [s EXCEPT !.single = ~@] ELSE [s EXCEPT !.double = ~@]

\* Fault: a quote counts within quotes of the other kind.
QuotesAnywhere(s, ch) == ch \in {Single, Double}

Quotes(s, ch) == (ch = Single /\ ~s.double) \/ (ch = Double /\ ~s.single)

\* A word ends, unless there is none: '' is no word.
EndWord(s) ==
  IF s.current = <<>> THEN s
  ELSE [s EXCEPT !.tokens = Append(@, s.current), !.current = <<>>]

SplitStep(s, ch) ==
  IF Quotes(s, ch) THEN Toggle(s, ch)
  ELSE IF ch = Space /\ ~s.single /\ ~s.double THEN EndWord(s)
  ELSE [s EXCEPT !.current = Append(@, ch)]

SplitCommand(command) ==
  LET state[n \in 0..Len(command)] ==
        IF n = 0 THEN [tokens |-> <<>>, current |-> <<>>, single |-> FALSE, double |-> FALSE]
        ELSE SplitStep(state[n - 1], command[n])
  IN EndWord(state[Len(command)]).tokens

-----------------------------------------------------------------------------
(* The config file.  A value is its type and what it is; text in the file  *)
(* is quoted or bare, and only what is bare is looked at.                  *)

TextKeys == {"update_repo", "runner_label", "bench_tmpfs"}
NumberKeys == {"housekeeping_core", "target_temp_c"}

\* Some keys of each kind stand for the nineteen.
Keys == TextKeys \cup NumberKeys \cup {"isolated_cores", "update_auto"}

Value(type, is) == [type |-> type, is |-> is]

Values(key) ==
  IF key \in TextKeys THEN {Value("string", is) : is \in {"noron", "true", "4"}}
  ELSE IF key = "update_auto" THEN {Value("boolean", is) : is \in {"true", "false"}}
  ELSE IF key = "isolated_cores"
       THEN {Value("array", is) : is \in BoundedSeq({Value("number", "0"), Value("number", "4")}, 2)}
  ELSE {Value("number", is) : is \in {"0", "4"}}

Defaults == [key \in Keys |-> CHOOSE v \in Values(key) : TRUE]

\* Fault: the label is written without its quotes.
TextButLabel == TextKeys \ {"runner_label"}

QuotedKeys == TextKeys

Bare(text) == [form |-> "bare", text |-> text]

\* serializeToml: a list is the text of each of its numbers.
Serialize(config) ==
  [key \in Keys |->
     IF key \in QuotedKeys THEN [form |-> "quoted", text |-> config[key].is]
     ELSE IF key = "isolated_cores"
          THEN [form |-> "list", text |-> [i \in DOMAIN config[key].is |-> Bare(config[key].is[i].is)]]
     ELSE Bare(config[key].is)]

ParseBare(text) ==
  IF text \in {"true", "false"} THEN Value("boolean", text)
  ELSE IF text \in {"0", "4"} THEN Value("number", text)
  ELSE Value("string", text)

\* parseTomlValue; what is between brackets is parsed entry by entry.
ParseValue(raw) ==
  CASE raw.form = "list" -> Value("array", [i \in DOMAIN raw.text |-> ParseBare(raw.text[i].text)])
    [] raw.form = "quoted" -> Value("string", raw.text)
    [] raw.form = "bare" -> ParseBare(raw.text)

\* loadConfig: the defaults, overridden by the keys of the file it knows.
LoadConfig(file) ==
  [key \in Keys |-> IF key \in DOMAIN file THEN ParseValue(file[key]) ELSE Defaults[key]]

-----------------------------------------------------------------------------

NoInput == [of |-> "nothing"]

Parts == {part \in [first : CoreIds, last : CoreIds] : part.first <= part.last}
Pieces == [key : {"isolcpus", "nosmt", "root", "quiet"}, is : {{1}}, glued : BOOLEAN]
Quotable(q) == BoundedSeq({"a", Space, Single, Double} \ {q}, 2) \ {<<>>}

RangeInputs == [of : {"range"}, parts : BoundedSeq(Parts, 2)]
CoreInputs == UNION {[of : {"cores"}, online : {online},
                      cap : [online -> Capacities] \cup {NoCapacities}] :
                       online \in (SUBSET CoreIds) \ {{}}}
BootInputs == [of : {"boot"}, line : BoundedSeq(Pieces, 3),
               loader : {"grub", "bare", "armbian", "cmdline"}]
SplitInputs == UNION {[of : {"split"}, p : {p}, v : Quotable(p), q : {q}, w : Quotable(q)] :
                        p, q \in {Single, Double}}
ConfigInputs == UNION {[of : {"config"}, key : {key}, value : Values(key)] : key \in Keys}

Inputs == RangeInputs \cup CoreInputs \cup BootInputs \cup SplitInputs \cup ConfigInputs

\* A range string stands for the cores of its parts, each as often as it is
\* named, in ascending order.
RangesParsed ==
  input.of = "range" =>
    LET cores == ParseCpuRange(input.parts)
    IN /\ \A i \in 1..Len(cores) - 1 : cores[i] <= cores[i + 1]
       /\ \A c \in CoreIds :
            Cardinality({i \in DOMAIN cores : cores[i] = c})
              = Cardinality({k \in DOMAIN input.parts :
                               c \in input.parts[k].first..input.parts[k].last})

\* Whatever cores there are, of whatever capacities: the housekeeping core is
\* never isolated, something is isolated when there is a second core, and
\* isolated cores are alike.
CoresApart ==
  input.of = "cores" =>
    LET r == Recommended(input.online, input.cap)
    IN /\ r.housekeeping \in input.online \ r.isolated
       /\ r.isolated \subseteq input.online
       /\ (r.isolated = {}) = (Cardinality(input.online) = 1)
       /\ input.cap # NoCapacities => \A c, d \in r.isolated : input.cap[c] = input.cap[d]

\* A line holds a parameter once, as a word of its own and with this value.
HoldsOnce(line, word) ==
  \E k \in DOMAIN line : /\ line[k] = word
                         /\ k + 1 \in DOMAIN line => ~line[k + 1].glued
                         /\ \A j \in DOMAIN line : line[j].key = word.key => j = k

\* Where a line has pieces that are not the benchmark's, and the number of one
\* among them.
Others(line) == {k \in DOMAIN line : ~Cut(line, k)}
Nth(line, k) == Cardinality({j \in Others(line) : j <= k})

\* A line that has the parameters for these cores, and the text of an old one
\* that is neither such a parameter nor the rest of its value, in its order; a
\* grub file's line is not kept.
IsRewrite(new, loader, line, isolated) ==
  /\ \A word \in ToSet(BootParams(isolated)) : HoldsOnce(new, word)
  /\ loader # "grub" =>
       /\ Cardinality(Others(new)) = Cardinality(Others(line))
       /\ \A k \in Others(new), j \in Others(line) :
            Nth(new, k) = Nth(line, j) => new[k] = line[j]

\* However often the setup runs, a boot line holds each of the benchmark's
\* parameters once and as a word of its own, with the cores of the last run, and
\* a loader's own text stays as it was.  A file without a line stays without.
BootLineIsStable ==
  input.of = "boot" =>
    LET new == UpdateBootLine(input.loader, UpdateBootLine(input.loader, input.line, {1}), {2})
    IN IF input.loader = "bare" THEN new = input.line
       ELSE IsRewrite(new, input.loader, input.line, {2})

\* Words put in quotes come back as they were, blanks and quotes of the other
\* kind included.
SplitsAsQuoted ==
  input.of = "split" =>
    SplitCommand(<<input.p>> \o input.v \o <<input.p, Space, input.q>> \o input.w \o <<input.q>>)
      = <<input.v, input.w>>

\* The config that is written is the config that is read, even where a text
\* looks like a number or a boolean.
ConfigRoundTrips ==
  input.of = "config" =>
    LET config == [Defaults EXCEPT ![input.key] = input.value]
    IN LoadConfig(Serialize(config)) = config

\* The cores the benchmarks get are those the kernel's lists stand for, alike
\* and apart from the core of the services.
CoresAreRight == RangesParsed /\ CoresApart

\* What is written comes back: boot parameters, quoted arguments, settings.
TextIsKept == BootLineIsStable /\ SplitsAsQuoted /\ ConfigRoundTrips
=============================================================================
