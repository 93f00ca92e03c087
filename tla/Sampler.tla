------------------------------ MODULE Sampler ------------------------------
(***************************************************************************)
(* What a benchmark reads of the machine once a second: the tools chosen   *)
(* for it, what each makes of its answer, and the figures the run keeps of *)
(* the readings (internal/bench/sampler.go, and applySamples).             *)
(*                                                                         *)
(* A value that may be missing is a set, empty or of one value; so is the  *)
(* answer of a tool, empty when it fails.                                  *)
(***************************************************************************)
EXTENDS Naturals, Sequences, FiniteSets, SequencesExt, FiniteSetsExt

CONSTANTS
  Kilo,     \* bytes in a kilobyte
  Latest    \* the full name of each name written without its tag

Reading(tool, device) ==
  [tool |-> tool, device |-> device, util |-> {}, vram |-> {}, ram |-> {}, temp |-> {}, power |-> {}]
Times(n, x) == {n * v : v \in x}
Highest(x) == IF x = {} THEN {} ELSE {Max(x)}
Seen(readings, Of(_)) == UNION {Of(readings[i]) : i \in DOMAIN readings}

-----------------------------------------------------------------------------
(* What each tool's answer says; {} when it says nothing.                  *)

\* A line per card, of five fields each.
NvidiaSample(lines) ==
  IF lines = << >> \/ \E i \in DOMAIN lines : lines[i].fields # 5 THEN {}
  ELSE {[i \in DOMAIN lines |->
           [Reading("nvidia-smi", <<lines[i].device>>) EXCEPT !.util = lines[i].util, !.temp = lines[i].temp, !.power = lines[i].power,
              !.vram = Times(Kilo * Kilo, lines[i].mib)]]}

\* The cards, not their connectors, that count their memory; one that does
\* not answer now is left out.  Memory mapped from the system's is a device
\* of its own.
AmdCards(found) == SelectSeq(found, LAMBDA c : c.card)
Sensors(c) == IF c.hwmon = << >> THEN [temp |-> {}, average |-> {}, input |-> {}] ELSE c.hwmon[1]
AmdSample(cards) ==
  LET Of(c) ==
        IF c.vram = {} THEN << >>
        ELSE <<[Reading("sysfs", <<c.name>>) EXCEPT !.vram = c.vram, !.util = c.busy, !.temp = Sensors(c).temp,
                  !.power = IF Sensors(c).average # {} THEN Sensors(c).average ELSE Sensors(c).input]>>
             \o IF c.gtt = {} THEN << >> ELSE <<[Reading("sysfs", <<c.name, "gtt">>) EXCEPT !.vram = c.gtt]>>
      all == FlattenSeq([i \in DOMAIN cards |-> Of(cards[i])])
  IN IF all = << >> THEN {} ELSE {all}

\* Pages in use; those wired stand for the graphics' on Apple Silicon.
VMStat(a, wired) ==
  IF a.page = {} \/ a.wired = {} \/ a.active = {} THEN {}
  ELSE {<<[Reading("vm_stat", << >>) EXCEPT
             !.ram = {p * (w + n + SumSet(a.compressed)) : p \in a.page, w \in a.wired, n \in a.active},
             !.vram = IF wired THEN {p * w : p \in a.page, w \in a.wired} ELSE {}]>>}
IORegistry(utils) == IF utils = {} THEN {} ELSE {<<[Reading("ioreg", <<"gpu">>) EXCEPT !.util = Highest(utils)]>>}

InUse(tool, total, available) ==
  {<<[Reading(tool, << >>) EXCEPT !.ram = {t - a}]>> : t \in total, a \in {x \in available : \A y \in total : x <= y}}
MemInfo(a) == InUse("meminfo", Times(Kilo, a.total), Times(Kilo, a.available))
OSMemory(a) == InUse("os", a.total, a.available)

\* The runtime's own account: a reading per model, or one of no model.
Loaded(models) ==
  IF models = << >> THEN {<<Reading("api/ps", << >>)>>}
  ELSE {[i \in DOMAIN models |-> [Reading("api/ps", <<models[i].name>>) EXCEPT !.vram = {models[i].vram}]]}

-----------------------------------------------------------------------------
(* chooseProbes                                                            *)
Has(m, vendor) == \E i \in DOMAIN m.gpus : m.gpus[i].vendor = vendor
BySMI(m) == Has(m, "nvidia") /\ m.smi
ByDriver(m) == m.os = "linux" /\ ~BySMI(m) /\ AmdCards(m.cards) # << >>
AppleSilicon(m) == m.os = "darwin" /\ m.unified
MemoryTool(m) ==
  IF BySMI(m) THEN "nvidia-smi" ELSE IF ByDriver(m) THEN "sysfs" ELSE IF AppleSilicon(m) THEN "vm_stat" ELSE "none"

Probes(m) ==
  (IF BySMI(m) THEN <<"nvidia-smi">> ELSE << >>) \o (IF ByDriver(m) THEN <<"sysfs">> ELSE << >>)
  \o (IF m.os = "darwin" THEN <<"vm_stat", "ioreg">> ELSE IF m.os = "linux" THEN <<"meminfo">>
      ELSE IF m.os = "windows" THEN <<"os">> ELSE << >>)
  \o (IF m.runtime THEN <<"api/ps">> ELSE << >>)

Unread(m) ==
  LET g == m.gpus[1] IN
  IF m.os = "windows" /\ g.vendor \in {"amd", "intel"} THEN "not on Windows" ELSE IF g.integrated THEN "shared" ELSE "no reading"
\* As if a card whose tool is missing needed no word.
NotesOfUnread(m) ==
  {n \in {"no temperature"} : MemoryTool(m) = "vm_stat"}
  \cup IF MemoryTool(m) = "none" /\ m.gpus # << >> /\ ~Has(m, "nvidia") THEN {Unread(m)} ELSE {}

Notes(m) ==
  {n \in {"no nvidia-smi"} : Has(m, "nvidia") /\ ~m.smi}
  \cup {n \in {"no temperature"} : MemoryTool(m) = "vm_stat"}
  \cup IF MemoryTool(m) = "none" /\ m.gpus # << >> /\ ~Has(m, "nvidia") THEN {Unread(m)} ELSE {}

Read(m, tool, answer) ==
  CASE tool = "nvidia-smi" -> UNION {NvidiaSample(a) : a \in answer.smi}
    [] tool = "sysfs" -> AmdSample(answer.cards)
    [] tool = "vm_stat" -> UNION {VMStat(a, AppleSilicon(m)) : a \in answer.memory}
    [] tool = "ioreg" -> IORegistry(answer.utils)
    [] tool = "meminfo" -> UNION {MemInfo(a) : a \in answer.memory}
    [] tool = "os" -> UNION {OSMemory(a) : a \in answer.memory}
    [] tool = "api/ps" -> UNION {Loaded(a) : a \in answer.models}

-----------------------------------------------------------------------------
(* The sampler: what it keeps, and one reading of every tool.              *)
Fresh == [baseline |-> {}, measuring |-> FALSE, peakVRAM |-> {}, peakRAM |-> {}, util |-> <<0, 0>>, power |-> <<0, 0>>,
          temp |-> {}, others |-> {}, changed |-> FALSE, last |-> {}, failed |-> {}]

Norm(name) == IF name \in DOMAIN Latest THEN Latest[name] ELSE name
SameModel(a, b) == Norm(a) = Norm(b)

\* One reading of every tool: the samples, the tools that failed, and the
\* other models the runtime has loaded, if it said.
OthersOf(models, ours) == {models[i].name : i \in {j \in DOMAIN models : ~SameModel(models[j].name, ours)}}
ReadAll(m, answer) ==
  LET read == [i \in DOMAIN Probes(m) |-> Read(m, Probes(m)[i], answer)]
      said == FlattenSeq([i \in DOMAIN read |-> FlattenSeq(SetToSeq(read[i]))])
  IN [samples |-> SelectSeq(said, LAMBDA r : r.tool # "api/ps" \/ r.device # << >>),
      failed |-> {Probes(m)[i] : i \in {j \in DOMAIN read : read[j] = {}}},
      others |-> IF m.runtime THEN {OthersOf(a, m.ours) : a \in answer.models} ELSE {}]

\* As if the runtime's own account were a counter too.
SumVRAMOfAll(samples, tool) ==
  LET counted == SelectSeq(samples, LAMBDA r : r.vram # {})
  IN IF tool = "none" \/ counted = << >> THEN {} ELSE {FoldLeft(LAMBDA n, r : n + SumSet(r.vram), 0, counted)}

SumVRAM(samples, tool) ==
  LET counted == SelectSeq(samples, LAMBDA r : r.tool = tool /\ r.vram # {})
  IN IF counted = << >> THEN {} ELSE {FoldLeft(LAMBDA n, r : n + SumSet(r.vram), 0, counted)}

Representative(samples, tool) ==
  LET First(P(_)) == LET s == SelectSeq(samples, P) IN IF s = << >> THEN {} ELSE {s[1]}
      found == <<First(LAMBDA r : r.tool = tool), First(LAMBDA r : r.util # {}), First(LAMBDA r : r.ram # {}), {samples[1]}>>
  IN SelectSeq(found, LAMBDA s : s # {})[1]

SameSetBySize(a, b) == Cardinality(a) = Cardinality(b)
SameSet(a, b) == a = b

Tick(s, tool, read) ==
  LET utils == Highest(Seen(read.samples, LAMBDA r : r.util))
      powers == SelectSeq(read.samples, LAMBDA r : r.power # {})
      Add(sum, x) == IF s.measuring THEN <<sum[1] + SumSet(x), sum[2] + Cardinality(x)>> ELSE sum
  IN [s EXCEPT
        !.peakVRAM = Highest(@ \cup SumVRAM(read.samples, tool)),
        !.peakRAM = Highest(@ \cup Seen(read.samples, LAMBDA r : IF r.tool = "api/ps" THEN {} ELSE r.ram)),
        !.util = Add(@, utils),
        !.power = Add(@, IF powers = << >> THEN {} ELSE {FoldLeft(LAMBDA n, r : n + SumSet(r.power), 0, powers)}),
        !.temp = Highest(@ \cup Seen(read.samples, LAMBDA r : r.temp)),
        !.changed = @ \/ \E old \in s.others, new \in read.others : ~SameSet(old, new),
        !.others = IF read.others = {} THEN @ ELSE read.others,
        !.last = IF read.samples = << >> THEN @ ELSE Representative(read.samples, tool),
        !.failed = @ \cup read.failed]

\* The reading before the load: what rises is counted from here.
Baseline(s, tool, read) == [s EXCEPT !.baseline = SumVRAM(read.samples, tool), !.peakVRAM = {}, !.changed = FALSE]
MarkMeasuring(s) == [s EXCEPT !.measuring = TRUE]

Mean(sum) == IF sum[2] = 0 THEN {} ELSE {(2 * sum[1] + sum[2]) \div (2 * sum[2])}
\* As if no rise were one.
SummaryOfAny(s) ==
  [rise |-> {p - b : p \in {x \in s.peakVRAM : \A b \in s.baseline : x >= b}, b \in s.baseline}, ram |-> s.peakRAM,
   util |-> Mean(s.util), power |-> Mean(s.power), temp |-> s.temp, changed |-> s.changed, failed |-> s.failed]

Summary(s) ==
  [rise |-> {p - b : p \in {x \in s.peakVRAM : \A b \in s.baseline : x > b}, b \in s.baseline}, ram |-> s.peakRAM,
   util |-> Mean(s.util), power |-> Mean(s.power), temp |-> s.temp, changed |-> s.changed, failed |-> s.failed]

(* applySamples: what the run says of it.                                  *)
Applied(tool, notes, s, resident) ==
  LET sum == Summary(s)
      kept == sum.rise # {} /\ ~sum.changed
  IN [vram |-> IF kept THEN sum.rise ELSE {}, source |-> IF kept THEN tool ELSE "none",
      ram |-> sum.ram, util |-> sum.util, temp |-> sum.temp, power |-> sum.power,
      notes |-> notes \cup (sum.failed \ {"api/ps"})
                \cup {n \in {"another model"} : sum.rise # {} /\ sum.changed}
                \cup {n \in {"part of it"} : kept /\ resident = "split"}]

\* A run's readings: one before the load, the rest after it, those from the
\* given one on while requests are timed.
Sampled(tool, reads, from) ==
  LET Step(s, i) ==
        LET ticked == Tick(IF i >= from THEN MarkMeasuring(s) ELSE s, tool, reads[i])
        IN IF i = 1 THEN Baseline(ticked, tool, reads[1]) ELSE ticked
  IN FoldLeftDomain(Step, Fresh, reads)

-----------------------------------------------------------------------------
(* Claims, of the readings of a run and of what is said of it.             *)

\* The runtime's own account of its memory is never a measurement: the run
\* says the same whatever it is.
Unaccounted(answers) ==
  [i \in DOMAIN answers |-> [answers[i] EXCEPT !.models = {[j \in DOMAIN a |-> [a[j] EXCEPT !.vram = 0]] : a \in @}]]

\* While the same devices answer, what is said to be taken is there at one
\* reading, and is no less than what any reading shows.
RiseIsAnInstant(tool, reads, rise) ==
  LET Devices(i) == {r.device : r \in {x \in ToSet(reads[i].samples) : x.tool = tool}}
      totals == [i \in DOMAIN reads |-> SumVRAM(reads[i].samples, tool)]
      Above(i) == {t - b : t \in {x \in totals[i] : \A b \in totals[1] : x > b}, b \in totals[1]}
  IN (\A i \in DOMAIN reads : Devices(i) = Devices(1)) => rise = Highest(UNION {Above(i) : i \in 2..Len(reads)})

\* Another model that comes or goes is noticed at any reading that shows it.
OthersAreNoticed(reads, changed) ==
  reads[1].others # {} => (changed <=> \E i \in DOMAIN reads : reads[i].others # {} /\ reads[i].others # reads[1].others)

\* A figure is of readings that were made, and while requests were timed
\* where it is a mean; a card whose memory is not read has a note that says so.
NothingMadeUp(m, reads, from, run) ==
  LET All(i) == ToSet(reads[i].samples)
      timed == {i \in DOMAIN reads : i >= from}
  IN /\ (run.util = {}) <=> (\A i \in timed : \A r \in All(i) : r.util = {})
     /\ \A u \in run.util : \E i \in timed : \E r \in All(i) : \E v \in r.util : v >= u
     /\ (run.power = {}) <=> (\A i \in timed : \A r \in All(i) : r.power = {})
     /\ run.ram \subseteq UNION {r.ram : r \in UNION {All(i) : i \in DOMAIN reads}}
     /\ (run.vram = {}) <=> (run.source = "none")
     /\ run.source \in ToSet(Probes(m)) \cup {"none"}

SamplerHolds(m, answers, from, resident) ==
  \A tool \in {MemoryTool(m)}, notes \in {Notes(m)} :
  \A reads \in {[i \in DOMAIN answers |-> ReadAll(m, answers[i])]}, blind \in {[i \in DOMAIN answers |-> ReadAll(m, Unaccounted(answers)[i])]} :
  \A s \in {Sampled(tool, reads, from)}, t \in {Sampled(tool, blind, from)} :
    LET run == Applied(tool, notes, s, resident) IN
    /\ run = Applied(tool, notes, t, resident)
    /\ RiseIsAnInstant(tool, reads, Summary(s).rise)
    /\ OthersAreNoticed(reads, s.changed)
    /\ NothingMadeUp(m, reads, from, run)
    /\ tool = "none" /\ m.gpus # << >> => notes # {}
=============================================================================
