------------------------------- MODULE Speeds -------------------------------
(***************************************************************************)
(* How fast a model would answer: the table of parts (devices.go), what    *)
(* this machine's own benchmarks say instead (calibration.go) and the      *)
(* speed made of both (speed.go), in internal/estimate.                    *)
(*                                                                         *)
(* Sizes are in GB and bandwidths in GB/s; a size is a power of two, given *)
(* by its exponent.  Shares (efficiencies, margins) are in tenths, a split *)
(* in quarters, a rate in hundredths of a token a second.  What may not be *)
(* known is a set, empty or of one value.  Patterns are the names they     *)
(* match; sentences are left out.                                          *)
(***************************************************************************)
EXTENDS Integers, Sequences, FiniteSets, FiniteSetsExt, SequencesExt

CONSTANTS
  Sources,                    \* what the table may cite
  Paths, VulkanByVendor,      \* [efficiency, prompt] of a path, and of a vendor's cards on vulkan
  NoAVX2, MoEGeneration, MoEPrompt,   \* in tenths
  Margin, PerDoubling, MaxMargin

Vendors == {"nvidia", "amd", "intel", "apple"}

-----------------------------------------------------------------------------
(* The table.                                                              *)
\* Mutant: any range in order is taken.
ValidRangeOrdered(v, cited, low, high) == v = << >> \/ v[1] <= v[2]

ValidRange(v, cited, low, high) ==
  IF v = << >> THEN ~cited ELSE /\ low <= v[1] /\ v[1] <= v[2] /\ v[2] <= high /\ cited

(* A bandwidth is what the data rate and the width of the bus give, to one *)
(* in a hundred.                                                           *)
DerivedAgrees(row) ==
  /\ row.rate > 0 <=> row.bus > 0
  /\ row.rate > 0 => 100 * Max({row.rate * row.bus - 8 * row.gbs, 8 * row.gbs - row.rate * row.bus}) <= 8 * row.gbs
ValidGPU(row) ==
  /\ row.vendor \in Vendors /\ row.names # {} /\ row.gbs \in 1..5000 /\ DerivedAgrees(row)
  /\ row.maxVRAM > 0 => row.minVRAM <= row.maxVRAM
  /\ ValidRange(row.efficiency, row.efficiencyCited, 1, 10) /\ ValidRange(row.prompt, row.promptCited, 1, 200)
  /\ row.source \in Sources
ValidMemory(row) == row.names # {} /\ 0 < row.low /\ row.low <= row.high /\ row.high <= 2000 /\ row.source \in Sources
ValidTable(t) ==
  LET ids == [i \in DOMAIN t.gpus |-> t.gpus[i].id] \o [i \in DOMAIN t.memory |-> t.memory[i].id] IN
  /\ t.gpus # << >> /\ t.memory # << >> /\ "" \notin Range(ids) /\ IsInjective(ids)
  /\ \A i \in DOMAIN t.gpus : ValidGPU(t.gpus[i])
  /\ \A i \in DOMAIN t.memory : ValidMemory(t.memory[i])

(* A condition on what could not be read does not hold.                    *)
Matches(row, g) ==
  /\ row.vendor = g.vendor /\ row.names \cap g.names # {}
  /\ row.minVRAM > 0 \/ row.maxVRAM > 0 =>
       \E v \in g.vram : row.minVRAM <= v /\ (row.maxVRAM > 0 => v < row.maxVRAM)
  /\ row.cores # {} => g.cores \cap row.cores # {}
Found(t, g) == {i \in DOMAIN t.gpus : Matches(t.gpus[i], g)}
Ambiguous(g) == Cardinality(g.names) > 1

\* Mutant: the first row that matches, whatever the name.
GPUFirst(t, g) == {t.gpus[i] : i \in {j \in Found(t, g) : \A k \in Found(t, g) : j <= k}}

(* The first row that matches; of a name that lists several cards, the     *)
(* slowest.                                                                *)
GPU(t, g) ==
  LET before(i, j) == IF Ambiguous(g) /\ t.gpus[i].gbs # t.gpus[j].gbs
                      THEN t.gpus[i].gbs < t.gpus[j].gbs ELSE i <= j
  IN {t.gpus[i] : i \in {j \in Found(t, g) : \A k \in Found(t, g) : before(j, k)}}
SystemMemory(t, cpu) ==
  LET found == {i \in DOMAIN t.memory : t.memory[i].names \cap cpu # {}}
  IN {t.memory[i] : i \in {j \in found : \A k \in found : j <= k}}

-----------------------------------------------------------------------------
(* What one part of the machine reaches: tenths of GB/s, and of the        *)
(* parameters it reads of a prompt in a second.                            *)
Population(low, high, efficiency, ratio) ==
  [low |-> low * efficiency[1], high |-> high * efficiency[2], from |-> "",
   promptLow |-> ratio[1] * low * efficiency[1], promptHigh |-> ratio[2] * high * efficiency[2]]

Or(v, default) == IF v = << >> THEN default ELSE v
DeviceSpeed(t, g, path) ==
  LET figures == IF path = "vulkan" /\ g.vendor \in DOMAIN VulkanByVendor THEN {VulkanByVendor[g.vendor]}
                 ELSE {Paths[p] : p \in {path} \cap DOMAIN Paths}
  IN {Population(row.gbs, row.gbs, Or(row.efficiency, ps.efficiency), Or(row.prompt, ps.prompt)) :
        row \in GPU(t, g), ps \in figures}

(* Without AVX2 both ends are slower; when that is not known, the low one. *)
Efficiency(m) ==
  LET eff == Paths["cpu"].efficiency
      slower(v) == (v * NoAVX2) \div 10
  IN IF ~m.x86 \/ m.avx2 = "yes" THEN eff
     ELSE <<slower(eff[1]), IF m.avx2 = "no" THEN slower(eff[2]) ELSE eff[2]>>
SystemSpeed(t, m) ==
  LET ps == Paths["cpu"]
  IN IF m.unified THEN {Population(row.gbs, row.gbs, ps.efficiency, ps.prompt) : row \in UNION {GPU(t, g) : g \in m.primary}}
     ELSE {Population(row.low, row.high, Efficiency(m), ps.prompt) : row \in SystemMemory(t, m.cpu)}

-----------------------------------------------------------------------------
(* A benchmark that says something clean about a path: dense, whole, and   *)
(* the first of its label, for the newest come first.                      *)
Counts(o) == o.resident /\ o.tps > 0 /\ ~o.moe /\ o.path # ""

\* Mutant: the first of a label, whatever it was.
CalibrateFirst(obs) ==
  {i \in DOMAIN obs : Counts(obs[i]) /\ ~\E j \in 1..(i - 1) : obs[j].label = obs[i].label /\ obs[j].path = obs[i].path}

Calibrate(obs) ==
  {i \in DOMAIN obs :
     /\ Counts(obs[i])
     /\ ~\E j \in 1..(i - 1) : Counts(obs[j]) /\ obs[j].label = obs[i].label /\ obs[j].path = obs[i].path}
Bytes(size) == 2 ^ size
Reached(o) == o.tps * (Bytes(o.size) + o.fill)
PromptRate(o) == 10 * o.promptTPS * o.params

Distance(a, b) == Max({a - b, b - a})
(* The one nearest in size, of those as near the first.                    *)
Nearest(obs, path, size) ==
  LET points == {i \in Calibrate(obs) : obs[i].path = path}
      d(i) == Distance(obs[i].size, size)
  IN {obs[i] : i \in {j \in points : \A k \in points : d(j) < d(k) \/ (d(j) = d(k) /\ j <= k)}}

(* The margin, over what it is a share of: never wider than the            *)
(* population's range is for its middle, nor than the limit.               *)
\* Mutant: the limit alone caps it.
WidthCapped(pop, distance) == <<Min({Margin + PerDoubling * distance, MaxMargin}), 10>>

Width(pop, distance) ==
  LET margin == Min({Margin + PerDoubling * distance, MaxMargin})
      narrower == {p \in pop : p.high > 0 /\ 10 * (p.high - p.low) < margin * (p.high + p.low)}
  IN IF narrower = {} THEN <<margin, 10>>
     ELSE LET p == CHOOSE p \in narrower : TRUE IN <<p.high - p.low, p.high + p.low>>

(* withCalibration: the population's range, unless a benchmark on the path *)
(* says better.  A prompt it did not time keeps the population's rate.     *)
WithCalibration(pop, obs, path, size) ==
  LET near == Nearest(obs, path, size)
  IN IF near = {} THEN pop ELSE
     LET o == CHOOSE o \in near : TRUE
         w == Width(pop, Distance(o.size, size))
         low(v) == (v * (w[2] - w[1])) \div w[2]
         high(v) == (v * (w[2] + w[1])) \div w[2]
         prompt == IF o.promptTPS > 0 THEN <<low(PromptRate(o)), high(PromptRate(o))>>
                   ELSE IF pop # {} THEN LET p == CHOOSE p \in pop : TRUE IN <<p.promptLow, p.promptHigh>>
                   ELSE <<0, 0>>
     IN {[low |-> low(10 * Reached(o)), high |-> high(10 * Reached(o)), from |-> o.label,
          promptLow |-> prompt[1], promptHigh |-> prompt[2]]}

-----------------------------------------------------------------------------
(* roundRate: whole above ten tokens a second, else to a tenth.            *)
Rounded(v) == IF v >= 1000 THEN 100 * ((v + 50) \div 100) ELSE 10 * ((v + 5) \div 10)

(* Where a plan's layers run: on graphics of their own, share quarters of  *)
(* them, and the rest on the processor; or all of them in system memory,   *)
(* on the plan's path.                                                     *)
Own(pl) == pl.device # {} /\ ~pl.shared
Device(i) ==
  UNION {WithCalibration(DeviceSpeed(i.table, g, i.pl.path), i.obs, i.pl.path, i.model.size) : g \in i.pl.device}
System(i) ==
  WithCalibration(SystemSpeed(i.table, i.m), i.obs, IF Own(i.pl) THEN "cpu" ELSE i.pl.path, i.model.size)
Parts(i) ==
  IF ~Own(i.pl) THEN {<<s, s>> : s \in System(i)}
  ELSE IF i.pl.share = 4 THEN {<<d, d>> : d \in Device(i)}
  ELSE {<<d, s>> : d \in Device(i), s \in System(i)}

\* Mutant: the time of the layers on the processor is left out.
RateOfDevice(share, read, a, b) == (400 * a) \div (share * read)

(* A word's time is summed over the parts: 100 ÷ seconds.                  *)
Rate(share, read, a, b) ==
  IF share = 4 THEN (10 * a) \div read ELSE (40 * a * b) \div (read * (share * b + (4 - share) * a))

Share(pl) == IF Own(pl) THEN pl.share ELSE 4
Scaled(model, v, by) == Rounded(IF model.moe THEN (v * by) \div 10 ELSE v)

(* A prompt is bound by arithmetic: by the parameters, not by the bytes.   *)
PromptSpeed(i, v, rate, d) ==
  IF Share(i.pl) = 4 THEN (10 * v) \div i.model.params
  ELSE (((v * rate) \div i.model.params) * Bytes(i.model.size)) \div d.high
SpeedOf(i, d, s) ==
  LET low == Rate(Share(i.pl), Bytes(i.model.size) + i.model.cache, d.low, s.low)
      high == Rate(Share(i.pl), Bytes(i.model.size), d.high, s.high)
  IN [low |-> Scaled(i.model, low, MoEGeneration[1]), high |-> Scaled(i.model, high, MoEGeneration[2]), from |-> d.from,
      promptLow |-> Scaled(i.model, PromptSpeed(i, d.promptLow, high, d), MoEPrompt[1]),
      promptHigh |-> Scaled(i.model, PromptSpeed(i, d.promptHigh, high, d), MoEPrompt[2])]
Speed(i) == {SpeedOf(i, p[1], p[2]) : p \in Parts(i)}

-----------------------------------------------------------------------------
(* What is asked about: figures, a table, a machine, a plan and benchmarks *)
(* as their types give them.                                               *)
AtMostOne(S) == \A x, y \in S : x = y
Pair(v, most) == v[1] \in 0..most /\ v[2] \in v[1]..most
FigureOK(f) == Pair(f.efficiency, 10) /\ f.prompt[1] \in Nat /\ f.prompt[2] \in Nat /\ f.prompt[1] <= f.prompt[2]
FiguresOK ==
  /\ "cpu" \in DOMAIN Paths
  /\ \A p \in DOMAIN Paths : FigureOK(Paths[p])
  /\ \A v \in DOMAIN VulkanByVendor : FigureOK(VulkanByVendor[v])
  /\ NoAVX2 \in 0..10 /\ Pair(MoEGeneration, 10) /\ Pair(MoEPrompt, 10)
  /\ Margin \in Nat /\ PerDoubling \in Nat /\ MaxMargin \in 0..10
ObservedOK(o) ==
  /\ o.tps \in Nat /\ o.promptTPS \in Nat /\ o.params \in Nat /\ o.fill \in Nat
  /\ o.size \in Nat /\ Bytes(o.size) \in Nat \ {0}
RowOK(row) == row.efficiency \in {<< >>} \cup (Nat \X Nat) /\ row.prompt \in {<< >>} \cup (Nat \X Nat)
TableOK(t) ==
  /\ DOMAIN t.gpus \subseteq Nat /\ \A i \in DOMAIN t.gpus : RowOK(t.gpus[i])
  /\ DOMAIN t.memory \subseteq Nat /\ \A i \in DOMAIN t.memory : t.memory[i].low \in Nat /\ t.memory[i].high \in Nat
CardOK(g) ==
  g = [vendor |-> g.vendor, names |-> g.names, vram |-> g.vram, cores |-> g.cores] /\ IsFiniteSet(g.names)
AskedOK(i) ==
  /\ i = [table |-> i.table, m |-> i.m, pl |-> i.pl, model |-> i.model, obs |-> i.obs]
  /\ i.pl = [path |-> i.pl.path, device |-> i.pl.device, shared |-> i.pl.shared, share |-> i.pl.share]
  /\ TableOK(i.table)
  /\ AtMostOne(i.pl.device) /\ AtMostOne(i.m.primary) /\ \A g \in i.pl.device : CardOK(g)
  /\ i.pl.share \in 1..4
  /\ i.obs \in Seq(Range(i.obs)) /\ \A k \in DOMAIN i.obs : ObservedOK(i.obs[k])
  /\ i.model.size \in Nat /\ Bytes(i.model.size) \in Nat \ {0}
  /\ i.model.cache \in Nat /\ i.model.params \in Nat \ {0}

-----------------------------------------------------------------------------
(* What is claimed of a speed.                                             *)

(* With a table that was accepted, what a plan runs on reaches something.  *)
PartsReach(i) == \A p \in Parts(i) : 0 < p[1].low /\ 0 < p[2].low

(* With a table that was accepted, a speed is a range of rates.            *)
IsARange(i) == \A s \in Speed(i) : 0 <= s.low /\ s.low <= s.high /\ 0 <= s.promptLow /\ s.promptLow <= s.promptHigh

(* It is above none, unless it is too slow for the last digit.             *)
AboveNone(i) == \A s \in Speed(i) : 0 < s.low

(* A name that lists several cards is never taken for one faster than a    *)
(* card it may be.                                                         *)
NeverTooFast(i) ==
  \A g \in i.pl.device : \A n \in g.names :
    \A row \in GPU(i.table, g), one \in GPU(i.table, [g EXCEPT !.names = {n}]) : row.gbs <= one.gbs

(* A benchmark never widens what was known, and a part that was not known  *)
(* has a speed once a model that calibrates was measured on it.            *)
NeverWider(i) ==
  \A g \in i.pl.device :
    LET pop == DeviceSpeed(i.table, g, i.pl.path) IN
    \A p \in pop, c \in Device(i) : (c.high - c.low - 2) * (p.high + p.low) <= (p.high - p.low) * (c.high + c.low)
KnownOnceMeasured(i) ==
  /\ Own(i.pl) /\ i.pl.share = 4
  /\ \E k \in DOMAIN i.obs : Counts(i.obs[k]) /\ i.obs[k].path = i.pl.path
  => Speed(i) # {}

(* A model's own measurement is inside the estimate made from it.          *)
HoldsItsMeasurement(i) ==
  \A o \in Nearest(i.obs, i.pl.path, i.model.size) :
    /\ Own(i.pl) /\ i.pl.share = 4 /\ o.size = i.model.size /\ o.fill <= i.model.cache /\ ~i.model.moe
    => \A s \in Speed(i) : s.low <= Rounded(100 * o.tps) /\ Rounded(100 * o.tps) <= s.high

(* What does not calibrate changes nothing, nor hides an older run that    *)
(* does.                                                                   *)
OnlyCleanRunsCount(i) == Speed(i) = Speed([i EXCEPT !.obs = SelectSeq(i.obs, Counts)])

(* The more of a model is on the faster part, the faster it is.            *)
MoreOnTheCardIsFaster(i) ==
  Own(i.pl) /\ i.pl.share < 4 =>
    LET more == [i EXCEPT !.pl.share = i.pl.share + 1]
    IN \A d \in Device(i), s \in System(i) : s.low <= d.low /\ s.high <= d.high =>
         \A a \in Speed(i), b \in Speed(more) : a.low <= b.low /\ a.high <= b.high /\ a.promptHigh <= b.promptHigh

SpeedHolds(i) ==
  ValidTable(i.table) =>
    /\ PartsReach(i) /\ IsARange(i) /\ AboveNone(i) /\ NeverTooFast(i) /\ NeverWider(i) /\ KnownOnceMeasured(i)
    /\ HoldsItsMeasurement(i) /\ OnlyCleanRunsCount(i) /\ MoreOnTheCardIsFaster(i)
=============================================================================
