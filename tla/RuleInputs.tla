----------------------------- MODULE RuleInputs -----------------------------
(***************************************************************************)
(* What MCRules gives the calculations.  Machines, what their tools and    *)
(* files say of them, and what detection must make of that; amounts of     *)
(* memory are in quarters of a GiB.  The inputs of a model's speed, grades *)
(* and verdicts.  Machines a benchmark is sampled on and what their tools  *)
(* answer, answers it times, suites it may be given, installed models it   *)
(* is planned for and runs it stores.  Loads of a model and what may       *)
(* become of the log that tells of them.                                   *)
(***************************************************************************)
EXTENDS Naturals, Sequences, FiniteSets, SequencesExt

D == INSTANCE Devices WITH
  GFXRows <- <<[gfx |-> "g1", names |-> {"rx"}]>>,
  IntegratedRows <- <<[vendor |-> "intel", names |-> {"arc"}, integrated |-> "no"],
                      [vendor |-> "intel", names |-> {}, integrated |-> "yes"]>>,
  Minimum <- [darwin |-> <<14>>, windows |-> <<19>>], Sizes <- <<28, 56, 120>>
P == INSTANCE Probes

-----------------------------------------------------------------------------
(* Cards: what they are, and whether their driver is there.                *)
Card(vendor, name, vram, integrated, driver) ==
  [vendor |-> vendor, name |-> name, pci |-> name, vram |-> vram, integrated |-> integrated, driver |-> driver]
Cards == {Card("nvidia", "rtx", 64, "no", "there"), Card("nvidia", "gtx", 24, "no", "there"),
          Card("nvidia", "gtx", 24, "no", "none"), Card("amd", "rx", 32, "no", "there"),
          Card("amd", "apu", 2, "yes", "there"), Card("intel", "uhd", 0, "yes", "there"), Card("unknown", "bmc", 0, "no", "there")}
CardLists == {<< >>} \cup {<<c>> : c \in Cards} \cup {<<c, d>> : c \in Cards, d \in Cards}
             \cup {<<c, Card("amd", "apu", 2, "yes", "there"), d>> : c \in Cards, d \in Cards}
Tools == {"none", "silent", "old", "ok"}

(* nvidia-smi lists the cards its driver runs.                             *)
Compute(c) == IF c.name = "rtx" THEN <<8, 9>> ELSE <<3>>
Buses == <<"bus1", "bus2", "bus3">>
Lines(cards) ==
  LET run == {i \in DOMAIN cards : cards[i].vendor = "nvidia" /\ cards[i].driver = "there"}
      order == SetToSortSeq(run, <)
  IN [k \in DOMAIN order |-> LET c == cards[order[k]] IN
        [name |-> c.name, pci |-> c.pci, bus |-> Buses[order[k]], vram |-> c.vram, version |-> <<550>>, compute |-> Compute(c)]]
SMI(m) == [found |-> m.tool # "none", silent |-> m.tool = "silent", old |-> m.tool = "old", odd |-> FALSE, lines |-> Lines(m.cards)]
Bound(c) == IF c.driver = "none" THEN "" ELSE IF c.vendor = "nvidia" THEN "nvidia" ELSE IF c.vendor = "amd" THEN "amdgpu" ELSE "i915"
LinuxReading(m) ==
  [arch |-> "amd64", cpu |-> "cpu", ram |-> 62, bus |-> m.listed, smi |-> SMI(m),
   devices |-> [i \in DOMAIN m.cards |-> LET c == m.cards[i] IN
      [vendor |-> c.vendor, name |-> c.name, pci |-> c.pci, bus |-> Buses[i],
       files |-> IF c.vendor = "amd" THEN <<c.vram>> ELSE <<0>>, driver |-> Bound(c), marker |-> c.integrated = "no",
       gtt |-> IF c.integrated = "yes" THEN 60 ELSE 0, gfx |-> IF c.name = "apu" THEN "g2" ELSE "", version |-> <<550>>]]]
WindowsReading(m) ==
  [arch |-> "amd64", cpu |-> "cpu", ram |-> 62, probed |-> m.listed, cpuArch |-> "amd64", release |-> <<26>>, smi |-> SMI(m),
   adapters |-> [i \in DOMAIN m.cards |-> LET c == m.cards[i] IN
      [byId |-> c.vendor, byText |-> "unknown", name |-> c.name, pci |-> c.pci, pnp |-> "PCI", virtual |-> FALSE,
       basic |-> c.driver = "none", vram |-> c.vram, version |-> <<540>>, code |-> 0]] \o
      <<[byId |-> "unknown", byText |-> "nvidia", name |-> "remote", pci |-> "", pnp |-> "ROOT", virtual |-> TRUE,
         basic |-> FALSE, vram |-> 9, version |-> << >>, code |-> 0]>>]
Read(m) == IF m.os = "linux" THEN P!Linux(LinuxReading(m)) ELSE P!Windows(WindowsReading(m))
Machines == {[os |-> os, cards |-> cards, tool |-> tool, listed |-> listed] :
               os \in {"linux", "windows"}, cards \in CardLists, tool \in Tools, listed \in BOOLEAN}

(* The table, and two with a mistake in them.                              *)
Rule(id, vendor, backend) ==
  [id |-> id, vendor |-> vendor, os |-> {}, arch |-> {}, gfx |-> {}, min |-> << >>, max |-> << >>, below |-> << >>,
   drivers |-> {}, missing |-> FALSE, names |-> {}, backend |-> backend, actionable |-> FALSE]
Table == <<[Rule("driver", "", "none") EXCEPT !.missing = TRUE, !.actionable = TRUE],
           [Rule("old-driver", "nvidia", "none") EXCEPT !.below = <<545>>, !.actionable = TRUE],
           [Rule("cuda", "nvidia", "cuda") EXCEPT !.min = <<5>>], [Rule("old", "nvidia", "vulkan") EXCEPT !.max = <<4, 9>>],
           [Rule("rocm", "amd", "rocm") EXCEPT !.gfx = {"g1", "g2"}, !.os = {"linux"}], Rule("vulkan", "amd", "vulkan"),
           Rule("intel", "intel", "vulkan"), Rule("apple", "apple", "metal"), Rule("rest", "", "unknown")>>
Tables == {Table, SubSeq(Table, 1, 8), SubSeq(Table, 2, 8) \o <<Table[1]>>}

(* Macs: with Apple's chip, and with Intel's and one card or two.          *)
Display(byId, name, at, vram, shared) ==
  [byId |-> byId, byText |-> byId, name |-> name, pci |-> name, at |-> at, vram |-> vram, shared |-> shared]
Macs == {[arch |-> arch, arm64 |-> arm, cpu |-> "cpu", ram |-> 64, release |-> release, profiled |-> profiled, wired |-> wired,
          metal |-> metal, displays |-> displays] :
           arch \in {"amd64", "arm64"}, arm \in BOOLEAN, release \in {<<13, 6>>, <<26>>, << >>}, profiled \in BOOLEAN,
           wired \in {0, 60}, metal \in {0, 47},
           displays \in {<< >>, <<Display("apple", "m1", "builtin", 0, 0)>>, <<Display("intel", "iris", "builtin", 0, 6)>>,
                         <<Display("intel", "iris", "", 0, 6), Display("amd", "rx", "pcie", 32, 0)>>}}

-----------------------------------------------------------------------------
(* What is read of a machine is of its cards: each is there once, and what *)
(* is said of its memory, its kind and its driver is so.                   *)
CardsAreRead(m, p) ==
  LET real == SelectSeq(m.cards, P!IsShown)
      BagOf(seq) == ToBag([i \in DOMAIN seq |-> seq[i].pci])
      IsOf(g, c) == g.pci = c.pci /\ g.vram \in {0, c.vram} /\ g.integrated \in {"unknown", c.integrated}
  IN /\ m.listed => BagOf(p.gpus) = BagOf(real)
     /\ ~m.listed => Len(p.gpus) = IF m.tool \in {"old", "ok"} THEN Len(Lines(m.cards)) ELSE 0
     /\ \A g \in ToSet(p.gpus) : \E c \in ToSet(real) : IsOf(g, c)
     /\ \A g \in ToSet(p.gpus) : g.missing => \E c \in ToSet(real) : c.pci = g.pci /\ c.driver = "none"
     /\ m.listed /\ m.tool = "ok" => \A c \in ToSet(m.cards) : c.vendor = "nvidia" /\ c.driver = "there" =>
          \E g \in ToSet(p.gpus) : g.pci = c.pci /\ g.vram = c.vram /\ g.compute = Compute(c)

MachineHolds(m) ==
  \A p \in {Read(m)} :
    /\ CardsAreRead(m, p)
    /\ \A rules \in Tables : D!EveryDeviceExpected(rules, p) /\ D!ClassIsOfTheBest(rules, p)

(* A machine has one fingerprint, whichever of its tools answer.           *)
SamePrint(m) ==
  LET print(o) == D!Fingerprint(D!Finished(Table, Read(o)))
  IN m.listed => \A tool \in Tools : print(m) = print([m EXCEPT !.tool = tool])

(* A Mac's budget is what the system says, and is unknown where it says    *)
(* nothing.                                                                *)
MacHolds(m) ==
  \A p \in {P!Mac(m)} :
    /\ D!ClassIsOfTheBest(Table, p)
    /\ P!IsAppleSilicon(m) => p.budget \in {m.wired, m.metal} /\ (p.budget = 0 => m.wired = 0 /\ m.metal = 0)
    /\ m.release # << >> /\ m.release[1] < 14 => D!Finished(Table, p).tier = "unknown"

ASSUME MachinesAssumption == \A m \in Machines : D!MachineOK(Read(m))
ASSUME MacsAssumption == \A m \in Macs : D!MachineOK(P!Mac(m))

-----------------------------------------------------------------------------
(* Lines of pci.ids, and folders.                                          *)
Line(kind, id, name) == [kind |-> kind, id |-> id, name |-> name]
LineKinds == {Line("vendor", "v1", ""), Line("vendor", "v2", ""), Line("device", "d1", "n1"), Line("device", "d2", "n2"),
              Line("sub", "s1", "n3"), Line("class", "", "")}
NameLists == UNION {[1..n -> LineKinds] : n \in 0..4}
Folders == {[env |-> env, service |-> service, home |-> home, there |-> there] :
              env \in {"", "env"}, service \in {<< >>, <<"dir">>, <<"dir", "">>}, home \in {"", "home"},
              there \in SUBSET {"system/models", "system", "unit", "home"}}
FolderHolds(m) ==
  /\ P!FolderIsThere(m)
  /\ P!TargetsDiffer({90010, 100300, 100301, 110000, 110001, 120001, 9000}, {0, 8, 256, 257, 768, 1024})

-----------------------------------------------------------------------------
Figures(eff, prompt) == [efficiency |-> eff, prompt |-> prompt]
MCPaths == [p \in {"cuda", "vulkan", "cpu"} |->
              IF p = "cpu" THEN Figures(<<4, 8>>, <<2, 10>>) ELSE Figures(<<6, 8>>, <<3, 6>>)]
Sp == INSTANCE Speeds WITH
  Sources <- {"maker"}, Paths <- MCPaths, VulkanByVendor <- [v \in {"amd"} |-> Figures(<<5, 9>>, <<2, 4>>)],
  NoAVX2 <- 5, MoEGeneration <- <<5, 8>>, MoEPrompt <- <<4, 10>>, Margin <- 1, PerDoubling <- 1, MaxMargin <- 3

Row(id, name, gbs) ==
  [id |-> id, vendor |-> "amd", names |-> {name}, minVRAM |-> 0, maxVRAM |-> 0, cores |-> {}, gbs |-> gbs, rate |-> 0, bus |-> 0,
   efficiency |-> << >>, efficiencyCited |-> FALSE, prompt |-> << >>, promptCited |-> FALSE, source |-> "maker"]
Memory(low, high) == [id |-> "ram", names |-> {"cpu"}, low |-> low, high |-> high, source |-> "maker"]

(* Lists of rows, some of which are not taken.                             *)
GPULists == {<<Row("a", "xt", 40)>>, <<Row("a", "xt", 40), Row("b", "gre", 30)>>, <<Row("a", "xt", 10), Row("b", "gre", 30)>>,
             <<[Row("a", "xt", 40) EXCEPT !.minVRAM = 8, !.rate = 20, !.bus = 16], Row("b", "xt", 20)>>,
             <<[Row("a", "xt", 40) EXCEPT !.rate = 20, !.bus = 8]>>, <<Row("a", "xt", 40), Row("a", "gre", 30)>>,
             <<[Row("a", "xt", 40) EXCEPT !.efficiency = <<2, 3>>, !.efficiencyCited = TRUE]>>,
             <<[Row("a", "xt", 40) EXCEPT !.efficiency = <<0, 3>>, !.efficiencyCited = TRUE]>>,
             <<[Row("a", "xt", 40) EXCEPT !.prompt = <<9, 3>>, !.promptCited = TRUE]>>}
MemoryLists == {<<Memory(5, 10)>>, <<Memory(0, 10)>>, << >>}
SpeedTables == {[gpus |-> gpus, memory |-> memory] : gpus \in GPULists, memory \in MemoryLists}

GPUs == {[vendor |-> "amd", names |-> names, vram |-> vram, cores |-> {}] :
           names \in {{"xt"}, {"xt", "gre"}, {"new"}}, vram \in {{}, {8}}}
Plans == {[path |-> path, device |-> {g}, shared |-> FALSE, share |-> share] :
            path \in {"vulkan", "rocm"}, g \in GPUs, share \in {1, 3, 4}}
         \cup {[path |-> "vulkan", device |-> {[vendor |-> "amd", names |-> {"new"}, vram |-> {}, cores |-> {}]},
                shared |-> TRUE, share |-> 4],
               [path |-> "cpu", device |-> {}, shared |-> FALSE, share |-> 4]}
PC(avx2, cpu) == [x86 |-> TRUE, avx2 |-> avx2, unified |-> FALSE, cpu |-> cpu, primary |-> {}]
Mac(names) == [PC("unknown", {"cpu"}) EXCEPT !.x86 = FALSE, !.unified = TRUE, !.primary = {[vendor |-> "amd", names |-> names, vram |-> {}, cores |-> {}]}]
Computers == {PC("no", {"cpu"}), PC("unknown", {"cpu"}), Mac({"xt"}), Mac({"new"})}
Weight(size, moe) == [size |-> size, cache |-> 1, params |-> 2, moe |-> moe]
Weighed == {Weight(0, FALSE), Weight(0, TRUE), Weight(2, FALSE)}

Observed(label, path, size, tps) ==
  [label |-> label, path |-> path, size |-> size, params |-> 2, moe |-> FALSE, resident |-> TRUE, fill |-> 1, tps |-> tps, promptTPS |-> 0]
Benchmarks ==
  {<< >>} \cup {<<Observed("m", path, size, 3)>> : path \in {"vulkan", "cpu", "rocm"}, size \in {2}}
  \cup {<<[Observed("m", "vulkan", 2, 2) EXCEPT !.promptTPS = 9], Observed("m", "vulkan", 2, 5)>>,
        <<[Observed("m", "vulkan", 2, 2) EXCEPT !.resident = FALSE], Observed("m", "vulkan", 2, 5), Observed("n", "vulkan", 0, 7)>>,
        <<[Observed("e", "cpu", 2, 9) EXCEPT !.moe = TRUE], Observed("n", "cpu", 1, 2), Observed("o", "cpu", 3, 4)>>}
Speeds == {[table |-> table, m |-> m, pl |-> pl, model |-> model, obs |-> obs] :
             table \in {t \in SpeedTables : Sp!ValidTable(t)}, m \in Computers, pl \in Plans, model \in Weighed, obs \in Benchmarks}
ASSUME SpeedsAssumption == Sp!FiguresOK /\ \A i \in Speeds : Sp!AskedOK(i)

-----------------------------------------------------------------------------
Gr == INSTANCE Grades WITH Purposes <- {"chat", "coding", "agentic", "reasoning"}

Reads(purpose, prompt, thinking, wait) ==
  [purpose |-> purpose, mode |-> "read_along", prompt |-> {prompt}, thinking |-> thinking, stepPrompt |-> {}, stepOutput |-> {}, wait |-> wait]
Steps == [purpose |-> "agentic", mode |-> "per_step", prompt |-> {}, thinking |-> {}, stepPrompt |-> {10}, stepOutput |-> {6}, wait |-> <<2, 6, 14>>]
From(basis) == [basis |-> basis, source |-> IF basis = "public" THEN "study" ELSE "", trial |-> basis = "trial", settle |-> basis = "chosen"]
Needs(bars, wait) ==
  [words |-> 7, sources |-> {"study"}, entries |-> {From("public"), From("chosen")}, reading |-> <<84, 168, 336>>, bars |-> bars,
   purposes |-> <<Reads("chat", 2, {}, wait), Reads("coding", 20, {}, <<1, 5, 10>>), Steps, Reads("reasoning", 2, {12}, <<2, 4, 9>>)>>]
NeedTables == {Needs(bars, wait) : bars \in {<<"skimming", "reading", "listening">>, <<"reading", "reading", "listening">>,
                                              <<"listening", "reading", "skimming">>}, wait \in {<<1, 2, 3>>, <<3, 1, 2>>}}
              \cup {[Needs(<<"skimming", "reading", "listening">>, <<1, 2, 3>>) EXCEPT !.entries = {[From("public") EXCEPT !.settle = TRUE]}]}
Speeds1 == {1, 2, 4, 9}
Ranges == {[low |-> low, high |-> high, source |-> "estimated"] : low \in Speeds1, high \in {2, 4, 9}}
          \cup {[low |-> v, high |-> v, source |-> "measured"] : v \in Speeds1}
Ordered == {r \in Ranges : r.low <= r.high}
Graded == {[table |-> table, purpose |-> purpose, gen |-> gen, prompt |-> prompt] :
             table \in NeedTables, purpose \in {"chat", "coding", "agentic", "reasoning"}, gen \in Ordered,
             prompt \in {{}} \cup {{r} : r \in Ordered}}
ASSUME GradedAssumption == \A i \in Graded : Gr!GradedOK(i.table, i.gen, i.prompt)
GradedHolds(i) == Gr!GradeHolds(i.table, i.purpose, i.gen, i.prompt)

(* A test has up to three prompts, some of which were not timed.           *)
Timed(v) == {[low |-> v, high |-> v, source |-> "measured"]}
Prompts == {[tokens |-> tokens, rate |-> rate] : tokens \in {5, 10, 20}, rate \in {{}, Timed(2), Timed(9)}}
Suites == {<< >>} \cup {<<p>> : p \in Prompts} \cup {<<p, q>> : p \in Prompts, q \in Prompts}
          \cup {<<p, q, r>> : p \in Prompts, q \in Prompts, r \in Prompts}
Tested == {[table |-> table, purpose |-> purpose, gen |-> gen, suite |-> suite] :
             table \in {t \in NeedTables : t.bars[1] = "skimming"}, purpose \in {"chat", "coding", "agentic", "reasoning"},
             gen \in {r \in Ordered : r.low \in {2, 9} /\ r.high = 9},
             suite \in {s \in Suites : \A i, j \in DOMAIN s : i # j => s[i].tokens # s[j].tokens}}
ASSUME TestedAssumption == \A i \in Tested : Gr!GradedOK(i.table, i.gen, {}) /\ Gr!SuiteOK(i.suite)
TestedHolds(i) == Gr!VerdictHolds(i.table, i.purpose, i.gen, i.suite)

-----------------------------------------------------------------------------
MCPrompts == <<[id |-> "a", tokens |-> 2], [id |-> "b", tokens |-> 6], [id |-> "c", tokens |-> 12]>>
Be == INSTANCE BenchFigures WITH
  MinAnswer <- 4, SpreadNote <- 25, ShortShare <- 50, MaxCachedShare <- 20,
  Prompts <- MCPrompts, Completion <- 2, Margin <- 1, Warmups <- 1, Repeats <- 2, Unit <- 12, LoadFast <- 1, LoadSlow <- 6, Settle <- 24

Answer(genTokens, genMs) ==
  [promptTokens |-> 10, cached |-> {1}, promptMs |-> 100, genTokens |-> genTokens, genMs |-> genMs, ttft |-> {5}]
Usual == {Answer(16, 100), Answer(8, 100), Answer(16, 400), Answer(2, 20)}
AnswerSet ==
  Usual \cup
  {Answer(4, 20), Answer(0, 0), [Answer(16, 100) EXCEPT !.promptMs = 0],
   [Answer(12, 80) EXCEPT !.cached = {5}, !.promptMs = 50], [Answer(16, 100) EXCEPT !.cached = {}, !.ttft = {}, !.promptTokens = 12]}
TimedAnswers == UNION {[1..n -> AnswerSet] : n \in 1..3} \cup [1..4 -> Usual]
TimedHold(ts) == Be!TimingsHold(ts, 20)

Word(id, open) == [id |-> id, open |-> open]
Texts == {<<<<Word(1, TRUE), Word(2, FALSE)>>, << >>, <<Word(3, TRUE), Word(4, TRUE), Word(5, FALSE)>>>>,
          <<<<Word(1, TRUE)>>, <<Word(2, TRUE)>>, <<Word(3, TRUE)>>>>}
PromptSpecs == {[id |-> id, words |-> words, tokens |-> tokens] : id \in {"a", "b"}, words \in 0..5, tokens \in {2, 5}}
BenchSuites == {[version |-> "2", numbered |-> numbered, text |-> text, completion |-> 2, warmups |-> warmups, repeats |-> repeats, prompts |-> prompts] :
              numbered \in BOOLEAN, text \in Texts, warmups \in {1}, repeats \in {2},
              prompts \in {<<p>> : p \in PromptSpecs} \cup {<<p, q>> : p \in PromptSpecs, q \in PromptSpecs}}

-----------------------------------------------------------------------------
ListedFile(id, role) == [id |-> id, size |-> 1, role |-> role, present |-> TRUE, bytes |-> id, headerCtx |-> 9, sizeCtx |-> 16, params |-> 5]
ListsOfFiles == {<< >>, <<ListedFile(4, "model"), ListedFile(5, "projector")>>,
                 <<[ListedFile(6, "model") EXCEPT !.size = 2], [ListedFile(4, "model") EXCEPT !.headerCtx = 0],
                   [ListedFile(5, "projector") EXCEPT !.present = FALSE], ListedFile(7, "projector")>>}
Between(low, high) == [low |-> low, high |-> high]
SpeedRanges == {[gen |-> {}, prompt |-> {Between(2, 4)}], [gen |-> {Between(1, 3)}, prompt |-> {Between(2, 4)}],
                [gen |-> {Between(2, 2)}, prompt |-> {Between(4, 6)}], [gen |-> {Between(0, 2)}, prompt |-> {Between(4, 4)}]}
Plannings == {[ids |-> ids, ctx |-> ctx, file |-> file, list |-> list, vision |-> vision, category |-> category, speed |-> speed,
               told |-> [size |-> 3, ctx |-> told, counted |-> 0, named |-> 5]] :
                ids \in {{}, {"a", "c"}, {"b"}}, ctx \in {4, 9, 12, 15, 20}, file \in {0, 4}, list \in ListsOfFiles, vision \in BOOLEAN,
                category \in {"fits_gpu", "not_recommended"}, told \in {0, 5, 12}, speed \in SpeedRanges}
PlanningHolds(i) ==
  LET facts == Be!ModelFacts(i.file, i.list, i.vision, i.told)
      plan == Be!Plan(i.ids, i.ctx, facts, i.category, i.speed)
      asSuite == [numbered |-> TRUE, text |-> << >>, warmups |-> 1, repeats |-> 2]
      run == [n \in DOMAIN plan.run |-> [words |-> 0]]
  IN Be!PlanHolds(i) /\ (plan.run # << >> => plan.requests = Len(Be!Requests(asSuite, run)))

-----------------------------------------------------------------------------
Re == INSTANCE BenchRecords WITH Hardware <- <<"this", "this", "other">>, GraphicsPaths <- {"cuda"}, CacheTypes <- {"f16"}

Result(prompt, tokens, gen) == [prompt |-> prompt, promptTokens |-> tokens, genTokens |-> 4, gen |-> gen, read |-> {9}, ttft |-> {}]
Ran(profile, results) ==
  [id |-> 0, status |-> "done", results |-> results, vram |-> {3}, resident |-> "gpu", size |-> 4, sizeVRAM |-> 4, finished |-> {1}, facts |-> 2,
   headline |-> Re!Headline(results).headline, gen |-> Re!Headline(results).gen, read |-> Re!Headline(results).read,
   ttft |-> Re!Headline(results).ttft,
   config |-> [profile |-> profile, backendVersion |-> "1", path |-> "cuda", model |-> "m", digest |-> "d", quant |-> "q", weights |-> 4,
               file |-> 1, ctx |-> 8, effective |-> 8, kv |-> "f16", fa |-> TRUE, faKnown |-> TRUE, parallel |-> 1, suite |-> "2"]]
Full == <<Result("a", 2, {}), Result("b", 6, {5}), Result("c", 12, {4})>>
RunKinds ==
  {Ran(1, Full), [Ran(2, Full) EXCEPT !.resident = "split", !.sizeVRAM = 2], Ran(3, Full),
   [Ran(1, <<Result("a", 2, {7})>>) EXCEPT !.config.digest = "", !.config.faKnown = FALSE, !.config.effective = 0],
   [Ran(2, Full) EXCEPT !.config.path = "", !.resident = "unknown", !.size = 0, !.sizeVRAM = 0, !.vram = {}],
   [Ran(1, Full) EXCEPT !.config.path = "cpu", !.resident = "cpu", !.sizeVRAM = 0, !.vram = {}],
   [Ran(1, <<Result("a", 2, {})>>) EXCEPT !.config.file = 0], [Ran(1, Full) EXCEPT !.status = "failed"],
   [Ran(2, <<Result("a", 2, {6})>>) EXCEPT !.config.digest = "e", !.config.file = 2], [Ran(1, Full) EXCEPT !.config.kv = "unknown", !.config.ctx = 4]}
Histories == {[i \in DOMAIN h |-> [h[i] EXCEPT !.id = i]] : h \in UNION {[1..n -> RunKinds] : n \in 1..3}}
ASSUME HistoriesAssumption == \A h \in Histories : Re!RunsOK(h)

-----------------------------------------------------------------------------
Sa == INSTANCE Sampler WITH Kilo <- 2, Latest <- [n \in {"m"} |-> "m:latest"]

Fitted(vendor, integrated) == [vendor |-> vendor, integrated |-> integrated]
Found(name, card) == [name |-> name, card |-> card, vram |-> {1}, busy |-> {}, gtt |-> {}, hwmon |-> << >>]
Host(os, gpus, smi, unified, cards) ==
  [os |-> os, gpus |-> gpus, smi |-> smi, unified |-> unified, cards |-> cards, runtime |-> TRUE, ours |-> "m:latest"]

GraphicsLists == {<< >>, <<Fitted("nvidia", FALSE)>>, <<Fitted("amd", FALSE)>>, <<Fitted("intel", TRUE), Fitted("nvidia", FALSE)>>}
Hosts == {h \in {Host(os, gpus, smi, FALSE, cards) :
                  os \in {"windows", "linux"}, gpus \in GraphicsLists, smi \in BOOLEAN,
                  cards \in {<< >>, <<Found("card1", TRUE), Found("card1-DP-1", FALSE)>>}} :
            (h.cards # << >> => h.os = "linux") /\ (h.smi => \E i \in DOMAIN h.gpus : h.gpus[i].vendor = "nvidia")}
         \cup {Host("darwin", <<Fitted("apple", TRUE)>>, FALSE, TRUE, << >>), Host("darwin", <<Fitted("amd", FALSE)>>, FALSE, FALSE, << >>),
               [Host("linux", <<Fitted("amd", TRUE)>>, FALSE, FALSE, << >>) EXCEPT !.runtime = FALSE]}

SmiLine(device, fields, mib) == [device |-> device, fields |-> fields, util |-> {mib}, mib |-> {mib}, temp |-> {40 + mib}, power |-> {}]
Silent == [smi |-> {}, cards |-> << >>, memory |-> {}, utils |-> {}, models |-> {}]
Pages(active) == [page |-> {4}, wired |-> {active}, active |-> {active}, compressed |-> {}, total |-> {9}, available |-> {9 - active}]
Loaded(name) == [name |-> name, vram |-> 3]

\* At rest, loaded and after, and readings some tool did not give.
AnswersOn(n) ==
  [smi |-> {<<SmiLine("0", 5, n), [SmiLine("1", 5, n + 1) EXCEPT !.util = {}, !.power = {2 * n}]>>},
   cards |-> <<[Found("card1", TRUE) EXCEPT !.vram = {2 * n}, !.busy = {n}, !.gtt = {5 - n},
                  !.hwmon = <<[temp |-> {50}, average |-> {}, input |-> {n}]>>]>>,
   memory |-> {Pages(n)}, utils |-> {n, 1}, models |-> {<<Loaded("m")>>}]
AtRest ==
  {AnswersOn(1), AnswersOn(3), [AnswersOn(2) EXCEPT !.models = {<<Loaded("m"), Loaded("n")>>}],
   [AnswersOn(2) EXCEPT !.smi = {<<SmiLine("0", 4, 2)>>}, !.cards[1].vram = {}, !.models = {<< >>}, !.memory = {[Pages(2) EXCEPT !.available = {}, !.wired = {}]}],
   Silent}
AnswerKinds == AtRest \cup {[AnswersOn(4) EXCEPT !.models = {<<Loaded("o"), Loaded("m:latest")>>}]}
Sampling == {[m |-> m, answers |-> <<a, b, c>>, from |-> from, resident |-> IF from = 2 THEN "gpu" ELSE "split"] :
               m \in Hosts, a \in AtRest, b \in AnswerKinds, c \in AnswerKinds, from \in {2, 3}}
SamplingHolds(i) == Sa!SamplerHolds(i.m, i.answers, i.from, i.resident)
-----------------------------------------------------------------------------
Lo == INSTANCE LoadReports WITH OnGraphics <- {"cuda", "rocm", "vulkan"}, MaxLog <- 9

Load(on, cache, flash, parallel) == [on |-> on, of |-> 2, cache |-> cache, flash |-> flash, ctx |-> 4, parallel |-> parallel]
LoadSet == {Load(on, cache, flash, parallel) : on \in 0..2, cache \in {"f16", "q8_0"}, flash \in BOOLEAN, parallel \in {1, 2}}
\* A log that was replaced is noticed by its being shorter; the check of the
\* runtime asks the first model listed, so another one is first only where
\* the log is there to tell.
LoadWorlds ==
  {w \in [loads : {<<l>> : l \in LoadSet} \cup {<<k, l>> : k \in LoadSet, l \in LoadSet}, verbose : BOOLEAN, server : {"cuda", "vulkan"},
          earlier : {<< >>, <<Lo!Began("rocm")>> \o Lo!Written(Load(2, "f16", TRUE, 1), "rocm")},
          log : {"kept", "replaced", "gone", "none"}, journal : BOOLEAN, list : {"none", "ours", "over", "other"}] :
     /\ w.journal => w.log = "none"
     /\ w.log = "replaced" => w.earlier # << >> /\ Len(w.loads) = 1
     /\ w.list \in {"over", "other"} => w.verbose /\ (w.log \in {"kept", "replaced"} \/ w.journal)}
=============================================================================
