---------------------------- MODULE BenchRecords ----------------------------
(***************************************************************************)
(* A benchmark's runs as they are stored, read back, compared and used:    *)
(* the row of a run, the key that says which runs measured the same thing, *)
(* and what the runs of a computer tell the estimator                      *)
(* (internal/bench/evidence.go and harness.go, internal/store/bench.go).   *)
(*                                                                         *)
(* A column that may be NULL is a set, empty or of one value.              *)
(***************************************************************************)
EXTENDS Naturals, Sequences, FiniteSets, SequencesExt, FiniteSetsExt

CONSTANTS
  Hardware,       \* the fingerprint of each hardware profile, one per start
  GraphicsPaths,  \* the paths that use the graphics
  CacheTypes      \* the cache types the estimator knows

PathOf(path) == IF path = "" THEN "unknown" ELSE path
Known(path) == path \in GraphicsPaths \cup {"cpu"}

\* As if the last did.
HeadlineOfLast(results) == LET found == SelectSeq(results, LAMBDA r : r.gen # {}) IN IF found = << >> THEN {} ELSE {Last(found)}
\* The shortest prompt with an answering speed stands for the run.
HeadlineResult(results) == LET found == SelectSeq(results, LAMBDA r : r.gen # {}) IN IF found = << >> THEN {} ELSE {found[1]}
Headline(results) ==
  LET head == HeadlineResult(results)
      Its(Field(_)) == UNION {Field(r) : r \in head}
  IN [headline |-> {r.prompt : r \in head}, gen |-> Its(LAMBDA r : r.gen), read |-> Its(LAMBDA r : r.read), ttft |-> Its(LAMBDA r : r.ttft)]

-----------------------------------------------------------------------------
(* A run, and its row.                                                     *)

\* RunConfig.Key: all that decides whether two runs measured the same thing.
ModelOf(c) == IF c.digest # "" THEN <<c.digest>> ELSE <<c.model, c.quant, c.weights>>
Flash(c) == IF c.faKnown THEN IF c.fa THEN "true" ELSE "false" ELSE "unknown"
KeyWithoutPath(c) == <<Hardware[c.profile], c.backendVersion, ModelOf(c), c.ctx, c.kv, Flash(c), c.parallel, c.suite>>
Key(c) == <<Hardware[c.profile], c.backendVersion, PathOf(c.path), ModelOf(c), c.ctx, c.kv, Flash(c), c.parallel, c.suite>>

Positive(n) == {v \in {n} : v > 0}
Row(run) ==
  [id |-> run.id, status |-> run.status, config |-> run.config, path |-> PathOf(run.config.path), kv |-> run.config.kv,
   file |-> Positive(run.config.file), effective |-> Positive(run.config.effective), key |-> Key(run.config),
   results |-> run.results, headline |-> run.headline, gen |-> run.gen, read |-> run.read, ttft |-> run.ttft,
   vram |-> run.vram, resident |-> run.resident, size |-> Positive(run.size),
   sizeVRAM |-> IF run.size > 0 THEN {run.sizeVRAM} ELSE {}, finished |-> run.finished, facts |-> run.facts]

Finished(status) == status \in {"done", "failed", "cancelled"}
\* The columns of the configuration stand over the copy beside them.
FromRow(row) ==
  LET head == Headline(row.results) IN
  [id |-> row.id, status |-> row.status, phase |-> IF Finished(row.status) THEN "finished" ELSE "measuring",
   config |-> [row.config EXCEPT !.path = row.path, !.kv = row.kv],
   results |-> row.results, headline |-> IF row.headline # {} THEN row.headline ELSE head.headline,
   gen |-> head.gen, read |-> head.read, ttft |-> head.ttft, vram |-> row.vram, resident |-> row.resident,
   size |-> SumSet(row.size), sizeVRAM |-> SumSet(row.sizeVRAM), finished |-> row.finished, facts |-> row.facts]

\* Rows newest first, narrowed by what is asked; the store's rows are in the
\* order of their ids.
BenchRuns(rows, Asked(_), limit) ==
  LET found == SelectSeq(Reverse(rows), Asked) IN SubSeq(found, 1, Min({limit, Len(found)}))

-----------------------------------------------------------------------------
(* What a run is compared with, and what a plan shows as already measured. *)
Comparison(rows, run) ==
  LET before == BenchRuns(rows, LAMBDA r : r.key = Key(run.config) /\ r.status = "done" /\ r.id < run.id, 1) IN
  IF run.gen = {} \/ before = << >> THEN {}
  ELSE {[run |-> before[1].id, gen |-> v, faster |-> \E w \in run.gen : w > v] : v \in {x \in before[1].gen : x > 0}}

\* A plan knows the machine, the runtime, the model, the context and the
\* suite; the rest is only known after a load.
LastMeasured(rows, c) ==
  LET Same(r) == /\ r.gen # {} /\ r.config.ctx = c.ctx /\ r.config.suite = c.suite /\ r.config.backendVersion = c.backendVersion
                 /\ (c.digest # "" /\ r.config.digest # "" => r.config.digest = c.digest)
      found == SelectSeq(BenchRuns(rows, LAMBDA r : Hardware[r.config.profile] = Hardware[c.profile] /\ r.config.model = c.model
                                                    /\ r.status = "done", 50), Same)
  IN IF found = << >> THEN {} ELSE {found[1].id}

-----------------------------------------------------------------------------
(* The estimates that measurements replaced, one per profile, file,        *)
(* context, cache and path, written at the end of each run in its turn.    *)
\* As if a run whose path is not known measured something.
MeasuresAnyPath(run) == run.status = "done" /\ run.gen # {} /\ run.config.file # 0 /\ run.config.kv \in CacheTypes
Measures(run) == run.status = "done" /\ run.gen # {} /\ run.config.file # 0 /\ run.config.kv \in CacheTypes /\ Known(run.config.path)
Configuration(c) == [file |-> c.file, ctx |-> c.ctx, kv |-> c.kv, path |-> c.path]

\* As if a measurement were only ever kept the first time.
UpsertOnce(estimates, e) ==
  IF \E i \in DOMAIN estimates : estimates[i].profile = e.profile /\ estimates[i].of = e.of THEN estimates ELSE Append(estimates, e)
Upsert(estimates, e) ==
  LET same == {i \in DOMAIN estimates : estimates[i].profile = e.profile /\ estimates[i].of = e.of} IN
  IF same = {} THEN Append(estimates, e) ELSE [i \in DOMAIN estimates |-> IF i \in same THEN e ELSE estimates[i]]
WriteBack(estimates, run) ==
  IF ~Measures(run) THEN estimates
  ELSE Upsert(estimates, [profile |-> run.config.profile, of |-> Configuration(run.config), run |-> run.id])
WrittenBack(runs) == FoldLeft(WriteBack, << >>, runs)

\* Of each configuration on the hardware, whichever start it was measured in,
\* the one last written.
MeasuredEstimates(estimates, fingerprint) ==
  LET here == {e \in ToSet(estimates) : Hardware[e.profile] = fingerprint}
  IN {e \in here : \A f \in here : f.of = e.of => f.run <= e.run}

MeasurementOf(e, row) ==
  [of |-> e.of, run |-> e.run, gen |-> SumSet(row.gen), read |-> SumSet(row.read),
   peak |-> IF row.resident = "gpu" THEN SumSet(row.vram) ELSE 0]
ResidentOn(path, resident) == (path \in GraphicsPaths /\ resident = "gpu") \/ (path = "cpu" /\ resident = "cpu")
ObservationOf(row, head) ==
  [run |-> row.id, path |-> row.path, resident |-> ResidentOn(row.path, row.resident), kv |-> row.kv,
   fill |-> head.promptTokens + head.genTokens \div 2, gen |-> SumSet(head.gen), read |-> SumSet(head.read)]

Evidence(rows, estimates, fingerprint) ==
  LET ById(id) == CHOOSE r \in ToSet(rows) : r.id = id
      done == BenchRuns(rows, LAMBDA r : Hardware[r.config.profile] = fingerprint /\ r.status = "done", 200)
      useful == SelectSeq(done, LAMBDA r : r.gen # {} /\ Known(r.path) /\ r.facts > 0 /\ HeadlineResult(r.results) # {})
  IN [measured |-> {MeasurementOf(e, ById(e.run)) : e \in {x \in MeasuredEstimates(estimates, fingerprint) : ById(x.run).gen # {}}},
      observations |-> [i \in DOMAIN useful |-> ObservationOf(useful[i], CHOOSE h \in HeadlineResult(useful[i].results) : TRUE)]]

-----------------------------------------------------------------------------
(* Claims of the runs of a computer, in the order they ended.              *)
\* What such runs are: numbered in that order, each on a path that is known or
\* not, with the figures of its results.
RunOK(run) ==
  /\ DOMAIN run = {"id", "status", "config", "results", "headline", "gen", "read", "ttft", "vram", "resident", "size",
                   "sizeVRAM", "finished", "facts"}
  /\ DOMAIN run.config = {"profile", "backendVersion", "path", "model", "digest", "quant", "weights", "file", "ctx",
                          "effective", "kv", "fa", "faKnown", "parallel", "suite"}
  /\ run.config.path \in GraphicsPaths \cup {"cpu", "", "unknown"}
  /\ run.id \in Nat /\ run.size \in Nat /\ run.sizeVRAM \in Nat /\ (run.size = 0 => run.sizeVRAM = 0)
  /\ Headline(run.results) = [headline |-> run.headline, gen |-> run.gen, read |-> run.read, ttft |-> run.ttft]
RunsOK(runs) ==
  /\ {"", "unknown"} \cap GraphicsPaths = {}
  /\ runs \in Seq(ToSet(runs)) /\ \A run \in ToSet(runs) : RunOK(run)
  /\ \A i, j \in DOMAIN runs : i < j => runs[i].id < runs[j].id

Rows(runs) == [i \in DOMAIN runs |-> Row(runs[i])]
RowOf(runs, id) == Row(CHOOSE r \in ToSet(runs) : r.id = id)

\* A run reads back as it was stored, and the speed it is shown with is the
\* one it is compared and counted by.
ReadsBack(run) ==
  LET back == FromRow(Row(run)) IN
  /\ [f \in DOMAIN run \ {"config"} |-> back[f]] = [f \in DOMAIN run \ {"config"} |-> run[f]]
  /\ back.config = [run.config EXCEPT !.path = PathOf(@)]
  /\ Key(back.config) = Key(run.config) /\ back.gen = Row(run).gen

\* Runs are compared when all of their configuration is the same, with the
\* latest before; and what a run would be compared with, a plan of the same
\* configuration shows, or a later one.
SameIsCompared(runs) ==
  \A r \in ToSet(runs) :
    LET before == {q \in ToSet(runs) : q.id < r.id /\ q.status = "done" /\ Key(q.config) = Key(r.config)}
        shown == LastMeasured(Rows(runs), r.config)
    IN /\ \A c \in Comparison(Rows(runs), r) :
            /\ \E q \in before : q.id = c.run /\ q.config.path = r.config.path /\ q.config.fa = r.config.fa
            /\ \A q \in before : q.id <= c.run
       /\ \A q \in before : q.gen # {} /\ q.config.model = r.config.model => \E id \in shown : id >= q.id
       /\ \A id \in shown : RowOf(runs, id).gen # {} /\ Hardware[RowOf(runs, id).config.profile] = Hardware[r.config.profile]

\* Of every configuration measured on this hardware, in whichever start, the
\* latest measurement is what counts, and only a configuration that can be
\* asked about has one; its memory only when all of it was on the graphics.
LatestCounts(runs, fingerprint) ==
  LET measured == Evidence(Rows(runs), WrittenBack(runs), fingerprint).measured
      here == {r \in ToSet(runs) : Hardware[r.config.profile] = fingerprint /\ r.status = "done" /\ r.gen # {}
                                   /\ r.config.file # 0 /\ r.config.kv \in CacheTypes /\ r.config.path \notin {"", "unknown"}}
      latest == {r \in here : \A q \in here : Configuration(q.config) = Configuration(r.config) => q.id <= r.id}
  IN /\ {[of |-> m.of, run |-> m.run, gen |-> m.gen] : m \in measured}
          = {[of |-> Configuration(r.config), run |-> r.id, gen |-> SumSet(r.gen)] : r \in latest}
     /\ \A m \in measured : m.peak > 0 => RowOf(runs, m.run).resident = "gpu"

\* What the rest is calibrated by is the speed of the shortest prompt timed,
\* and counts as a whole model's only where all of it ran where its path says.
ObservationsAreWhole(runs, fingerprint) ==
  LET seen == Evidence(Rows(runs), << >>, fingerprint).observations IN
  \A i \in DOMAIN seen :
    LET row == RowOf(runs, seen[i].run)
        first == {n \in DOMAIN row.results : row.results[n].gen # {} /\ \A k \in 1..(n - 1) : row.results[k].gen = {}}
    IN /\ \A n \in first : row.results[n].gen = {seen[i].gen} /\ seen[i].fill >= row.results[n].promptTokens
       /\ seen[i].resident => row.resident \in {"gpu", "cpu"} /\ (row.resident = "cpu" <=> seen[i].path = "cpu")
       /\ \A j \in DOMAIN seen : i < j => seen[i].run > seen[j].run

RecordsHold(runs) ==
  /\ \A i \in DOMAIN runs : ReadsBack(runs[i])
  /\ SameIsCompared(runs)
  /\ \A f \in {Hardware[p] : p \in DOMAIN Hardware} : LatestCounts(runs, f) /\ ObservationsAreWhole(runs, f)
=============================================================================
