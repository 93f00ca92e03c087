# TLA+ for the local LLM advisor

Specifications of the parts of this program whose correctness depends on the
order of events (benchmarks and what follows them, downloads, installs, the
catalogue's refresh and the requests it is made of, the inventory, the public
sources, the new-model watch, several processes on one database) and of the
calculations behind its advice (the machine, a model's files, fit, speed, grades,
figures, recommendations). Each module is written from the source; the comment
on an action or operator names the function it stands for, and `PROJECT.json`
("map") gives the lines. TLC checks small instances; TLAPS proves the theorems
below for every value of the constants.

    tlc -workers 2 -config BenchHarness_safety.cfg MCBenchHarness.tla
    tlc -workers 2 -config Rules.cfg MCRules.tla
    tlapm JobProofs.tla

## The system

One daemon (`cmd/advisor/main.go`) serves a React UI over HTTP, keeps one SQLite
database and talks to a local runtime (Ollama) and to the Hugging Face Hub. Every
lock is in memory; what survives a stop is the database alone. Commands open the
same database.

| Component | State | Operations | What makes it correct |
|---|---|---|---|
| benchmark harness (`internal/bench/harness.go`, `evidence.go`, `store/bench.go`) | `h.active`, the run's flags and counters, rows of `benchmark_runs` and `estimates` | Start, Cancel, the run's goroutine (execute, finish), Recover at start | one run at a time; the rows and memory tell one story; a cancel is never reported as a failure; only a completed run replaces an estimate |
| progress stream (`harness.go` Subscribe, broadcast; `server/bench.go`) | subscribers and their bounded channels, the published progress | subscribe, publish, sampler tick, unsubscribe | the last event reaches every reader; nothing is sent on a closed channel; progress never goes back; a slow reader holds nobody |
| unloading (`harness.go` unload) | deadline, readings in a row | poll Running, ask Unload, sleep | "unloaded" is true and stays true; the loop ends in time for what follows |
| benchmark statistics (`bench/sampler.go`, `stats.go`, `suite.go`, `plan.go`, `evidence.go`) | readings, stored runs | choose tools, sample, summarise, plan, compare | a figure is of what was measured; doubts are said; what is timed fits the context; runs are compared with their like |
| downloads (`server/pull.go`) | one status, the pull it is about, a done channel | start, progress, cancel and wait, poll | one download; a status that says running has a pull behind it; a cancel answers with an end |
| installs (`server/install.go`) | a status per runtime | start, progress, end | one install per runtime; ended ones can be started again |
| catalogue refresh (`server/catalog.go`, `catalog/refresh`) | two locks, the progress shown, rows and files per size | API refresh (detached), watch refresh, public half | one refresh at a time; a failed or stopped refresh leaves every size whole and never older |
| Hub client and GGUF (`catalog/hf`, `catalog/gguf`) | validators, cached headers | listing, ranged reads, waits and retries; the header's parse | a row is of one revision; a busy Hub is not an absent one; a header that is cut is told from a whole one |
| catalogue files, matching (`catalog/load.go`, `files.go`, `layout.go`, `match.go`) | the list, its rows | validate, sync, group a listing, lay out a model, match | a valid list has a row and a match for each size; a file set is whole; a layer is counted once |
| inventory (`server/backend.go`, `remove.go`, `store/models.go`) | rows of installed models and their matches | check, remove, map | it comes to agree with the runtime; a removal is seen |
| public sources (`catalog/external`, `store/external.go`) | rows per part, validators and errors per request, a state per source | read what is due, with conditional requests, retries and a deadline; rank, show, weigh | a partly read source stays due; "not modified" is only believed of rows as new; the best result stands for a model |
| parquet readers (`catalog/parquet`) | none | footer, pages, codecs | what a writer wrote is read; a file that lost something is refused |
| new-model watch (`server/watch.go`, `internal/watch`) | running flag, settings rows, `watch_state`, `watch_runs` | scheduled run, asked-for run, settings PUT | no two runs; nothing notified twice or lost |
| hardware detection (`internal/hardware`) | none | probes of three systems, support rules, classes, budget, fingerprint | each card once and truly; the budget of the best card |
| fit and speed estimates (`internal/estimate`) | none | Place, FitPlaced, speed, calibration | a category does what its name says; more memory is never worse; a measurement narrows a speed and is inside it |
| recommendation engine, grades, verdicts (`internal/recommend`) | none of its own; reads the machine, the catalogue, the inventory and measurements | Recommend, grade, verdict | nothing better than what is shown is left out; what the user ruled out stays out; a grade is earned at both ends of a range |
| store, processes (`internal/store`, `cmd/advisor/main.go`) | the database | migrations, start, recover, commands | each migration once, whoever opens; no run says running for ever |
| UI (`ui/src`) | what the screen has | follow a test, start, cancel | the screen shows the test it follows, and its end |
| load reports (`backend/ollama/loadreport.go`) | the runtime's log | mark, read, merge with the list of loaded models | what is recorded of a load is of that load |
| server's other handlers, installers, tray, autostart, updates | what the system says | read and render | I/O and presentation |

How they interact. A benchmark's goroutine publishes to its streams, which the
screen follows; asks the runtime to unload; and its end writes the estimates that
recommendations read. A watch run does a catalogue refresh through the API's lock,
then asks the recommendation engine about each size. Downloads, removals, checks
and the refresh all rewrite the inventory and its matches. The engine asks the
estimates about each file; they rest on what hardware detection and the last load
said of the machine. Handlers poll the trackers' status under the same locks as the
goroutines that write it. A second process, daemon or command, sees only the
database.

The hard behaviours, each listed with its line under "hazards" in `PROJECT.json`:
goroutines detached from the request that started them; locks released while a
caller waits; a check and a reservation with work between them; a deadline shared
by a slow call and the writes that follow; a stop of the daemon between two writes;
several writes that are no transaction; bounded channels with a slow reader; state
read at the start of a run of minutes and used at its end; answers that come late;
caches filled by a read that failed afterwards; two processes on one file; and
calculations whose inputs come in any order, incomplete, or from another time.

## The modules

### Benchmarks

`BenchLedger` is what the harness promises the rest of the program: each run is
absent, then running, then ended for good, and at most one is running. `BenchHarness`
is the harness itself. Its actions follow the goroutines: `StartCheck`,
`StartFails`, `StartRun` are the halves of Start around the plan made without the
lock; `CancelFind` to `CancelGivesUp` are the steps of Cancel; `Prepared` to
`Measured` are execute, one action per request or critical section, `Fails` any
error; `ReadCancelled`, `Unloaded`, `WriteBack`, `FinalSave`, `Publish`,
`ClearActive`, `CloseDone` are finish in its order. `Crash` stops the daemon anywhere
and `Recover` is the next start. `View` is the memory of the active run and the row
of any other, and `LedgerSpec` says that these views implement `BenchLedger`.

`ProgressStream` is one run's fan-out: the run and its sampler publish under `a.mu`
(`mu`), a broadcast reaches each channel in turn (`Deliver`, `DropOldest`), and a
reader is the handler streamBench with its own find, register, read and unsubscribe.
`TestScreen` is the other end: `followBench`'s stream and the polls that replace it
when it is quiet or breaks, with the callbacks as actions that may come after the
test ended or another was started, and the screen's start and cancel. It knows of the
daemon how far a test is, and whether its end was stored: both modules let finish's save
fail, which is only logged (`SaveRow`, `TestScreen.EndsAt`), so that the row of an ended run
says running. A client that comes after the end is then sent that row (`SendStored`), or an
error if the store cannot be read (`StoreUnread`); and a cancel whose wait runs out is
answered with the test as it stands (`Cancelled`, `outwaited`). `UnloadLoop` is the loop in discrete time, in both its uses:
after a run, under finish's deadline, and before one, under a context the user may
cancel; the runtime may be loading, or still freeing, the model.

`Sampler` (tools, readings, what a run took), `BenchFigures` (suite, plan, medians and
doubts of timed requests), `BenchRecords` (rows, keys of configurations, what counts
as measured) and `LoadReports` (the log's lines, the list of loaded models, and what
a run records of both) are the calculations around a run.

### Jobs, catalogue and watch

`JobSlot` is the promise of a tracker: idle, then jobs one after the other, each
ending once. `PullTracker` and `InstallTracker` implement it, the second once per
runtime. In `PullTracker` a cancel request finds the pull, cancels it, waits with the
lock released, and answers. `MCJobs` runs `UnloadLoop`, `PullTracker`,
`InstallTracker`, `ProgressStream` and `TestScreen`, which share no state: a behaviour
is of one of them.

`CatalogRefresh` has the API's refresh (a goroutine that outlives its request) and
the watch's, the two locks, the sizes one after the other with the transaction each
ends in, failures, and the stop. What it does for one size is `HubReading`: the
listing with the validator that is stored, the headers by ranges at the listing's
commit, waits and retries of each request (`attempt`), the two caches, and the row
that is stored when everything is read. An attempt fails when nobody answers (`silent`
counts those) or when each redirect leads to another (`sentOn`), which `do` cannot tell
apart. `Inventory` has the checks of the runtime, the
removals and `MapInstalled`, each a sequence of statements of its own, over one table.
`MCCatalogue` runs the refresh and the inventory, `MCHub` the reading.

`ModelFiles` is what is made of a listing (which files are one model, which are
projectors) and of a header (what each layer keeps in memory), `GGUF` the header's
parse over a file that arrives in ranges and may be cut, `Matching` the match of an
installed name, `Curated` the list's validation and its rows from one edition to the
next.

`PublicSources` follows one source of `external.Run`, any of the three: whether it is
due, the requests of its client with the results `Fetcher.Get` can have after its
attempts (`GetResult`), the rows of each part replaced in a transaction and the
validator stored after them, the deadline, and a stop or store failure that ends the
run between two writes. A revision stands for an answer, and rows are the revision and
the configuration they come from; the configuration is embedded in the program, so it
changes between runs. The three sources differ in which failure ends the source and
which only a part, and the module keeps those differences. What the answers say is in
`PublicValues`: which result of several stands, how one read replaces another, places,
and what moves a recommendation. `Parquet` is the reader of the boards' files against
a writer that may choose any layout the reader takes.

`ModelWatch` is one run of the watch in the order of its reads, notifications and
writes, the two callers, the settings PUT as the two writes it is, failing reads and
writes, and the stop. Its refresh is `CatalogRefresh`, one step.

### Advice

`Probes` reads the tools and files of the three systems, `Devices` derives which card
counts, what each is expected to run with, the class and the fingerprint. `Placement`
is where the estimates then place a model: the graphics, memory they share, or the
processor, from what the runtime was seen to do or the support rules expect. `Fit` is
one file at one context on one placement: what is on the device, what stays in system
memory, whether it fits whole, at a shorter context or split by layers. `Speeds` is
the range of speeds, by the table of parts or by the machine's own benchmarks, and
`Grades` what a speed is good for. All are operators over records of numbers.

`Recommend` is one user of `GET /api/recommend`: `Ask` is a request, `Answer` the
handler. `Advice` is `Engine.Recommend` in its order: placement and the answers
without cards, the two passes over the catalogue (`Candidates`), the ranking, the
current model (`Current`), and the loop that keeps one card per family and drops what
changes nothing (`Keep`). A ranking is each card at the place that the number of cards
ahead of it gives. A score is the square of the code's, so that it is a whole
number: the weights of its factors are halves. Speeds are in tenths, the middle of the
code's range. `MCRecommend` has the machines, files, inventories and requests.

`MCRules` picks one calculation and one input of it (`RuleInputs` has the inputs that
take space): a state is an input, and each invariant of the run is what is claimed of
one group of calculations. The assumptions of `RuleInputs` (`GradedAssumption`,
`SpeedsAssumption`) are the hypotheses of the theorems about grades and speeds, so that
every run evaluates them for its inputs. A value that may be missing is a set of at most one, text is
a name that stands for itself, and what the code parses out of a line is what a
pattern read there.

### Processes

`Daemons` is the program started several times over one database: opening and
migrating version by version (`recorded`, `tables`), of two builds; recovering; the
hardware found and the runtime's check, which end in any order; a run in progress; and
commands. A fault is a stop while migrating or a new graphics card.

## The runs

| Run | Shows |
|---|---|
| `bench_safety` | two clients, two runs, one stop: one run at a time; a row says running only of the active run; a cancelled run never ends as failed for its cancelled context; Cancel answers with the end that is stored; refinement of `BenchLedger` |
| `bench_work` | up to three prompts timed twice each, skipped, too long or failing, and writes that fail: the step counter ends at its total; only completed runs replace estimates; a cancelled run frees the harness |
| `jobs` | a confirmed unload is true, and the loop returns; a status that says running has a pull that ends it, and a cancel is told of the pull it found or a newer one; both trackers refine `JobSlot`; a cancelled pull and an install end; streams that were subscribed end with the run's end, stored or not; their events never go back, they end and hold nobody; the screen has only the progress of the test it follows, and comes to show its end without a stream too |
| `unload_numbers` | violated with the code's own numbers: see Findings |
| `catalogue` | API and watch, two sizes, two revisions, one stop: no size goes back and no row is half of one revision; a refresh ends with nobody waiting. Two tasks of any kind, two changes outside: the inventory comes to agree with the runtime for good, and a removal is seen |
| `hub` | two sizes of two files, three revisions, two faults: a row is of one revision, header by header; sizes are given up only when each attempt of a request met silence or redirects without end; the newest revision is shown in the end |
| `watch` | two sizes, one repository, one fault, one stop, two PUTs: nothing remembered is shown again; what keeps qualifying is notified |
| `watch_once` | violated: see Findings |
| `sources` | each source, two parts, two revisions, two configurations, one fault, one stop: a validator never vouches for older rows; a failed part keeps the source due; every part catches up |
| `recommend` | forty machines, seven files, inventories and requests of each kind: categories keep their word; the engine and the fit screen find the same context; more memory never gives a worse category; the cards are the best of what was considered |
| `daemons` | two processes, two builds, two faults: the database fits whoever works with it; a path seen on one card is not the answer for another; a daemon always comes to serve again; a dead run does not say running for ever |
| `rules` | 136,000 inputs of the calculations, one group of claims for each of catalogue, hardware, figures, benchmarks, tables and public values |

Bounds. Two clients are enough for every race of the harness, since each critical
section involves one other party: a third repeats a role. Two runs (`MaxRuns`) let a
run start while its predecessor is between its stored end and its slot's release. One
prompt suffices in `bench_safety` because prompts touch only counters, which
`bench_work` takes to three, timed twice. One stop is followed by a start and another
run; two stops in a row differ from one only before `Recover`, which is a single step.
Buffers of one fill with the second event, so every drop and the last event's arrival
at a full buffer occur. `UnloadLoop`'s units are half seconds: its numbers keep the
order between poll, call and deadline and make each call able to straddle either;
`unload_numbers` has the code's own. In `TestScreen` two tests let the first's late
answers meet the second, two polls on their way let the later be answered first, and
two failures let the read after a failed poll fail too; what a third test adds (below,
under UI) is covered by the proof, which bounds none of them.

In `PublicSources` two parts let one fail and the other be read, a second revision
makes a validator old, a second configuration may drop or add a part; one failure and
one stop may each fall in any run. Two sizes let a refresh fail or stop between them.
In `HubReading` the first file changes with each revision and the second stays, so both
caches hit and miss; one content lacks a key; two attempts and two faults let a request
fail for good or recover, with each mix of silence, redirects and waits. In `Inventory` every state of a row is
two tasks and a change away: the tasks interleave statement by statement. In
`ModelWatch` one of the two sizes always qualifies and one may; two PUTs turn the watch
off and on again. In `Daemons` two processes of two builds give every order of two
starts, also one inside the other.

In `Recommend` every pair of amounts a machine can have of RAM and card memory is
compared with every other; the amounts put each file above, below and between the
limits of each category, the ladder has four contexts, and the seven files have each
feature the arithmetic treats apart. Units are about a gigabyte and 4096 tokens. In
`MCRules` lists have up to three or four elements in every order, which is what makes
the first, the last and one between differ; amounts are on, below and above each limit
the code compares them with; tables have nine rows, one more than a packed group of
eight; parsed files have up to four keys and are cut at every byte. Every bound is a
constant named in its module or a set named in its MC module.

`CHECK_DEADLOCK FALSE` is set where the counters named as bounds run out, or an input
has been picked, which ends a behaviour; a daemon with nothing to do is no deadlock.

Fairness. The Go scheduler runs a goroutine that can run and its mutexes do not starve
a waiter, so the steps a goroutine takes alone are weakly fair. What waits for the
outside is not: a request of the harness to the runtime needs no answer unless its
context is cancelled (`ctxDone[r] /\ Fails(r)`), a pull or a size may take for ever
unless cut, nothing makes a client read, leave or ask. The assumptions are `Fairness`
in `BenchHarness`; `KeepsReading` (of the streams whose end is claimed only) in
`ProgressStream`; in `TestScreen` that the test goes on, that timers fire and polls are
answered or fail, and that a stream which brought something brings the rest or breaks
(one that never did may be held back for ever); `Loop` in `UnloadLoop` (the HTTP client
has a timeout); the ends of cancelled pulls and the installers' return in the trackers;
the refresh's goroutine in `CatalogRefresh`; in `HubReading` the reading's own steps
(each request has a timeout) and somebody who refreshes again; in `Inventory` the tasks
and the periodic check; a source's read (its deadline) and somebody who keeps asking for
refreshes in `PublicSources`; the scheduler and the running watch in `ModelWatch`; in
`Daemons` a process's own steps, and that the program is started again when none runs.
`Recommend` and `MCRules` claim no liveness.

## Findings

`unload_numbers`. finish gives unload and the writes after it one context of
`UnloadWait` + 10 s (`harness.go:661`), but a call to the runtime that begins just
before `UnloadWait` may take 15 s (`ollama.go:183`). Unload can then return with the
context over, and the run's end is not stored although "finish ends a run whatever
happened: ... store the row". `save` only logs that, so the row goes on saying
running until the next start, and a client that asks for the run's stream after the end
is sent that row as its only event. `BenchHarness` has this as `FinalSaveMayFail`;
`RunningRowIsLive`, `AnswerIsFinal` and `LedgerSpec` hold when it is FALSE and only then.

`watch_once`. The desktop notification is shown before the row that remembers it is
written. A stop or a failed write in between shows the same model again: the code's
comment says "once per model, ever".

### Other divergences

These have no run of their own. The first group are definitions that TLC refutes when
they are put into the cfg named.

- `Daemons.OnlyStoppedRunsAreClosed` (`Daemons.cfg`): "Recover closes runs a
  previous daemon left running: it stopped while they ran" (`harness.go:71-73`). Nothing
  keeps a second daemon, which asks for another port, from opening the same file while
  the first runs; its Recover (`main.go:146`) ends the first one's run
  (`store/bench.go:243`), and the first one's next save makes it running again.
- `MCJobs.LateClientIsToldTheEnd` (`MCJobs.cfg`): "a run that has already ended is one
  event" (`server/bench.go:213-214`). When finish's save failed (`harness.go:823-825`), that
  event says running, and the stream ends with it. `LastEventIsSent` claims the end of
  clients that subscribed in time, whom the run itself tells, and of late ones when it was
  stored.
- `HubReading.StopsOnlyInSilence` (`Hub.cfg`): ErrUnreachable means "every attempt failed
  below HTTP" (`hf.go:143`). The error of a sixth redirect (`hf.go:190-192`) does not wrap
  `ErrRedirect`, so `do` tries again as after silence (`hf.go:237-251`) and in the end
  reports the Hub, which answered each time, as unreachable; the refresh leaves the other
  sizes alone. `StopsOnlyUnreached` counts both. `Fetcher.Get` of the public sources has the
  same limit (`fetch.go:135-137`), with no more than its one source at stake.
- `Inventory.RemovalIsSeenAlways` (`Catalogue.cfg`): "the answer reflects the removal"
  (`remove.go:54-56`) fails when a check read the runtime's list before the removal and
  writes it after (`backend.go:110-113`). `RemovalIsSeen` excludes just that.
- `MCRules.FingerprintIsOfTheMachine` (`Rules.cfg`): drivers are left out of the
  fingerprint as they "change without the hardware changing" (`derive.go:386`), but which
  cards enter it depends on their usability, which depends on the driver
  (`derive.go:406`). The rounding of memory at half a GiB can flip too.
- `MCRules.HintIsOfUse` (`Rules.cfg`): the plan says a prompt needs a larger context
  although the model's own trained context is what stops it (`plan.go:198-221`).
- `Recommend.ShortOnlyWhenNothingIsLongEnough` with `Requests <- MCRequestsAnyContext`
  (`Recommend.cfg`): the user's smallest context is wanted like any other
  (`recommend.go:47`). If it is not on the ladder (the API takes any number,
  `server/recommend.go:165-171`), every model is tried one rung short of it and
  rejected for that, and the pass meant for weak hardware recommends that shorter
  context, and models that spill, although the next rung fits.
- `PublicSources.GapIsDue` with `OnlyRuns = TRUE` (`PublicSources.cfg`): `catalog refresh
  -only F` (`catalog.go:187`, `hfevals.go:38`) after a read that timed out marks the source
  as read, although one read only in part "is due again at once" (`run.go:227-229`). The
  first such run under a new configuration stores its digest as well.
- `PublicSources.RowsOfThisConfiguration` (`PublicSources.cfg`): a repository that fails
  does not fail its source, which stores the digest of the new configuration; the
  repository still has the ETag of rows derived under the old one, and the next run
  believes its 304 (`run.go:285`, `hfevals.go:61-70`). A metric added to the map is then not
  read from it until the repository changes. `EventuallyCurrent` claims the present
  configuration of the other two sources.

The rest were met while modelling; the modules leave the case out or follow the code.

- Benchmarks. The estimates are written before the run is stored as done, so a stop
  between the two leaves a measurement of a run that Recover marks as failed. Their key
  lacks the runtime's name, and the latest is by a clock that may be set back. A card
  that does not answer the baseline makes the rise count its whole memory.
- Load reports. A log that was replaced is noticed only when it is shorter than the old
  offset. "CUDA_Host model buffer size" of a load on the processor reads as path cuda.
  The fallback to the list takes the first model of it, which may be another.
- Watch. It remembers each size as it reaches it but writes its log at the end, so a run
  that fails in between has remembered what no log shows.
- Settings. A PUT carries the advanced switch along (`settings.go:73-81`,
  `ui/src/state/settings.tsx`), so a window with an old one undoes another window's choice.
- Hub. `-00001-of-00000.gguf` in a listing is a group without parts, and the first of them
  is taken (`files.go:135`). A file without head_count_kv is said to use head_count
  (`metadata.go:96`), but Missing lists the key and the size fails (`refresh.go:340`). A
  cached header keeps the fields of the program that parsed it. Any transfer error while
  bytes are skipped is first reported as a cut file. An answer cut in its body is not
  retried. A pull whose stream ends cleanly without "success" counts as done.
- Public values. A new edition that changes a size's base repository leaves the old
  one's values beside the new ("One value per metric per size", `hfevals.go`). "nan" is a
  number when parsed, NULL when stored and 0 when read.
- Parquet. "A corrupt page fails the read, never a wrong value" (`parquet_test.go:121`)
  is not so of plain pages, whose CRC is not looked at.
- Hardware. Two equal NVIDIA cards of which one is disabled may exchange that; a line of
  nvidia-smi without a bus address goes to the first card that has none. A card whose
  memory could not be read is planned on the processor with `Device` still set
  (`placement.go:149`). A runtime seen on a card that its support rules call unusable has
  no budget, and the plan says that the card's memory could not be read.
- Advice. "Needs more memory than this computer can give" is also said when a vision
  encoder is missing or splitting was ruled out (`recommend.go:338`). On unified memory,
  lookup tables are compared with all system memory and the rest of the model with the
  graphics' share of it, never both together. "slow < 1" (`speed.go:136`) holds only where
  system memory is slower than the card. A low end that rounds to no tokens a second can
  be graded better than a high end that does not. Waits of 45 to 90 seconds are "about
  half a minute" (`reasons.go`).
- Updates. A build that git describes as after a tag "never claims this"
  (`update.go:56-58`), but the suffix is dropped before versions are compared.
- UI. One poll that fails while the test goes on ends the following, and the screen sits
  still for good, as it does when the daemon restarts and is not back by the time of the
  one read that follows ("so the screen never sits still", `client.ts:117-118`): hence
  `failures > 0` in `ScreenShowsTheEnd`. So does a stream that is held back after its first
  event (the fairness of `TestScreen`), and a cancel that comes as the test ends, which
  stops the following and gets a 404 (`refused`). A cancel whose wait runs out
  (`server/bench.go:288`) is answered with the test still running, and the screen shows that
  as a result (`outwaited`). The run is read once more after a poll
  failed, and nothing stops that read: when it finds that the test before has ended, it
  clears the screen of the present one, which then offers to start another. Until the
  next event that screen may show one test while another is followed: hence `strayed` in
  `ProgressIsOfTheLatest`.

## The proofs

The assumptions on the constants are the named ASSUME of each module.

`BenchHarnessProofs` proves `Counts`, the inductive form of `StepsAddUp`: besides
types it relates the step counter, the announced total and the prompts still to do
at each point of the goroutine (`CountOK`), without which "step ends at steps" says
nothing of the middle of a run. `TypeCorrect` and `StepsAlwaysAddUp` follow. The
total is a product of prompts and repeats; the few facts about products are lemmas. It goes on
with `Sole` (a goroutine is between its start and the end of finish exactly when it is
the active run), hence `NeverTwoRuns`; and `Outcome`: which cause and verdict each point
of finish allows (`CancelOK`) and which rows an estimate may name (`EstOK`), hence
`CancelNeverFails` and `EstimatesAreMeasured`. These hold also when the final write
fails. With `FinalSaveMayFail = FALSE` it proves `Life`: the row, the memory and the
point of the goroutine agree (`RowOK`, `VerdictOK`), and a running row belongs to the
active run. `NoStaleRow` and `CancelAnswersTheEnd` follow, and `HarnessImplementsLedger`:
under `Life` every step of the harness is a step of `BenchLedger` or leaves the views
alone (`LedgerMoves`, one case per action).

`JobProofs` proves all that is safety of the `jobs` run, for any number of clients,
readers, pulls, installs, events, tests, polls and failures.

- The unload loop. `ConfirmedNeverLies` follows from `UnloadAssumption` (a load in
  progress shows within two polls of the first request). The inductive invariant says how
  late each reading is (`Lag`), so that the second one in a row is after any such load.
  `UnloadAlwaysInBounds` says how long the loop can take: less than a poll and one call of
  each kind beyond its own deadline, for all waits and however slow the runtime is. That is
  not within the grace with the code's numbers, which is the finding `unload_numbers`.
- The trackers. A status is about the pull that was started last, and only that pull
  has still to write it (`PullInv`). `StatusAlwaysHasItsPull` follows: a status that says
  running is never left without its pull, and what a cancel is told is of the pull it
  found or a newer one, since the status is read after the wait; and so does
  `TrackersImplementSlots`: every step of either tracker is one of `JobSlot` or leaves the
  slot alone.
- The streams. What a broadcast has still to reach is subscribed, after the last event
  nobody is (`Subscribed`), and the last event a closed channel has still to give, or has
  given, is the run's end (`LastIsFinal`): an overflow drops the oldest, never the newest.
  The end is published from memory, so a failed save changes nothing of that; what a late
  client is told is the row.
- The screen. A test that is not followed has been stopped or has no callback yet
  (`Followed`), so a callback that is not dropped is of the test followed last; and the
  screen lets go of a test that still reports only when it has strayed (`Pressed`).
  `StreamsAlwaysKeepTheEnd` is the two together.
- Their order. `EventsAlwaysGoForward`: what is sent to a reader never shows fewer steps
  than what it was sent before. The invariant (`Ordered`) is a chain: the last event sent,
  those in the buffer one by one, the progress published, and what the run has drawn up
  to publish next, each with no fewer steps than the one before. The sampler keeps it
  since it changes what is published under the lock, and dropping the oldest of a buffer
  leaves a chain.

`FitProofs` proves `CategoriesKeepTheirWord`: for every ladder, limit, overhead,
machine and catalogue, each category does what `KeepsItsWord` says. The machine and
the catalogue never change, so the work is `FitKeepsItsWord`, about one file on one
plan, case by case as categorise decides: that a split stays under the limit is from
the layers' whole division (`Division`, `Products`, `SplitFits`), that a suggested
context is the longest from the well-foundedness of < (`LongestIsOne`), and that the
estimate at the suggested context is a fit from `Limits` and `FitsIff`.
`SuggestionsAlwaysAgree` adds that a longer context never needs less
(`LongerNeedsMore`), so that the search downwards and the one through the whole ladder
meet (`TriedFits`). `MoreMemoryIsNeverWorse` compares two placements that differ only in
their room (`Roomier`), which a machine with more memory has (`MoreMemoryIsRoomier`: the
device that counts is the same one); the limits grow with it, the layers of a split and
what they leave room for do not shrink (`RoomierSplits`), and each case of categorise
falls to the same case or to an earlier one (`RoomierIsNoWorse`).

It goes on with the recommendations. `AdviceIsTheBest` is about any number of candidates and
cards, and so about the loop that keeps them, a fold. The function the library's fold chooses
exists (`KeepsExist`), and there is no shortest prefix of the ranking of which it does not say
what is kept (`CardsAreChosen`): each candidate seen is shown, is of a family that is, changes
nothing, or found the page full of cards that rank before it. That the ranking is an order of
all candidates is from counting those ahead; that a candidate's score is a number, from
`Recommend`'s assumptions. Those are what `DefaultConfig` gives (factors are numbers), what
`cleanPurposes` leaves of a request, and that rows have keys of their own. The invariant is
`BestGiven`: what is known of the machine, and that the answer in hand is best.

The rest of `FitProofs` is about calculations that have no state, for every input instead of
the run's. `GradesAreEarned`: for every table of needs, answer speed and prompt speed, if the
table is accepted, a grade is no worse at the faster end, every bar up to it is met, and
nothing that was not measured is said to have been. Bars are nested (`BarsAreNested`,
`WaitsAreNested`), and a wait is a sum of two quotients, so that it falls when both rates
rise is an inequality of cross products (`ReadsFaster`, twice in `FasterWaitsLess`).
`SpeedsAreTrue`: for every accepted table, machine, plan, model and list of benchmarks, and
for all figures in the ranges that `DefaultConfig`'s are in, a name of several cards is
never taken for a faster one (`SlowestIsTaken`), a range made from a benchmark is no wider
for its middle than the population's (`WidthIs`, `DrawnNarrow`: but for the two units that
rounding may add), a part that was measured is known, and a model's own measurement is
inside the speed made from it. A speed's ends are in order, so that the swap in
`EstimatedRange` (`figure.go:104`) never happens, and a quarter more of the layers on the
faster part makes no end slower (`RateOfMore`, `PromptOfWhole`): of a split these two
suppose that its parts reach something at their low ends (`PartsReach`), as else it
divides by zero. The `rules` run checks that they do, and what is left to it of a speed:
`OnlyCleanRunsCount`, about a filtered sequence, and `AboveNone`, about the last digit.
`VerdictsRestOnTheTest` is about the verdict of a benchmark: for every accepted table and
every test, one that gives a wait rests on a timed prompt no shorter than the purpose's,
one that gives none says why, and the order of the prompts changes neither. A test has one
prompt of a size (`SuiteOK`), so the shortest that is long enough is one prompt in any order.
`LatestMeasurementsCount` is about any runs of a computer, numbered in the order they ended.
What `writeBack` leaves is a fold over them; its invariant (`KeptTo`) is that each estimate is
of a run so far that measures, and that each such run has an estimate of its start and
configuration, its own or a later run's. So the estimates told of a configuration, the last
written of all starts on the hardware, are of the last run that measured it (`CountedIsLast`,
`LastIsCounted`); and a row, with NULL for what is nothing, reads back as the run it was made of.

Two more are about a file. `LayersAreCountedOnce`: whatever a header states, the groups of a
layout share the layers out and leave none, so their counts add up to the blocks; a header that
states nothing of itself gives one group of all; of a period, one layer in it attends to
everything, by the remainder it has; and each group's memory grows with the conversation, up to
what it would keep of all of it. A sum is a function of the sets of groups (`LayersSum`), and
taking a group away takes the layers of its shape away (`GroupsCountAll`).
`HeaderIsReadAsOfTheWhole` is about the parse, a fold over the pairs of the metadata. A function
of the beginnings of a sequence gives what the fold does, so that two parses can be followed
side by side: of a piece and of the whole, which agree until the piece ends; and with the early
stop and without, which agree until the tokenizer. The fetch is a fold too, over its attempts: a
piece doubles only when the parse has passed the one before.

`DaemonsProofs` proves `SchemaAlwaysFits` and `PathIsOfThisHardware` for any number of
processes, builds, cards and faults. The invariant adds what a process has read: the
versions it takes for applied are applied (`SeenIsApplied`: none is ever taken back),
and the hardware it has seen is the hardware there is (`KnowsThisCard`: a card changes
only while no process runs).

It goes on with what is made of that hardware, for any devices and any table of rules.
`EveryDeviceHasABackend`: the last rule of a valid table has no condition and so holds for
every device. `DetectionOrderIsNothing`: a machine whose devices are detected in another
order has the same class, budget, notes and fingerprint. The place of a device is how many
are ahead of it, and the order of `orderGPUs` is total (`Before`), so that each place has one
device; two that stand in the same place of the two orders are of the same rank and memory,
which is what class, budget and notes look at (`SameOrderedDevices`), and the fingerprint counts
the devices of an identity. `BestDeviceDecides` adds that the first of those
that count has the most memory, so that the budget is that of one device and no less than
any other's. All suppose of a machine (`MachineOK`) that beside an Apple chip's graphics
there is no other device, which is what `macprobe.go` reads.

`HubReadingProofs` proves `RowsOfOneRevision` for any number of sizes, files, revisions,
ranges and failures: at each request of a size, the headers read so far are those of the
listing in hand and lack no key (`GotIsOfInfo`), and a cached header is of the content it
is cached under (`HeadersAreTrue`). `GivesUpOnlyUnreached` follows from `AttemptsInv`:
as long as no answer of a request could be used or told to wait, each of its attempts met
silence or redirects without end.

`CatalogueProofs` proves `NothingGoesBack` for any number of refreshes, sizes, failures
and stops: who is between TryLock and Unlock holds the lock (`Sole`), so between what one
has read and what it stores nobody stores (`ReadIsNewer`: what is stored is no newer than
what is read, nor that than the Hub's). `RemovalsAreSeen` is about any number of tasks and
models: as long as nothing crosses a removal, its model is not in the runtime nor in any
list that is still to be written, nor in the table once its own is (`Removed`).

`WatchProofs` proves `NothingIsShownAgain`. Whoever is in RunWatch holds the lock
(`Sole`), so what a run read of `watch_state` at its start still stands for the table
when it shows something (`ReadIsTable`).

`SourceProofs` proves `ValidatorsAreBehind` and, where no run is limited to some
families, `PartsAreDue`. For the first, `Vouched` says what a stored ETag stands for:
of hf_evals the rows of its repository; of the other two, when the configuration is
the one last read under, that each part has rows as new, is of an unreadable file, or
is marked as failed. `ReadSoFar` says the same of the parts a run is done with, for
the file it has in hand, and `Newer` orders the ETags. For the second, `GapInv`: a part
that lags is marked, or its source is, or nothing was read through under this
configuration; and a run that is going on still has it to do, or has marked it.

It goes on with what is read and shown, for any answers. `TheBestOfAnAnswerStands`: of a fold
over the results, the invariant is that one row of each metric and size stands, that each is of
a result read, and that no readable result read so far outranks it (`KeepsTheBest`); of a board
the fold is over its order by rank, which counting those ahead makes an order of all of them
(`ByRankIs`). `WhatIsReadLastStands` is about any number of answers one after the other, again a
fold: a value present is the only one of its metric and size from its source, and a repository's
is of its own model (`Sensible`), so that storing an answer replaces what is present of its
part, leaves the other parts, and forgets nothing; and that a view of the result has one value
of a metric, a size and a source. `PlacesAreOfTheValues` is about any stored values: a place is
one more than the better ones there are, so that it is better exactly for the better value.

`WhatIsPublishedIsUsedFairly` is about what is made of such a view. Of the values that speak to
a purpose there is one that the loop of `View.Line` ends with (`ABestIsThere`): among those that
may be scored, or else among all, the ones that most sizes are compared on, and of them the
first. For `publicAdjustment`, a size's halves of a place lost are how many are ahead of it and
how many ahead or level, itself left out (`HalvesCount`), and both are fewer for a better value
(`HalvesCompare`); so its place on each metric is no worse and within the whole
(`PlacesCompare`), sums of places compare as the places do (`SumsCompare`, over subsets, as the
library's fold adds them), and the division by their number and the rounding keep the order.

`EveryEditionIsUsable` is about any two valid editions of the curated list, one written over the
rows of the other. `SyncCatalogModels` is a fold over the sizes, and its invariant (`SyncedTo`)
is that no two rows are of one family and parameters, that a row there before still is of its
size, and that the rows present are those of the sizes written so far; that no size and no tag
comes twice (`Validate`) is what makes a row each size's own. The order of the rows by family
and parameters numbers the candidates (`CountsArePlaces`), and as tags are apart (`TagsApart`)
the first candidate of a size's own tag is that size's row (`TagFinds`).

Model-checked only. All liveness, since TLAPS proves none under fairness: `CancelledRunEnds`,
`EverythingEnds`, `RefreshEnds`, `InventoryMirrors`, `QualifyingIsNotified`,
`EventuallyCurrent`, `AlwaysServesAgain`, `DeadRunsAreClosed`, `ComesToShowTheNewest`. Of the
groups of `MCRules`, what the theorems above do not state: the figures of
benchmarks and what a run is compared with, the grouping of files, the load reports and the
merging of probes, which rest on filters (`SelectSeq`, of which the provers know nothing), and on
folds and sorts of sequences that come without facts to cite (each would need lemmas like those
of `SourceProofs` about its own), and the readers of `Parquet`, which are recursive operators. That a
metric moves the sizes it compares as much up as down (`UpAsMuchAsDown`) is exact only where the
scale divides, as the run's does. Since `MCRules` reaches those readers, no theorem can name one
of its groups: the theorems name the parts of the groups instead.

A theorem about a calculation supposes what its input is (`MachineOK`, `SuiteOK`, `GradedOK`,
`RunsOK`, the `HeaderOK` of a layout and of a file, `AnswerOK`, `ConfigOK`, `ListOK` with `OrderOK`): the
types the code's values have, and what the code that makes them keeps. `RuleInputs` and `MCRules` assume the same of every
input they enumerate, which TLC evaluates, so none is of nothing.

## Not modelled, and the plan

Every safety property of the passing runs is proved but the groups of `MCRules`, of which
the grades, speeds and verdicts, what measurements count, the layers and the header of a file,
the derived hardware, the editions of the curated list, and the public values, stored, placed,
shown and scored, are.
Next would be the match of any other name than a size's own tag, and the parsing of the tools'
text in hardware detection.

Partly modelled. Of hardware detection, the parsing of the tools' text, the summary's
wording and the model folders of the other two systems; of the recommendation engine,
its sentences (`reasons.go`), of which `Recommend` and `Grades` keep what they rest on;
of the Ollama client, the bodies of requests and the installers of each system, whose
results are choices of the modules that call them; of the UI, all screens but the
one that follows a test, which show what a request answered.

Left out. The server's remaining handlers are reads that compose stored rows into
answers, and change no state. The commands run one operation each, in a process of
`Daemons`. Tray, autostart, chat apps, update checks and `internal/winapp` are wrappers of
the operating system without state of their own; `scripts/` holds measurements made once,
which the program does not run.
