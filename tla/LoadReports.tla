----------------------------- MODULE LoadReports -----------------------------
(***************************************************************************)
(* What the runtime says of a load: the lines its log has about it         *)
(* (internal/backend/ollama/loadreport.go and runtimepath.go), the models  *)
(* it lists as loaded, and what a benchmark's run records of both          *)
(* (observeLoad of internal/bench/harness.go).                             *)
(*                                                                         *)
(* A log is a sequence of lines, and a line is what its pattern reads in   *)
(* it.  A device is its name and the path its name stands for, "none" for  *)
(* a name the program does not know; what may be missing is a set of at    *)
(* most one.                                                               *)
(***************************************************************************)
EXTENDS Naturals, Sequences, FiniteSets, SequencesExt

CONSTANTS
  OnGraphics,   \* the paths that use a graphics device
  MaxLog        \* the most of a log that is read, in lines

NoReport == [path |-> "", devices |-> << >>, on |-> 0, of |-> 0, cache |-> "", flash |-> {}, ctx |-> 0, parallel |-> 0]

(* A bug: what an earlier load said is kept.                               *)
StartKeeping(r, line) == [r EXCEPT !.ctx = line.ctx, !.parallel = line.parallel]
Start(r, line) == [NoReport EXCEPT !.ctx = line.ctx, !.parallel = line.parallel]
Buffer(r, line) ==
  [r EXCEPT !.path = IF line.device.path \in OnGraphics THEN line.device.path ELSE @,
            !.devices = IF line.device \in ToSet(@) THEN @ ELSE Append(@, line.device)]
(* "auto" decides nothing: what it came to is on a line of its own.        *)
Line(r, line) ==
  CASE line.kind = "start" -> Start(r, line)
    [] line.kind = "buffer" -> Buffer(r, line)
    [] line.kind = "offloaded" -> [r EXCEPT !.on = line.on, !.of = line.of]
    [] line.kind = "flash" /\ line.said \in {"on", "off"} -> [r EXCEPT !.flash = {line.said = "on"}]
    [] line.kind = "cache" -> [r EXCEPT !.cache = line.type]
    [] OTHER -> r

ParseLoadReport(lines) ==
  LET r == FoldLeft(Line, NoReport, lines)
      OnProcessor == \E i \in DOMAIN r.devices : r.devices[i].path = "cpu"
  IN [r EXCEPT !.path = IF @ = "" /\ OnProcessor THEN "cpu" ELSE @]

(* A bug: a log that was replaced is read from where the old one ended.    *)
ReadFromThere(log, offset) == SubSeq(log, offset + 1, Len(log))
(* readFrom: from offset, from the start of a log that is shorter, and no  *)
(* more than the end of it.                                                *)
ReadFrom(log, offset) ==
  LET from == IF Len(log) < offset THEN 0 ELSE offset
      first == IF Len(log) - from > MaxLog THEN Len(log) - MaxLog ELSE from
  IN SubSeq(log, first + 1, Len(log))

(* ObserveLoad: the first log there is, and how long it is now; after the  *)
(* load, what was written since, or the journal where there is no log.     *)
Observe(logs) ==
  LET here == {i \in DOMAIN logs : logs[i] # {}}
      first == CHOOSE i \in here : \A j \in here : i <= j
  IN IF here = {} THEN [log |-> 0, offset |-> 0]
     ELSE [log |-> first, offset |-> CHOOSE n \in {Len(log) : log \in logs[first]} : TRUE]
Observed(o, logs, journal) ==
  LET texts == IF o.log = 0 THEN journal ELSE {ReadFrom(log, o.offset) : log \in logs[o.log]}
  IN IF texts = {} THEN NoReport ELSE ParseLoadReport(CHOOSE t \in texts : TRUE)
-----------------------------------------------------------------------------
(* The path a line names: of a model's buffer, or the last of the backends *)
(* a discovery line names.                                                 *)
PathsOf(line) ==
  CASE line.kind = "buffer" /\ line.device.path # "none" -> <<line.device.path>>
    [] line.kind = "found" -> line.paths
    [] OTHER -> << >>
(* A bug: the processor's lines count although the model is on a card.     *)
PathFromLogOfAny(lines, gpuOnly) ==
  LET named == FlattenSeq([i \in DOMAIN lines |-> PathsOf(lines[i])]) IN IF named = << >> THEN "" ELSE Last(named)
(* pathFromLog: the last path named, of a graphics device when gpuOnly.    *)
PathFromLog(lines, gpuOnly) ==
  LET Counts(path) == ~gpuOnly \/ path \in OnGraphics
      named == SelectSeq(FlattenSeq([i \in DOMAIN lines |-> PathsOf(lines[i])]), Counts)
  IN IF named = << >> THEN "" ELSE Last(named)

(* runtimePathsFromPS, of the first model listed; "" for none.             *)
RuntimePath(vram, lines) == IF vram = 0 THEN "cpu" ELSE PathFromLog(lines, TRUE)
(* Detect: the path of a runtime that answers, "" when it does not say.    *)
Detect(listed, lines) ==
  IF listed = {} \/ listed = {<< >>} THEN ""
  ELSE LET models == CHOOSE l \in listed : TRUE IN RuntimePath(Head(models).vram, lines)
-----------------------------------------------------------------------------
(* Where the runtime lists the model to be.                                *)
ResidentOf(m) == IF m.vram = 0 THEN "cpu" ELSE IF m.vram >= m.size THEN "gpu" ELSE "split"
(* A bug: the runtime's list is taken at its word.                         *)
CorrectedNever(r, resident) == resident
(* The log is the load's own account: not every layer was on the graphics. *)
Corrected(r, resident) == IF r.of > 0 /\ r.on < r.of /\ resident = "gpu" THEN "split" ELSE resident

(* A bug: a check of the runtime counts for more than the load's log.      *)
PathOfCheck(r, resident, checked) ==
  IF checked # {} /\ checked # {""} THEN CHOOSE p \in checked : TRUE
  ELSE IF r.path # "" THEN r.path ELSE IF resident = "cpu" THEN "cpu" ELSE "unknown"
PathOf(r, resident, checked) ==
  IF r.path # "" THEN r.path
  ELSE IF resident = "cpu" THEN "cpu"
  ELSE IF checked # {} /\ checked # {""} THEN CHOOSE p \in checked : TRUE
  ELSE "unknown"

(* observeLoad: what the run records of its load.  listed is what the      *)
(* runtime lists, in order, checked what a check of it says.               *)
Recorded(r, listed, checked) ==
  LET IsOurs(m) == m.ours
      ours == UNION {ToSet(SelectSeq(models, IsOurs)) : models \in listed}
      ctx == {m.ctx : m \in ours} \ {0}
      resident == Corrected(r, IF ours = {} THEN "unknown" ELSE ResidentOf(CHOOSE m \in ours : TRUE))
  IN [cache |-> IF r.cache = "" THEN "unknown" ELSE r.cache,
      flash |-> r.flash,
      effective |-> IF ctx # {} THEN CHOOSE n \in ctx : TRUE ELSE IF r.parallel > 0 /\ r.ctx > 0 THEN r.ctx \div r.parallel ELSE 0,
      resident |-> resident,
      path |-> PathOf(r, resident, checked)]
-----------------------------------------------------------------------------
(* What a load was: how many of its layers are on the server's graphics,   *)
(* its cache, its context and how many share it.                           *)
Written(load, server) ==
  <<[kind |-> "start", ctx |-> load.ctx * load.parallel, parallel |-> load.parallel],
    [kind |-> "offloaded", on |-> load.on, of |-> load.of],
    [kind |-> "flash", said |-> "auto"]>>
  \o (IF load.on > 0 THEN <<[kind |-> "buffer", device |-> [name |-> "0", path |-> server]]>> ELSE << >>)
  \o <<[kind |-> "buffer", device |-> [name |-> "CPU", path |-> "cpu"]],
       [kind |-> "cache", type |-> load.cache],
       [kind |-> "flash", said |-> IF load.flash THEN "on" ELSE "off"]>>
Began(server) == [kind |-> "found", paths |-> <<server, "cpu">>]

(* What is recorded of a load is true of it or unknown, whatever earlier   *)
(* loads and servers left in the log and whatever else is loaded; and what *)
(* a log that could be read says is known.  w.log is what became of the    *)
(* log: kept, replaced by a restart, gone, or never there; w.list is what  *)
(* the runtime lists: nothing, ours, ours as wholly on the graphics, or    *)
(* another model first.                                                    *)
RecordedIsTrue(w) ==
  LET loads == IF w.verbose THEN FlattenSeq([i \in DOMAIN w.loads |-> Written(w.loads[i], w.server)]) ELSE << >>
      load == Last(w.loads)
      old == w.earlier \o <<Began(w.server)>>
      log == IF w.log = "replaced" THEN <<Began(w.server)>> \o loads ELSE old \o loads
      o == Observe(<<{}, IF w.log = "none" THEN {} ELSE {old}>>)
      r == Observed(o, <<{}, IF w.log = "gone" THEN {} ELSE {log}>>, IF w.journal THEN {loads} ELSE {})
      ours == [ours |-> TRUE, size |-> load.of, vram |-> IF w.list = "over" /\ load.on > 0 THEN load.of ELSE load.on, ctx |-> load.ctx]
      other == [ours |-> FALSE, size |-> 9, vram |-> 0, ctx |-> 9]
      listed == IF w.list = "none" THEN {} ELSE {IF w.list = "other" THEN <<other, ours>> ELSE <<ours>>}
      recent == IF w.log \in {"gone", "none"} THEN IF w.journal THEN log ELSE << >> ELSE log
      recorded == Recorded(r, listed, {Detect(listed, recent)})
      isRead == w.verbose /\ (w.log \in {"kept", "replaced"} \/ (w.log = "none" /\ w.journal))
  IN /\ recorded.cache = IF isRead THEN load.cache ELSE "unknown"
     /\ recorded.flash = IF isRead THEN {load.flash} ELSE {}
     /\ recorded.effective \in IF isRead \/ listed # {} THEN {load.ctx} ELSE {0, load.ctx}
     /\ recorded.resident \in IF load.on = load.of THEN {"gpu", "unknown"} ELSE IF load.on = 0 THEN {"cpu", "unknown"} ELSE {"split", "unknown"}
     /\ listed # {} => recorded.resident # "unknown"
     /\ recorded.path \in {"unknown", IF load.on = 0 THEN "cpu" ELSE w.server}
     /\ isRead => recorded.path # "unknown"
=============================================================================
