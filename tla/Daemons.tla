------------------------------ MODULE Daemons ------------------------------
(***************************************************************************)
(* Programs that share one database (cmd/advisor/main.go: run;             *)
(* cmd/advisor/catalog.go: catalogRefresh, catalogExternal;                *)
(* internal/store/store.go: Open, migrate; internal/server/hardware.go).   *)
(*                                                                         *)
(* Nothing keeps a second daemon from starting: when the port is taken it  *)
(* asks for another.  The commands open the same file.  Each process opens *)
(* the database, applies the migrations it misses, each in a transaction   *)
(* of its own; a daemon then ends the runs it finds running, and serves,   *)
(* while two goroutines look at the hardware and at the runtime.           *)
(***************************************************************************)
EXTENDS Naturals

CONSTANTS Procs,      \* places a process of the program may run in
          Editions,   \* how many migrations each build that is about knows
          Cards,      \* graphics cards the machine may have
          MaxRuns,    \* bound on the runs
          MaxFaults,  \* bound on what goes wrong: stops while starting, failing writes, commands, new cards
          None

ASSUME NumbersAssumption == Editions \subseteq Nat \ {0} /\ MaxRuns \in Nat /\ MaxFaults \in Nat
ASSUME CardsAssumption == None \notin Cards /\ "" \notin Cards

VARIABLES tables,   \* the migrations whose SQL the database has
          recorded, \* the versions in schema_migrations
          card,     \* the graphics card in the machine
          profile,  \* hardware_profiles: the card of the newest row
          observed, \* backends: the card of the newest row that saw a path, by fingerprint
          runs,     \* benchmark_runs by id: "none" yet, "running", or "ended" in any way
          pc, kind, edition,
          seen,     \* the versions migrate knows to be applied
          hw,       \* the hardware a daemon has published
          checked,  \* the card whose path a daemon's check has just seen
          doing,    \* the run a daemon has in progress, 0 for none
          faults

store == <<tables, recorded, profile, observed, runs>>
procs == <<pc, kind, edition, seen, hw, checked, doing>>
vars == <<tables, recorded, card, profile, observed, runs, pc, kind, edition, seen, hw, checked, doing, faults>>

Known(p) == 1..edition[p]
Goto(p, where) == pc' = [pc EXCEPT ![p] = where]
Spend == faults < MaxFaults /\ faults' = faults + 1

Init ==
  /\ tables = {} /\ recorded = {} /\ profile = None /\ runs = [r \in 1..MaxRuns |-> "none"]
  /\ card \in Cards
  /\ observed = [c \in Cards \cup {""} |-> None]
  /\ pc = [p \in Procs |-> "off"] /\ kind = [p \in Procs |-> None]
  /\ edition = [p \in Procs |-> 0]
  /\ seen = [p \in Procs |-> {}] /\ hw = [p \in Procs |-> None] /\ checked = [p \in Procs |-> None]
  /\ doing = [p \in Procs |-> 0] /\ faults = 0

(* Open: schema_migrations is created if need be, and read.                *)
Open(p, k, e) ==
  /\ pc[p] = "off"
  /\ kind' = [kind EXCEPT ![p] = k] /\ edition' = [edition EXCEPT ![p] = e]
  /\ seen' = [seen EXCEPT ![p] = recorded]
  /\ Goto(p, "migrate")
  /\ UNCHANGED <<card, store, hw, checked, doing>>

StartDaemon(p) == UNCHANGED faults /\ \E e \in Editions : Open(p, "daemon", e)
StartCommand(p) == Spend /\ \E e \in Editions : Open(p, "command", e)

(* A process is gone, and with it what it had in memory.                   *)
Gone(p) ==
  /\ Goto(p, "off")
  /\ hw' = [hw EXCEPT ![p] = None] /\ checked' = [checked EXCEPT ![p] = None]
  /\ kind' = [kind EXCEPT ![p] = None] /\ edition' = [edition EXCEPT ![p] = 0]
  /\ seen' = [seen EXCEPT ![p] = {}] /\ doing' = [doing EXCEPT ![p] = 0]
  /\ UNCHANGED <<card, store>>

(* The oldest migration migrate does not know to be applied.               *)
IsNext(p, m) == m \in Known(p) \ seen[p] /\ \A k \in Known(p) \ seen[p] : m <= k

(* A bug: the SQL and the row that records it are two transactions.        *)
MigrateApart(p, m) ==
  /\ pc[p] = "migrate" /\ IsNext(p, m) /\ m \notin tables
  /\ tables' = tables \cup {m}
  /\ \/ recorded' = recorded \cup {m} /\ seen' = [seen EXCEPT ![p] = @ \cup {m}] /\ UNCHANGED <<pc, faults>>
          /\ UNCHANGED <<kind, edition>>
     \/ Spend /\ Goto(p, "off") /\ seen' = [seen EXCEPT ![p] = {}]
          /\ kind' = [kind EXCEPT ![p] = None] /\ edition' = [edition EXCEPT ![p] = 0] /\ UNCHANGED recorded
  /\ UNCHANGED <<card, profile, observed, runs, hw, checked, doing>>

(* The SQL of one migration and the row that records it, in one            *)
(* transaction; its SQL creates what it names, and fails where it exists.  *)
Migrate(p, m) ==
  /\ pc[p] = "migrate" /\ IsNext(p, m) /\ m \notin tables
  /\ tables' = tables \cup {m} /\ recorded' = recorded \cup {m}
  /\ seen' = [seen EXCEPT ![p] = @ \cup {m}]
  /\ UNCHANGED <<card, profile, observed, runs, pc, kind, edition, hw, checked, doing, faults>>

(* A bug: an error of migrate is logged, and the start goes on.            *)
MigrateFailsQuietly(p, m) ==
  /\ pc[p] = "migrate" /\ IsNext(p, m)
  /\ Goto(p, IF kind[p] = "daemon" THEN "recover" ELSE "command")
  /\ \/ m \in tables /\ UNCHANGED faults
     \/ m \notin tables /\ Spend
  /\ UNCHANGED <<card, store, kind, edition, seen, hw, checked, doing>>

(* Another process has applied it since, or a statement fails: the process *)
(* ends with an error.                                                     *)
MigrateFails(p, m) ==
  /\ pc[p] = "migrate" /\ IsNext(p, m)
  /\ \/ m \in tables /\ UNCHANGED faults
     \/ m \notin tables /\ Spend
  /\ Gone(p)

Opened(p) ==
  /\ pc[p] = "migrate" /\ Known(p) \subseteq seen[p]
  /\ Goto(p, IF kind[p] = "daemon" THEN "recover" ELSE "command")
  /\ UNCHANGED <<card, store, kind, edition, seen, hw, checked, doing, faults>>

(* A command does its work, which Inventory and PublicSources describe.    *)
CommandEnds(p) == pc[p] = "command" /\ Gone(p) /\ UNCHANGED faults

(* A bug: only the runs that wait to run are ended.                        *)
RecoverQueued(p) ==
  /\ pc[p] = "recover"
  /\ runs' = [r \in DOMAIN runs |-> IF runs[r] = "queued" THEN "ended" ELSE runs[r]]
  /\ Goto(p, "serve")
  /\ UNCHANGED <<card, tables, recorded, profile, observed, kind, edition, seen, hw, checked, doing, faults>>

(* RecoverBenchmarks: InterruptBenchRuns, for every row that says running. *)
Recover(p) ==
  /\ pc[p] = "recover"
  /\ runs' = [r \in DOMAIN runs |-> IF runs[r] = "running" THEN "ended" ELSE runs[r]]
  /\ Goto(p, "serve")
  /\ UNCHANGED <<card, tables, recorded, profile, observed, kind, edition, seen, hw, checked, doing, faults>>

(* Its failure is logged, and the daemon serves.                           *)
RecoverFails(p) ==
  /\ pc[p] = "recover" /\ Spend
  /\ Goto(p, "serve")
  /\ UNCHANGED <<card, store, kind, edition, seen, hw, checked, doing>>

-----------------------------------------------------------------------------
Serving(p) == pc[p] = "serve"

(* RecordHardware: a new row for this start, then what was found.          *)
DetectHardware(p) ==
  /\ Serving(p) /\ hw[p] = None
  /\ profile' = card
  /\ hw' = [hw EXCEPT ![p] = card]
  /\ UNCHANGED <<card, tables, recorded, observed, runs, pc, kind, edition, seen, checked, doing, faults>>

(* recordOneBackend: Detect sees the path a loaded model took ...          *)
Check(p) ==
  /\ Serving(p) /\ checked[p] = None
  /\ checked' = [checked EXCEPT ![p] = card]
  /\ UNCHANGED <<card, store, pc, kind, edition, seen, hw, doing, faults>>

(* A bug: the check is of the hardware the newest stored profile describes.*)
RecordCheckOfLast(p) ==
  /\ Serving(p) /\ checked[p] # None
  /\ observed' = [observed EXCEPT ![IF profile = None THEN "" ELSE profile] = checked[p]]
  /\ checked' = [checked EXCEPT ![p] = None]
  /\ UNCHANGED <<card, tables, recorded, profile, runs, pc, kind, edition, seen, hw, doing, faults>>

(* ... and the row is of the hardware this start has found, if it has yet. *)
RecordCheck(p) ==
  /\ Serving(p) /\ checked[p] # None
  /\ observed' = [observed EXCEPT ![IF hw[p] = None THEN "" ELSE hw[p]] = checked[p]]
  /\ checked' = [checked EXCEPT ![p] = None]
  /\ UNCHANGED <<card, tables, recorded, profile, runs, pc, kind, edition, seen, hw, doing, faults>>

(* Harness.Start inserts a row and keeps its id; save writes the whole row *)
(* as the run goes on and when it ends, whatever the row says by then.     *)
StartRun(p) ==
  /\ Serving(p) /\ doing[p] = 0 /\ hw[p] # None
  /\ \E r \in DOMAIN runs :
       /\ runs[r] = "none" /\ \A k \in 1..(r - 1) : runs[k] # "none"
       /\ runs' = [runs EXCEPT ![r] = "running"]
       /\ doing' = [doing EXCEPT ![p] = r]
  /\ UNCHANGED <<card, tables, recorded, profile, observed, pc, kind, edition, seen, hw, checked, faults>>

SaveRun(p) ==
  /\ Serving(p) /\ doing[p] # 0
  /\ runs' = [runs EXCEPT ![doing[p]] = "running"]
  /\ UNCHANGED <<card, tables, recorded, profile, observed, procs, faults>>

EndRun(p) ==
  /\ Serving(p) /\ doing[p] # 0
  /\ runs' = [runs EXCEPT ![doing[p]] = "ended"]
  /\ doing' = [doing EXCEPT ![p] = 0]
  /\ UNCHANGED <<card, tables, recorded, profile, observed, pc, kind, edition, seen, hw, checked, faults>>

(* A daemon that serves is quit as often as the user likes; before that a  *)
(* stop counts as one of the things that go wrong.                         *)
Stop(p) ==
  /\ pc[p] # "off"
  /\ IF Serving(p) THEN UNCHANGED faults ELSE Spend
  /\ Gone(p)

(* The machine is off while its card is changed.                           *)
NewCard ==
  /\ \A p \in Procs : pc[p] = "off"
  /\ Spend
  /\ card' \in Cards \ {card}
  /\ UNCHANGED <<store, procs>>

-----------------------------------------------------------------------------
(* What a process does without being asked.                                *)
Step(p) ==
  \/ \E m \in Known(p) : Migrate(p, m) \/ MigrateFails(p, m)
  \/ Opened(p) \/ CommandEnds(p) \/ Recover(p) \/ RecoverFails(p)
  \/ DetectHardware(p) \/ RecordCheck(p) \/ EndRun(p)

Next ==
  \/ NewCard
  \/ \E p \in Procs : Step(p) \/ StartDaemon(p) \/ StartCommand(p) \/ Check(p) \/ StartRun(p) \/ SaveRun(p) \/ Stop(p)

Spec == Init /\ [][Next]_vars

(* A start goes on by itself, and the user starts the program again.       *)
FairSpec == Spec /\ \A p \in Procs : WF_vars(Step(p)) /\ WF_vars(StartDaemon(p))

-----------------------------------------------------------------------------
(* Every variable holds values of its kind (the tables; run's locals).     *)
TypeOK ==
  /\ tables \subseteq Nat /\ recorded \subseteq Nat /\ card \in Cards
  /\ profile \in Cards \cup {None} /\ observed \in [Cards \cup {""} -> Cards \cup {None}]
  /\ runs \in [1..MaxRuns -> {"none", "running", "ended"}]
  /\ pc \in [Procs -> {"off", "migrate", "recover", "serve", "command"}]
  /\ kind \in [Procs -> {"daemon", "command", None}] /\ edition \in [Procs -> Editions \cup {0}]
  /\ seen \in [Procs -> SUBSET Nat]
  /\ hw \in [Procs -> Cards \cup {None}] /\ checked \in [Procs -> Cards \cup {None}]
  /\ doing \in [Procs -> Nat] /\ faults \in Nat

Working(p) == pc[p] \in {"recover", "serve", "command"}

(* What is applied is recorded and the other way round, in order and       *)
(* without a gap, and a process that works has every table its build       *)
(* knows, whichever builds have opened the database, at once or after a    *)
(* stop half-way (migrate).                                                *)
SchemaFits ==
  /\ tables = recorded
  /\ \A v \in recorded : 1..v \subseteq recorded
  /\ \A p \in Procs : Working(p) => Known(p) \subseteq tables

(* No stop or failure leaves a database that cannot be opened: a daemon    *)
(* always comes to serve again (Open, migrate).                            *)
AlwaysServesAgain == []<>(\E p \in Procs : Serving(p))

(* A path that was seen on one graphics card is never the answer for       *)
(* another (RecordBackendOn, LastObservedRuntimePaths), whatever the order *)
(* in which a start's checks and its hardware detection end.               *)
PathOfThisHardware == \A c \in Cards : observed[c] \in {None, c}

InProgress(r) == \E p \in Procs : doing[p] = r
Dead(r) == runs[r] = "running" /\ ~InProgress(r)

(* As long as the program is started again, a row does not say running for *)
(* ever when nothing runs (RecoverBenchmarks; main.go:144-145).            *)
DeadRunsAreClosed ==
  []<>(\E p \in Procs : pc[p] = "recover") => \A r \in 1..MaxRuns : Dead(r) ~> ~Dead(r)

(* The claim of harness.go:71-73, that what Recover ends are runs of a     *)
(* daemon that has stopped.                                                *)
OnlyStoppedRunsAreClosed ==
  [][\A p, q \in Procs : Recover(p) /\ doing[q] # 0 => runs'[doing[q]] = runs[doing[q]]]_vars
=============================================================================
