----------------------------- MODULE Inventory -----------------------------
(***************************************************************************)
(* What the app believes is installed (internal/server/backend.go:         *)
(* recordOneBackend; internal/server/remove.go: handleModelRemove;         *)
(* internal/catalog/refresh: MapInstalled; internal/store/models.go,       *)
(* backend.go and catalog.go).                                             *)
(*                                                                         *)
(* Checks of the runtime, removals and a refresh of the list run as they   *)
(* are asked for, each in its own goroutine.  The store has one            *)
(* connection, so a statement or a transaction is one step, and nothing    *)
(* holds between two of them.                                              *)
(***************************************************************************)
EXTENDS Matching, FiniteSets, TLC

CONSTANTS Tasks,      \* goroutines of the daemon that are at this at once
          Names,      \* the models a runtime may list
          Reads,      \* how MatchInstalled reads each: the name, and the parameters the runtime says
          Quants,     \* the quants a model or a file may have, the smaller file first
          Curated,    \* the list's sizes, in order, with id, base, tag, repo and params
          Editions,   \* which of them a build of the program curates
          MaxChanges, \* bound on what happens outside: pulls, stops, new files, failures
          None

ASSUME InventoryAssumption ==
  /\ MaxChanges \in Nat
  /\ Editions \subseteq SUBSET DOMAIN Curated /\ DOMAIN Curated \in Editions
  /\ 1 \in DOMAIN Quants
  /\ \A i \in DOMAIN Curated : Curated[i].id = i

Sizes == DOMAIN Curated
QuantSet == {Quants[i] : i \in DOMAIN Quants}

VARIABLES runtime,  \* the quant under which the runtime has each name, or None
          serving,  \* the runtime runs
          hub,      \* the quants each size's repository has
          edition,  \* the sizes this build curates
          changes,
          rows,     \* installed_models: quant, None before the first sighting, and present
          match,    \* installed_models: the three catalog_ columns
          shown,    \* catalog_models: the sizes that are present
          files,    \* catalog_files: the quants present of each size
          latest,   \* the state in the newest backends row
          task,     \* what each task is
          at,       \* where it is
          target,   \* the name a removal removes
          saw,      \* the state a check's Detect found
          listed,   \* what Models() answered a task
          cat,      \* what a mapping has read of the list: the sizes, then their files
          found,    \* the rows it has read
          marks     \* of a removal: "resynced" when its own list is written, "crossed" when
                    \* another task had read the runtime's list before the Delete and not yet
                    \* written it, "pulled" when the model is pulled again meanwhile

outside == <<runtime, serving, hub, edition>>
storeVars == <<rows, match, shown, files, latest>>
taskVars == <<task, at, target, saw, listed, cat, found, marks>>
vars == <<runtime, serving, hub, edition, changes, rows, match, shown, files, latest,
          task, at, target, saw, listed, cat, found, marks>>

NoRow == [quant |-> None, present |-> FALSE]
NoMatch == [kind |-> "", model |-> 0, file |-> 0]
Goto(t, where) == at' = [at EXCEPT ![t] = where]
Spend == changes < MaxChanges /\ changes' = changes + 1

(* The candidates MatchInstalled is given: the sizes read, in the order of *)
(* the list, with the files read of each, the smaller first.               *)
FilesOf(c, kept) ==
  LET IsKept(q) == q \in kept
      names == SelectSeq(Quants, IsKept)
  IN [i \in DOMAIN names |-> [id |-> <<c.id, names[i]>>, quant |-> names[i]]]

Candidates(read, f) ==
  LET InRead(c) == c.id \in read
      sizes == SelectSeq(Curated, InRead)
  IN [i \in DOMAIN sizes |-> sizes[i] @@ [files |-> FilesOf(sizes[i], f[sizes[i].id])]]

Mapping ==
  [n \in Names, q \in QuantSet, read \in SUBSET Sizes, f \in [Sizes -> SUBSET QuantSet] |->
     MatchInstalled(Reads[n] @@ [quant |-> q], Candidates(read, f))]

Init ==
  /\ runtime = [n \in Names |-> Quants[1]] /\ serving = TRUE
  /\ edition = DOMAIN Curated
  /\ hub = [s \in Sizes |-> {Quants[1]}]
  /\ changes = 0
  /\ rows = [n \in Names |-> NoRow]
  /\ match = [n \in Names |-> NoMatch]
  /\ shown = edition
  /\ files = [s \in Sizes |-> {}]
  /\ latest = None
  /\ task = [t \in Tasks |-> None] /\ at = [t \in Tasks |-> "idle"]
  /\ target = [t \in Tasks |-> None]
  /\ saw = [t \in Tasks |-> None]
  /\ listed = [t \in Tasks |-> [n \in Names |-> None]]
  /\ cat = [t \in Tasks |-> [sizes |-> {}, files |-> [s \in Sizes |-> {}]]]
  /\ found = [t \in Tasks |-> [n \in Names |-> NoRow]]
  /\ marks = [t \in Tasks |-> {}]

-----------------------------------------------------------------------------
(* Outside: the user pulls or deletes with the runtime's own program, the  *)
(* runtime stops and starts, a repository gets or loses a file.            *)
UserChanges(n) ==
  /\ serving /\ Spend
  /\ \E q \in (QuantSet \cup {None}) \ {runtime[n]} : runtime' = [runtime EXCEPT ![n] = q]
  /\ marks' = [t \in Tasks |-> IF target[t] = n THEN marks[t] \cup {"pulled"} ELSE marks[t]]
  /\ UNCHANGED <<serving, hub, edition, storeVars, task, at, target, saw, listed, cat, found>>

RuntimeFlips ==
  /\ Spend
  /\ serving' = ~serving
  /\ UNCHANGED <<runtime, hub, edition, storeVars, taskVars>>

HubChanges(s) ==
  /\ Spend
  /\ \E q \in QuantSet : hub' = [hub EXCEPT ![s] = IF q \in @ THEN @ \ {q} ELSE @ \cup {q}]
  /\ UNCHANGED <<runtime, serving, edition, storeVars, taskVars>>

-----------------------------------------------------------------------------
Idle(t) == at[t] = "idle"

(* A task is over: nothing it has read is used again.                      *)
Clear(t) ==
  /\ task' = [task EXCEPT ![t] = None] /\ target' = [target EXCEPT ![t] = None]
  /\ saw' = [saw EXCEPT ![t] = None]
  /\ listed' = [listed EXCEPT ![t] = [n \in Names |-> None]]
  /\ cat' = [cat EXCEPT ![t] = [sizes |-> {}, files |-> [s \in Sizes |-> {}]]]
  /\ found' = [found EXCEPT ![t] = [n \in Names |-> NoRow]]
  /\ marks' = [marks EXCEPT ![t] = {}]

Over(t) == Goto(t, "idle") /\ Clear(t)

(* recordOneBackend: Detect, whose failure answers with the last check.    *)
Detect(t) ==
  /\ Idle(t)
  /\ task' = [task EXCEPT ![t] = "check"]
  /\ saw' = [saw EXCEPT ![t] = IF serving THEN "running" ELSE "stopped"]
  /\ Goto(t, IF serving THEN "list" ELSE "record")
  /\ UNCHANGED <<outside, changes, storeVars, target, listed, cat, found, marks>>

(* Models(): what the runtime has when it answers, or a failure.           *)
List(t) ==
  /\ at[t] = "list" /\ serving
  /\ listed' = [listed EXCEPT ![t] = runtime]
  /\ Goto(t, "upsert")
  /\ UNCHANGED <<outside, changes, storeVars, task, target, saw, cat, found, marks>>

(* A failed call or write is logged, and what follows it goes on.          *)
Fails(t) ==
  /\ at[t] \in {"list", "upsert", "sizes", "files", "rows", "write"}
  /\ (at[t] = "list" /\ ~serving /\ UNCHANGED changes) \/ Spend
  /\ IF task[t] = "refresh" \/ task[t] = "sync" THEN Over(t)
     ELSE Goto(t, IF task[t] = "remove" THEN "answer" ELSE "record")
          /\ UNCHANGED <<task, target, saw, listed, cat, found, marks>>
  /\ UNCHANGED <<outside, storeVars>>

(* A bug: a name the runtime no longer lists stays present.                *)
UpsertAdding(t) ==
  /\ at[t] = "upsert"
  /\ rows' = [n \in Names |-> IF listed[t][n] # None THEN [quant |-> listed[t][n], present |-> TRUE] ELSE rows[n]]
  /\ marks' = [marks EXCEPT ![t] = IF task[t] = "remove" THEN @ \cup {"resynced"} ELSE @]
  /\ Goto(t, IF task[t] = "remove" THEN "answer" ELSE "sizes")
  /\ UNCHANGED <<outside, changes, match, shown, files, latest, task, target, saw, listed, cat, found>>

(* UpsertInstalledModels, one transaction: every row of the runtime is     *)
(* marked absent, what it lists is inserted or updated.  A removal answers *)
(* after it, a check maps.                                                 *)
Upsert(t) ==
  /\ at[t] = "upsert"
  /\ rows' = [n \in Names |-> IF listed[t][n] # None THEN [quant |-> listed[t][n], present |-> TRUE]
                              ELSE [rows[n] EXCEPT !.present = FALSE]]
  /\ marks' = [marks EXCEPT ![t] = IF task[t] = "remove" THEN @ \cup {"resynced"} ELSE @]
  /\ Goto(t, IF task[t] = "remove" THEN "answer" ELSE "sizes")
  /\ UNCHANGED <<outside, changes, match, shown, files, latest, task, target, saw, listed, cat, found>>

-----------------------------------------------------------------------------
(* MapInstalled: CatalogModels reads the sizes and then the files, each in *)
(* a statement, AllInstalledModels the rows, and the matches are written   *)
(* in one transaction.                                                     *)
ReadSizes(t) ==
  /\ at[t] = "sizes"
  /\ cat' = [cat EXCEPT ![t].sizes = shown]
  /\ Goto(t, "files")
  /\ UNCHANGED <<outside, changes, storeVars, task, target, saw, listed, found, marks>>

ReadFiles(t) ==
  /\ at[t] = "files"
  /\ cat' = [cat EXCEPT ![t].files = [s \in Sizes |-> IF s \in cat[t].sizes THEN files[s] ELSE {}]]
  /\ Goto(t, "rows")
  /\ UNCHANGED <<outside, changes, storeVars, task, target, saw, listed, found, marks>>

ReadRows(t) ==
  /\ at[t] = "rows"
  /\ found' = [found EXCEPT ![t] = rows]
  /\ Goto(t, "write")
  /\ UNCHANGED <<outside, changes, storeVars, task, target, saw, listed, cat, marks>>

(* A bug: a row that has a match keeps it.                                 *)
SetMatchesOnce(t) ==
  /\ at[t] = "write"
  /\ match' = [n \in Names |-> IF found[t][n].present /\ match[n].kind = ""
                               THEN Mapping[n, found[t][n].quant, cat[t].sizes, cat[t].files] ELSE match[n]]
  /\ IF task[t] = "check" THEN Goto(t, "record") /\ UNCHANGED <<task, target, saw, listed, cat, found, marks>> ELSE Over(t)
  /\ UNCHANGED <<outside, changes, rows, shown, files, latest>>

SetMatches(t) ==
  /\ at[t] = "write"
  /\ match' = [n \in Names |-> IF found[t][n].present
                               THEN Mapping[n, found[t][n].quant, cat[t].sizes, cat[t].files] ELSE match[n]]
  /\ IF task[t] = "check" THEN Goto(t, "record") /\ UNCHANGED <<task, target, saw, listed, cat, found, marks>> ELSE Over(t)
  /\ UNCHANGED <<outside, changes, rows, shown, files, latest>>

(* RecordBackendOn inserts a row; the newest is the one that is asked for. *)
Record(t) ==
  /\ at[t] = "record"
  /\ latest' = saw[t]
  /\ Over(t)
  /\ UNCHANGED <<outside, changes, rows, match, shown, files>>

-----------------------------------------------------------------------------
(* handleModelRemove.  The Delete may fall after another task's Models()   *)
(* and before that task writes: the removal is crossed.                    *)
Remove(t, n) ==
  /\ Idle(t) /\ serving /\ runtime[n] # None /\ Spend
  /\ runtime' = [runtime EXCEPT ![n] = None]
  /\ task' = [task EXCEPT ![t] = "remove"] /\ target' = [target EXCEPT ![t] = n]
  /\ marks' = [marks EXCEPT ![t] = IF \E u \in Tasks : at[u] = "upsert" THEN {"crossed"} ELSE {}]
  /\ Goto(t, "list")
  /\ UNCHANGED <<serving, hub, edition, storeVars, saw, listed, cat, found>>

(* The answer is the list of present rows as it is now.                    *)
Answer(t) ==
  /\ at[t] = "answer"
  /\ Over(t)
  /\ UNCHANGED <<outside, changes, storeVars>>

-----------------------------------------------------------------------------
(* refresh.Run, one at a time: SyncCatalogModels, each size's files, and   *)
(* the mapping.  A size whose repository cannot be read keeps its files.   *)
BeginRefresh(t) ==
  /\ Idle(t) /\ \A u \in Tasks : task[u] # "refresh"
  /\ task' = [task EXCEPT ![t] = "refresh"]
  /\ shown' = edition
  /\ Goto(t, "refresh")
  /\ UNCHANGED <<outside, changes, rows, match, files, latest, target, saw, listed, cat, found, marks>>

(* RecordCatalogModelRefresh.                                              *)
RecordSize(t, s) ==
  /\ at[t] = "refresh" /\ s \in edition /\ files[s] # hub[s]
  /\ files' = [files EXCEPT ![s] = hub[s]]
  /\ UNCHANGED <<outside, changes, rows, match, shown, latest, taskVars>>

SizesDone(t) ==
  /\ at[t] = "refresh"
  /\ Goto(t, "sizes")
  /\ UNCHANGED <<outside, changes, storeVars, task, target, saw, listed, cat, found, marks>>

(* The program is replaced and starts: SyncCatalogue, before it serves.    *)
Upgrade(t) ==
  /\ Spend
  /\ edition' \in Editions \ {edition}
  /\ shown' = edition'
  /\ task' = [u \in Tasks |-> IF u = t THEN "sync" ELSE None]
  /\ at' = [u \in Tasks |-> IF u = t THEN "sizes" ELSE "idle"]
  /\ target' = [u \in Tasks |-> None] /\ saw' = [u \in Tasks |-> None]
  /\ listed' = [u \in Tasks |-> [n \in Names |-> None]]
  /\ cat' = [u \in Tasks |-> [sizes |-> {}, files |-> [s \in Sizes |-> {}]]]
  /\ found' = [u \in Tasks |-> [n \in Names |-> NoRow]]
  /\ marks' = [u \in Tasks |-> {}]
  /\ UNCHANGED <<runtime, serving, hub, rows, match, files, latest>>

-----------------------------------------------------------------------------
Step(t) ==
  \/ List(t) \/ Fails(t) \/ Upsert(t) \/ ReadSizes(t) \/ ReadFiles(t) \/ ReadRows(t)
  \/ SetMatches(t) \/ Record(t) \/ Answer(t) \/ SizesDone(t)
Check == \E t \in Tasks : Detect(t)

Next ==
  \/ RuntimeFlips \/ Check
  \/ \E n \in Names : UserChanges(n)
  \/ \E s \in Sizes : HubChanges(s)
  \/ \E t \in Tasks :
       \/ Step(t) \/ BeginRefresh(t) \/ Upgrade(t)
       \/ \E n \in Names : Remove(t, n)
       \/ \E s \in Sizes : RecordSize(t, s)

Spec == Init /\ [][Next]_vars

(* Every call has a timeout, so a task goes on; and the screens ask for    *)
(* the runtimes whenever they are opened, so another check always comes.   *)
Fairness == WF_vars(Check) /\ \A t \in Tasks : WF_vars(Step(t))
FairSpec == Spec /\ Fairness

-----------------------------------------------------------------------------
(* Every variable holds values of its kind (the tables, and the values     *)
(* recordOneBackend and MapInstalled hold between two statements).         *)
TypeOK ==
  /\ runtime \in [Names -> QuantSet \cup {None}] /\ serving \in BOOLEAN
  /\ hub \in [Sizes -> SUBSET QuantSet] /\ edition \in Editions /\ changes \in 0..MaxChanges
  /\ rows \in [Names -> [quant : QuantSet \cup {None}, present : BOOLEAN]]
  /\ \A n \in Names : match[n].kind \in {"", "unknown", "model", "file"} /\ match[n].model \in Sizes \cup {0}
  /\ shown \in Editions /\ files \in [Sizes -> SUBSET QuantSet] /\ latest \in {None, "running", "stopped"}
  /\ task \in [Tasks -> {None, "check", "remove", "refresh", "sync"}]
  /\ at \in [Tasks -> {"idle", "list", "upsert", "sizes", "files", "rows", "write", "record", "answer", "refresh"}]
  /\ target \in [Tasks -> Names \cup {None}] /\ marks \in [Tasks -> SUBSET {"resynced", "crossed", "pulled"}]

(* The inventory and the latest check agree with the runtime and the list. *)
Mirrored ==
  /\ \A n \in Names :
       /\ rows[n].present = (runtime[n] # None)
       /\ rows[n].present => rows[n].quant = runtime[n] /\ match[n] = Mapping[n, rows[n].quant, shown, files]
  /\ latest = "running"

(* Once the outside is still and the runtime runs, the inventory comes to  *)
(* agree with it and stays so: what is present, in which quant, which size *)
(* and file it is, and that the runtime runs, whatever older checks,       *)
(* refreshes and failures were under way (recordOneBackend: "installed_    *)
(* models stays current without the user doing anything").                 *)
EventuallyMirrored == <>[](serving => Mirrored)

AnswersRemoval(t) == Answer(t) /\ task[t] = "remove" /\ "resynced" \in marks[t] /\ "pulled" \notin marks[t]

(* A removal whose resync was written does not answer with the model it    *)
(* removed, unless another task had read the runtime's list before the     *)
(* Delete and wrote it after (handleModelRemove, UpsertInstalledModels).   *)
RemovalIsSeen == [][\A t \in Tasks : AnswersRemoval(t) /\ "crossed" \notin marks[t] => ~rows[target[t]].present]_vars

(* The claim of the handler's comment (remove.go:54-56): the answer        *)
(* reflects the removal, whoever else is at it.                            *)
RemovalIsSeenAlways == [][\A t \in Tasks : AnswersRemoval(t) => ~rows[target[t]].present]_vars
=============================================================================
