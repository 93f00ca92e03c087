--------------------------- MODULE CatalogueProofs ----------------------------
(***************************************************************************)
(* What is known of the catalogue never goes back, for any number of       *)
(* refreshes, sizes, revisions and stops; and a removal is answered        *)
(* without the model it removed, for any number of tasks, models and       *)
(* changes outside.                                                        *)
(***************************************************************************)
EXTENDS MCCatalogue, TLAPS

(* The kinds of the variables that the proof needs.                        *)
Kinds ==
  /\ repo \in [Refreshed -> Nat] /\ rev \in [Refreshed -> Nat]
  /\ pc \in [R!Calls -> {"idle", "sync", "sizes", "unlock", "done", "public", "sources", "over"}]
  /\ todo \in [R!Calls -> SUBSET Refreshed]
  /\ read \in [R!Calls -> [size : Refreshed, rev : Nat] \cup {R!Nothing}]

Inside == {"sync", "sizes", "unlock"}

(* Who is between TryLock and Unlock is the one that holds the lock.       *)
Sole == \A c \in R!Calls : pc[c] \in Inside => running = c

(* What the Hub has is no older than what was read of it, nor that than    *)
(* what is stored.                                                         *)
Stored == \A s \in Refreshed : rev[s] <= repo[s]
ReadIsNewer == \A c \in R!Calls : read[c] # R!Nothing =>
                  /\ pc[c] = "sizes"
                  /\ read[c].size \in Refreshed /\ read[c].rev \in Nat
                  /\ rev[read[c].size] <= read[c].rev
                  /\ read[c].rev <= repo[read[c].size]

Known == Kinds /\ Sole /\ Stored /\ ReadIsNewer

LEMMA KnownInit == R!Init => Known
<1> SUFFICES ASSUME R!Init PROVE Known
  OBVIOUS
<1>1. Kinds
  BY DEF R!Init, Kinds
<1>2. Sole
  BY DEF R!Init, Sole, Inside
<1>3. Stored
  BY DEF R!Init, Stored
<1>4. ReadIsNewer
  BY DEF R!Init, ReadIsNewer
<1> QED
  BY <1>1, <1>2, <1>3, <1>4 DEF Known

LEMMA KnownStutter == ASSUME Known, UNCHANGED R!vars PROVE Known'
  BY DEF Known, Kinds, Sole, Inside, Stored, ReadIsNewer, R!Nothing,
         R!vars, R!lockVars, R!storeVars, R!reqVars

(* A step that moves nobody and touches nothing the invariant is about.    *)
LEMMA KnownSame ==
  ASSUME Known, UNCHANGED <<repo, rev, read, pc, running>>, todo' \in [R!Calls -> SUBSET Refreshed]
  PROVE  Known'
  BY DEF Known, Kinds, Sole, Stored, ReadIsNewer

(* A step that moves one request and touches neither the Hub nor what is   *)
(* read or stored, and enters the lock only by taking it.                  *)
LEMMA KnownMoves ==
  ASSUME Known, NEW c \in R!Calls, UNCHANGED <<repo, rev, read>>, todo' \in [R!Calls -> SUBSET Refreshed],
         NEW where \in {"sizes", "unlock", "done", "public", "sources", "over", "idle"},
         R!Goto(c, where), read[c] = R!Nothing,
         where \in Inside => pc[c] \in Inside,
         running' = running
  PROVE  Known'
<1>1. Kinds'
  BY DEF Known, Kinds, R!Goto
<1>2. Sole'
  BY DEF Known, Kinds, Sole, Inside, R!Goto
<1>3. Stored'
  BY DEF Known, Stored
<1>4. ReadIsNewer'
  <2> SUFFICES ASSUME NEW d \in R!Calls, read[d] # R!Nothing PROVE ReadIsNewer!(d)'
    BY DEF ReadIsNewer
  <2>1. d # c /\ pc'[d] = pc[d]
    BY DEF Known, Kinds, R!Goto
  <2> QED
    BY <2>1 DEF Known, ReadIsNewer
<1> QED
  BY <1>1, <1>2, <1>3, <1>4 DEF Known

(* Taking the lock and giving it back.                                     *)
LEMMA KnownLocks ==
  ASSUME "free" \notin R!Calls, Known, NEW c \in R!Calls, R!Begin(c) \/ R!Unlock(c)
  PROVE  Known'
<1>1. /\ UNCHANGED <<repo, rev, read, todo>>
      /\ \/ pc[c] = "idle" /\ running = "free" /\ running' = c /\ R!Goto(c, "sync")
         \/ pc[c] = "unlock" /\ running' = "free"
            /\ \E where \in {"over", "done"} : R!Goto(c, where)
  BY DEF R!Begin, R!Unlock, R!reqVars, R!storeVars
<1>2. Kinds'
  BY <1>1 DEF Known, Kinds, R!Goto
<1>3. Sole'
  BY <1>1 DEF Known, Kinds, Sole, Inside, R!Goto
<1>4. Stored'
  BY <1>1 DEF Known, Stored
<1>5. ReadIsNewer'
  BY <1>1 DEF Known, Kinds, ReadIsNewer, R!Goto
<1> QED
  BY <1>2, <1>3, <1>4, <1>5 DEF Known

(* A size is read: as the Hub has it now, which is no older than what is   *)
(* stored.                                                                 *)
LEMMA KnownReads ==
  ASSUME Known, NEW c \in R!Calls, NEW s \in Refreshed, R!ReadSize(c, s)
  PROVE  Known'
<1>1. /\ pc[c] = "sizes" /\ UNCHANGED <<repo, rev, pc, running>>
      /\ read' = [read EXCEPT ![c] = [size |-> s, rev |-> repo[s]]]
      /\ todo' = [todo EXCEPT ![c] = @ \ {s}]
  BY DEF R!ReadSize, R!lockVars, R!storeVars
<1>2. Kinds'
  BY <1>1 DEF Known, Kinds
<1>3. Sole' /\ Stored'
  BY <1>1 DEF Known, Sole, Stored
<1>4. ReadIsNewer'
  <2> SUFFICES ASSUME NEW d \in R!Calls, read'[d] # R!Nothing PROVE ReadIsNewer!(d)'
    BY DEF ReadIsNewer
  <2>1. CASE d = c
    BY <1>1, <2>1 DEF Known, Kinds, Stored
  <2>2. CASE d # c
    BY <1>1, <2>2 DEF Known, Kinds, ReadIsNewer
  <2> QED
    BY <2>1, <2>2
<1> QED
  BY <1>2, <1>3, <1>4 DEF Known

(* It is stored: nobody else holds the lock, so nobody else has read       *)
(* anything that this could overtake.                                      *)
LEMMA KnownRecords ==
  ASSUME Known, NEW c \in R!Calls, R!RecordSize(c)
  PROVE  Known' /\ \A s \in Refreshed : rev'[s] >= rev[s]
<1> DEFINE size == read[c].size
<1>1. /\ pc[c] = "sizes" /\ read[c] # R!Nothing /\ UNCHANGED <<repo, pc, todo, running>>
      /\ rev' = [rev EXCEPT ![size] = read[c].rev]
      /\ read' = [read EXCEPT ![c] = R!Nothing]
  BY DEF R!RecordSize, R!lockVars
<1>2. /\ size \in Refreshed /\ read[c].rev \in Nat
      /\ rev[size] <= read[c].rev /\ read[c].rev <= repo[size]
  BY <1>1 DEF Known, ReadIsNewer
<1>3. \A d \in R!Calls : d # c => read[d] = R!Nothing
  BY <1>1 DEF Known, Sole, Inside, ReadIsNewer
<1> HIDE DEF size
<1>4. Kinds'
  BY <1>1, <1>2 DEF Known, Kinds
<1>5. Sole'
  BY <1>1 DEF Known, Sole
<1>6. Stored'
  BY <1>1, <1>2 DEF Known, Kinds, Stored
<1>7. ReadIsNewer'
  BY <1>1, <1>3 DEF Known, Kinds, ReadIsNewer
<1>8. \A s \in Refreshed : rev'[s] >= rev[s]
  BY <1>1, <1>2 DEF Known, Kinds
<1> QED
  BY <1>4, <1>5, <1>6, <1>7, <1>8 DEF Known

(* The models half ends, whatever was read and not stored.                 *)
LEMMA KnownEnds ==
  ASSUME Known, NEW c \in R!Calls, R!RunFails(c) \/ R!RunEnds(c)
  PROVE  Known'
<1>1. /\ pc[c] \in {"sync", "sizes"} /\ UNCHANGED <<repo, rev, running>>
      /\ R!Goto(c, "unlock")
      /\ todo' = [todo EXCEPT ![c] = {}] /\ read' = [read EXCEPT ![c] = R!Nothing]
  BY DEF R!RunFails, R!RunEnds, R!EndModels
<1>2. Kinds'
  BY <1>1 DEF Known, Kinds, R!Goto
<1>3. Sole'
  BY <1>1 DEF Known, Kinds, Sole, Inside, R!Goto
<1>4. Stored'
  BY <1>1 DEF Known, Stored
<1>5. ReadIsNewer'
  BY <1>1 DEF Known, Kinds, ReadIsNewer, R!Goto
<1> QED
  BY <1>2, <1>3, <1>4, <1>5 DEF Known

(* The rest of a request.                                                  *)
LEMMA KnownGoesOn ==
  ASSUME Known, NEW c \in R!Calls,
         R!Refused(c) \/ R!Sync(c) \/ R!After(c) \/ R!ClientGoes(c) \/ R!AskAgain(c)
  PROVE  Known'
<1>1. CASE R!ClientGoes(c)
  <2>1. UNCHANGED <<repo, rev, read, pc, running, todo>>
    BY <1>1 DEF R!ClientGoes, R!lockVars, R!storeVars
  <2>2. todo' \in [R!Calls -> SUBSET Refreshed]
    BY <2>1 DEF Known, Kinds
  <2> QED
    BY <2>1, <2>2, KnownSame
<1>2. CASE R!Refused(c)
  <2>1. /\ pc[c] = "idle" /\ R!Goto(c, "over")
        /\ UNCHANGED <<repo, rev, read, running, todo>>
    BY <1>2 DEF R!Refused, R!lockVars, R!storeVars
  <2>2. read[c] = R!Nothing /\ todo' \in [R!Calls -> SUBSET Refreshed]
    BY <2>1 DEF Known, Kinds, ReadIsNewer
  <2> QED
    BY <2>1, <2>2, KnownMoves DEF Inside
<1>3. CASE R!Sync(c)
  <2>1. todo' \in [R!Calls -> SUBSET Refreshed]
    BY <1>3 DEF R!Sync, Known, Kinds
  <2>2. /\ pc[c] = "sync" /\ read[c] = R!Nothing /\ R!Goto(c, "sizes")
        /\ UNCHANGED <<repo, rev, read, running>>
    BY <1>3 DEF R!Sync, R!lockVars, R!storeVars, Known, ReadIsNewer
  <2> QED
    BY <2>1, <2>2, KnownMoves DEF Inside
<1>4. CASE R!After(c)
  <2>1. /\ pc[c] \in {"done", "public", "sources"}
        /\ \E where \in {"public", "over", "sources"} : R!Goto(c, where)
        /\ UNCHANGED <<repo, rev, read, todo, running>>
    BY <1>4 DEF R!After, R!SendResult, R!NoPublic, R!BeginPublic, R!EndPublic, R!lockVars, R!storeVars
  <2>2. read[c] = R!Nothing /\ todo' \in [R!Calls -> SUBSET Refreshed]
    BY <2>1 DEF Known, Kinds, ReadIsNewer
  <2>3. PICK where \in {"public", "over", "sources"} : R!Goto(c, where)
    BY <2>1
  <2> QED
    BY <2>1, <2>2, <2>3, KnownMoves DEF Inside
<1>5. CASE R!AskAgain(c)
  BY <1>5, KnownMoves DEF R!AskAgain, R!lockVars, R!storeVars, Known, Kinds, ReadIsNewer, Inside
<1> QED
  BY <1>1, <1>2, <1>3, <1>4, <1>5

LEMMA KnownSizeFails ==
  ASSUME Known, NEW c \in R!Calls, NEW s \in Refreshed, NEW unreachable \in BOOLEAN,
         R!SizeFails(c, s, unreachable)
  PROVE  Known'
<1>1. todo' \in [R!Calls -> SUBSET Refreshed]
  BY DEF R!SizeFails, Known, Kinds
<1> QED
  BY <1>1, KnownSame DEF R!SizeFails, R!lockVars

(* Outside the requests.                                                   *)
LEMMA KnownAround ==
  ASSUME Known, R!Stop \/ R!Start \/ \E s \in Refreshed : R!HubChanges(s)
  PROVE  Known'
<1>1. CASE R!Stop
  <2>1. /\ pc' = [c \in R!Calls |-> "idle"] /\ todo' = [c \in R!Calls |-> {}]
        /\ read' = [c \in R!Calls |-> R!Nothing] /\ UNCHANGED <<repo, rev>>
    BY <1>1 DEF R!Stop, R!storeVars
  <2>2. Kinds'
    BY <2>1 DEF Known, Kinds
  <2>3. Sole' /\ Stored' /\ ReadIsNewer'
    BY <2>1 DEF Known, Sole, Inside, Stored, ReadIsNewer
  <2> QED
    BY <2>2, <2>3 DEF Known
<1>2. CASE R!Start
  BY <1>2, KnownSame DEF R!Start, R!lockVars, R!reqVars, R!storeVars, Known, Kinds
<1>3. ASSUME NEW s \in Refreshed, R!HubChanges(s) PROVE Known'
  <2>1. repo' = [repo EXCEPT ![s] = @ + 1] /\ UNCHANGED <<rev, read, pc, todo, running>>
    BY <1>3 DEF R!HubChanges, R!lockVars, R!reqVars, R!storeVars
  <2>2. Kinds' /\ Sole'
    BY <2>1 DEF Known, Kinds, Sole
  <2>3. Stored'
    BY <2>1 DEF Known, Kinds, Stored
  <2>4. ReadIsNewer'
    <3> SUFFICES ASSUME NEW d \in R!Calls, read[d] # R!Nothing PROVE ReadIsNewer!(d)'
      BY <2>1 DEF ReadIsNewer
    <3>1. /\ pc[d] = "sizes" /\ read[d].size \in Refreshed /\ read[d].rev \in Nat
          /\ rev[read[d].size] <= read[d].rev /\ read[d].rev <= repo[read[d].size]
      BY DEF Known, ReadIsNewer
    <3>2. repo[read[d].size] \in Nat /\ repo'[read[d].size] >= repo[read[d].size]
      BY <2>1, <3>1 DEF Known, Kinds
    <3>3. repo'[read[d].size] \in Nat
      BY <2>2, <3>1 DEF Kinds
    <3> QED
      BY <2>1, <3>1, <3>2, <3>3
  <2> QED
    BY <2>2, <2>3, <2>4 DEF Known
<1> QED
  BY <1>1, <1>2, <1>3

LEMMA KnownNext ==
  ASSUME "free" \notin R!Calls, Known, [R!Next]_(R!vars)
  PROVE  Known'
<1>1. CASE UNCHANGED R!vars
  BY <1>1, KnownStutter
<1>2. CASE R!Stop \/ R!Start \/ \E s \in Refreshed : R!HubChanges(s)
  BY <1>2, KnownAround
<1>3. ASSUME NEW c \in R!Calls, R!Begin(c) \/ R!Refused(c) \/ R!Models(c) \/ R!After(c) \/ R!ClientGoes(c) \/ R!AskAgain(c)
      PROVE  Known'
  <2>1. CASE R!Begin(c) \/ R!Unlock(c)
    BY <2>1, KnownLocks
  <2>2. CASE R!Refused(c) \/ R!Sync(c) \/ R!After(c) \/ R!ClientGoes(c) \/ R!AskAgain(c)
    BY <2>2, KnownGoesOn
  <2>3. CASE R!RecordSize(c)
    BY <2>3, KnownRecords
  <2>4. CASE R!RunFails(c) \/ R!RunEnds(c)
    BY <2>4, KnownEnds
  <2>5. ASSUME NEW s \in Refreshed, R!ReadSize(c, s) PROVE Known'
    BY <2>5, KnownReads
  <2>6. ASSUME NEW s \in Refreshed, NEW unreachable \in BOOLEAN, R!SizeFails(c, s, unreachable) PROVE Known'
    BY <2>6, KnownSizeFails
  <2> QED
    BY <1>3, <2>1, <2>2, <2>3, <2>4, <2>5, <2>6 DEF R!Models
<1> QED
  BY <1>1, <1>2, <1>3 DEF R!Next

(* No step changes what is stored but RecordSize.                          *)
LEMMA OnlyRecords ==
  ASSUME [R!Next]_(R!vars)
  PROVE  rev' = rev \/ \E c \in R!Calls : R!RecordSize(c)
<1>1. CASE UNCHANGED R!vars
  BY <1>1 DEF R!vars, R!storeVars
<1>2. CASE R!Stop \/ R!Start \/ \E s \in Refreshed : R!HubChanges(s)
  BY <1>2 DEF R!Stop, R!Start, R!HubChanges, R!storeVars
<1>3. ASSUME NEW c \in R!Calls, R!Begin(c) \/ R!Refused(c) \/ R!Models(c) \/ R!After(c) \/ R!ClientGoes(c) \/ R!AskAgain(c)
      PROVE  rev' = rev \/ R!RecordSize(c)
  <2>1. CASE R!Begin(c) \/ R!Refused(c) \/ R!ClientGoes(c) \/ R!AskAgain(c)
    BY <2>1 DEF R!Begin, R!Refused, R!ClientGoes, R!AskAgain, R!storeVars
  <2>2. CASE R!After(c)
    BY <2>2 DEF R!After, R!SendResult, R!NoPublic, R!BeginPublic, R!EndPublic, R!storeVars
  <2>3. CASE R!Models(c)
    BY <2>3 DEF R!Models, R!Sync, R!RunFails, R!RunEnds, R!EndModels, R!Unlock, R!ReadSize, R!SizeFails, R!storeVars
  <2> QED
    BY <1>3, <2>1, <2>2, <2>3
<1> QED
  BY <1>1, <1>2, <1>3 DEF R!Next

(* No refresh stores a size as older than it is known, whoever refreshes,  *)
(* fails, goes away or is stopped (TryLock; RecordCatalogModelRefresh).    *)
THEOREM NothingGoesBack == ASSUME "free" \notin R!Calls PROVE R!Spec => NeverGoesBack
<1>1. R!Init => Known
  BY KnownInit
<1>2. Known /\ [R!Next]_(R!vars) => Known'
  BY KnownNext
<1>3. Known /\ [R!Next]_(R!vars) => [\A s \in Refreshed : rev'[s] >= rev[s]]_rev
  BY OnlyRecords, KnownRecords
<1> QED
  BY <1>1, <1>2, <1>3, PTL DEF R!Spec, NeverGoesBack, R!NeverGoesBack
-----------------------------------------------------------------------------
(* The inventory.                                                          *)
QuantOrNone == QuantSet \cup {None}
RowType == [quant : QuantOrNone, present : BOOLEAN]

InventoryKinds ==
  /\ runtime \in [Names -> QuantOrNone] /\ rows \in [Names -> RowType]
  /\ listed \in [Tasks -> [Names -> QuantOrNone]]
  /\ task \in [Tasks -> {None, "check", "remove", "refresh", "sync"}]
  /\ at \in [Tasks -> {"idle", "list", "upsert", "sizes", "files", "rows", "write", "record", "answer", "refresh"}]
  /\ target \in [Tasks -> Names \cup {None}]
  /\ marks \in [Tasks -> SUBSET {"resynced", "crossed", "pulled"}]

(* A removal nothing has come between.                                     *)
Plain(t) == task[t] = "remove" /\ marks[t] \cap {"crossed", "pulled"} = {}

(* The model it removes is not in the runtime, nor in any list that is     *)
(* still to be written, nor, once its own is written, in the table.        *)
Removed ==
  \A t \in Tasks :
    /\ task[t] = "remove" => target[t] \in Names /\ at[t] \in {"list", "upsert", "answer"}
    /\ "resynced" \in marks[t] => task[t] = "remove" /\ at[t] = "answer"
    /\ Plain(t) =>
         /\ runtime[target[t]] = None
         /\ \A u \in Tasks : at[u] = "upsert" => listed[u][target[t]] = None
         /\ "resynced" \in marks[t] => ~rows[target[t]].present

InventoryInv == InventoryKinds /\ Removed

LEMMA InventoryStarts == ASSUME None # "remove" PROVE Init => InventoryInv
<1>1. Quants[1] \in QuantOrNone
  BY InventoryAssumption DEF QuantOrNone, QuantSet
<1>2. Init => InventoryKinds
  BY <1>1 DEF Init, InventoryKinds, QuantOrNone, RowType, NoRow
<1> QED
  BY <1>2 DEF Init, InventoryInv, Removed, Plain

(* A step that no removal is about.                                        *)
LEMMA InventoryKeeps ==
  ASSUME InventoryInv, UNCHANGED <<runtime, rows, listed, task, target, marks>>, NEW t \in Tasks,
         NEW where \in {"idle", "list", "sizes", "files", "rows", "write", "record", "answer", "refresh"},
         at' = at \/ (Goto(t, where) /\ (task[t] = "remove" => where = "answer"))
  PROVE  InventoryInv'
<1>1. CASE at' = at
  BY <1>1 DEF InventoryInv, InventoryKinds, Removed, Plain
<1>2. CASE Goto(t, where) /\ (task[t] = "remove" => where = "answer")
  <2>1. at' = [at EXCEPT ![t] = where]
    BY <1>2 DEF Goto
  <2>2. InventoryKinds'
    BY <2>1 DEF InventoryInv, InventoryKinds
  <2>3. Removed'
    BY <1>2, <2>1 DEF InventoryInv, InventoryKinds, Removed, Plain
  <2> QED
    BY <2>2, <2>3 DEF InventoryInv
<1> QED
  BY <1>1, <1>2

(* A task ends; a check or a refresh begins.                               *)
LEMMA InventoryEnds ==
  ASSUME None # "remove", InventoryInv, NEW t \in Tasks, Over(t), UNCHANGED <<runtime, rows>>
  PROVE  InventoryInv'
<1>1. /\ at' = [at EXCEPT ![t] = "idle"] /\ task' = [task EXCEPT ![t] = None]
      /\ target' = [target EXCEPT ![t] = None]
      /\ listed' = [listed EXCEPT ![t] = [n \in Names |-> None]]
      /\ marks' = [marks EXCEPT ![t] = {}]
  BY DEF Over, Goto, Clear
<1>2. InventoryKinds'
  BY <1>1 DEF InventoryInv, InventoryKinds, QuantOrNone
<1>3. Removed'
  <2> SUFFICES ASSUME NEW r \in Tasks PROVE Removed!(r)'
    BY DEF Removed
  <2>1. CASE r = t
    BY <1>1, <2>1 DEF InventoryInv, InventoryKinds, Plain
  <2>2. CASE r # t
    BY <1>1, <2>2 DEF InventoryInv, InventoryKinds, Removed, Plain
  <2> QED
    BY <2>1, <2>2
<1> QED
  BY <1>2, <1>3 DEF InventoryInv

LEMMA InventoryBegins ==
  ASSUME InventoryInv, NEW t \in Tasks, Detect(t) \/ BeginRefresh(t)
  PROVE  InventoryInv'
<1>1. /\ at[t] = "idle" /\ UNCHANGED <<runtime, rows, listed, target, marks>>
      /\ \E where \in {"list", "record", "refresh"} : at' = [at EXCEPT ![t] = where]
      /\ \E kind \in {"check", "refresh"} : task' = [task EXCEPT ![t] = kind]
  <2>1. CASE Detect(t)
    BY <2>1 DEF Detect, Idle, Goto, outside, storeVars
  <2>2. CASE BeginRefresh(t)
    BY <2>2 DEF BeginRefresh, Idle, Goto, outside
  <2> QED
    BY <2>1, <2>2
<1>2. InventoryKinds'
  BY <1>1 DEF InventoryInv, InventoryKinds
<1>3. Removed'
  BY <1>1 DEF InventoryInv, InventoryKinds, Removed, Plain
<1> QED
  BY <1>2, <1>3 DEF InventoryInv

(* The list is taken, and written: what a plain removal removes is not on  *)
(* it.                                                                     *)
LEMMA InventoryLists ==
  ASSUME InventoryInv, NEW t \in Tasks, List(t)
  PROVE  InventoryInv'
<1>1. /\ at[t] = "list" /\ UNCHANGED <<runtime, rows, task, target, marks>>
      /\ listed' = [listed EXCEPT ![t] = runtime] /\ at' = [at EXCEPT ![t] = "upsert"]
  BY DEF List, Goto, outside, storeVars
<1>2. InventoryKinds'
  BY <1>1 DEF InventoryInv, InventoryKinds
<1>3. Removed'
  BY <1>1 DEF InventoryInv, InventoryKinds, Removed, Plain
<1> QED
  BY <1>2, <1>3 DEF InventoryInv

LEMMA InventoryWrites ==
  ASSUME InventoryInv, NEW t \in Tasks, Upsert(t)
  PROVE  InventoryInv'
<1>1. /\ at[t] = "upsert" /\ UNCHANGED <<runtime, listed, task, target>>
      /\ rows' = [n \in Names |-> IF listed[t][n] # None THEN [quant |-> listed[t][n], present |-> TRUE]
                                  ELSE [rows[n] EXCEPT !.present = FALSE]]
      /\ marks' = [marks EXCEPT ![t] = IF task[t] = "remove" THEN @ \cup {"resynced"} ELSE @]
      /\ at' = [at EXCEPT ![t] = IF task[t] = "remove" THEN "answer" ELSE "sizes"]
  BY DEF Upsert, Goto, outside
<1>2. ASSUME NEW n \in Names
      PROVE  rows'[n] \in RowType /\ (listed[t][n] = None => ~rows'[n].present)
  <2>1. rows[n] \in RowType /\ listed[t][n] \in QuantOrNone
    BY DEF InventoryInv, InventoryKinds
  <2>2. CASE listed[t][n] # None
    BY <1>1, <2>1, <2>2 DEF RowType
  <2>3. CASE listed[t][n] = None
    BY <1>1, <2>1, <2>3 DEF RowType
  <2> QED
    BY <2>2, <2>3
<1>3. InventoryKinds'
  <2>1. rows' \in [Names -> RowType]
    BY <1>1, <1>2
  <2> QED
    BY <1>1, <2>1 DEF InventoryInv, InventoryKinds
<1>4. Removed'
  <2> SUFFICES ASSUME NEW r \in Tasks PROVE Removed!(r)'
    BY DEF Removed
  <2>1. /\ marks'[r] \cap {"crossed", "pulled"} = marks[r] \cap {"crossed", "pulled"}
        /\ "resynced" \in marks'[r] => "resynced" \in marks[r] \/ (r = t /\ task[t] = "remove")
    BY <1>1 DEF InventoryInv, InventoryKinds
  <2>2. /\ task'[r] = "remove" => target'[r] \in Names /\ at'[r] \in {"list", "upsert", "answer"}
        /\ "resynced" \in marks'[r] => task'[r] = "remove" /\ at'[r] = "answer"
    BY <1>1, <2>1 DEF InventoryInv, InventoryKinds, Removed
  <2>3. ASSUME Plain(r)'
        PROVE  /\ runtime'[target'[r]] = None
               /\ \A u \in Tasks : at'[u] = "upsert" => listed'[u][target'[r]] = None
               /\ ~rows'[target'[r]].present
    <3>1. Plain(r) /\ target[r] \in Names
      BY <1>1, <2>1, <2>3 DEF Plain, InventoryInv, Removed
    <3>2. listed[t][target[r]] = None /\ runtime[target[r]] = None
      BY <1>1, <3>1 DEF InventoryInv, Removed
    <3>3. \A u \in Tasks : at'[u] = "upsert" => at[u] = "upsert"
      BY <1>1 DEF InventoryInv, InventoryKinds
    <3> QED
      BY <1>1, <1>2, <3>1, <3>2, <3>3 DEF InventoryInv, Removed
  <2> QED
    BY <2>2, <2>3
<1> QED
  BY <1>3, <1>4 DEF InventoryInv

(* The model is deleted: whoever has still to write a list read before it  *)
(* crosses the removal.                                                    *)
LEMMA InventoryRemoves ==
  ASSUME InventoryInv, NEW t \in Tasks, NEW n \in Names, Remove(t, n)
  PROVE  InventoryInv'
<1>1. /\ at[t] = "idle" /\ UNCHANGED <<rows, listed>>
      /\ runtime' = [runtime EXCEPT ![n] = None]
      /\ task' = [task EXCEPT ![t] = "remove"] /\ target' = [target EXCEPT ![t] = n]
      /\ marks' = [marks EXCEPT ![t] = IF \E u \in Tasks : at[u] = "upsert" THEN {"crossed"} ELSE {}]
      /\ at' = [at EXCEPT ![t] = "list"]
  BY DEF Remove, Idle, Goto, storeVars
<1>2. InventoryKinds'
  BY <1>1 DEF InventoryInv, InventoryKinds, QuantOrNone
<1>3. Removed'
  <2> SUFFICES ASSUME NEW r \in Tasks PROVE Removed!(r)'
    BY DEF Removed
  <2>1. CASE r = t
    <3>1. /\ task'[r] = "remove" /\ target'[r] = n /\ at'[r] = "list" /\ "resynced" \notin marks'[r]
          /\ runtime'[n] = None
      BY <1>1, <2>1 DEF InventoryInv, InventoryKinds
    <3>2. Plain(r)' => \A u \in Tasks : at[u] # "upsert"
      BY <1>1, <2>1 DEF Plain, InventoryInv, InventoryKinds
    <3>3. \A u \in Tasks : at'[u] = "upsert" => at[u] = "upsert"
      BY <1>1 DEF InventoryInv, InventoryKinds
    <3> QED
      BY <3>1, <3>2, <3>3
  <2>2. CASE r # t
    <3>1. task'[r] = task[r] /\ target'[r] = target[r] /\ marks'[r] = marks[r] /\ at'[r] = at[r]
      BY <1>1, <2>2 DEF InventoryInv, InventoryKinds
    <3>2. \A u \in Tasks : at'[u] = "upsert" => at[u] = "upsert"
      BY <1>1 DEF InventoryInv, InventoryKinds
    <3>3. \A k \in Names : runtime[k] = None => runtime'[k] = None
      BY <1>1 DEF InventoryInv, InventoryKinds
    <3> QED
      BY <1>1, <3>1, <3>2, <3>3 DEF InventoryInv, Removed, Plain
  <2> QED
    BY <2>1, <2>2
<1> QED
  BY <1>2, <1>3 DEF InventoryInv

(* Outside: what is pulled again is marked on every removal of it; a new   *)
(* program begins with no task but its own.                                *)
LEMMA InventoryAround ==
  ASSUME None # "remove", InventoryInv,
         \/ RuntimeFlips \/ \E n \in Names : UserChanges(n)
         \/ \E s \in Sizes : HubChanges(s)
         \/ \E t \in Tasks : Upgrade(t) \/ \E s \in Sizes : RecordSize(t, s)
  PROVE  InventoryInv'
<1>1. CASE \E n \in Names : UserChanges(n)
  <2>1. PICK n \in Names : UserChanges(n)
    BY <1>1
  <2>2. PICK q \in QuantOrNone : runtime' = [runtime EXCEPT ![n] = q]
    BY <2>1 DEF UserChanges, QuantOrNone
  <2>3. /\ UNCHANGED <<rows, listed, task, at, target>>
        /\ marks' = [t \in Tasks |-> IF target[t] = n THEN marks[t] \cup {"pulled"} ELSE marks[t]]
    BY <2>1 DEF UserChanges, storeVars
  <2>4. InventoryKinds'
    BY <2>2, <2>3 DEF InventoryInv, InventoryKinds
  <2>5. Removed'
    <3> SUFFICES ASSUME NEW r \in Tasks PROVE Removed!(r)'
      BY DEF Removed
    <3>1. CASE target[r] = n
      BY <2>3, <3>1 DEF InventoryInv, Removed, Plain
    <3>2. CASE target[r] # n
      BY <2>2, <2>3, <3>2 DEF InventoryInv, InventoryKinds, Removed, Plain
    <3> QED
      BY <3>1, <3>2
  <2> QED
    BY <2>4, <2>5 DEF InventoryInv
<1>2. CASE \E t \in Tasks : Upgrade(t)
  <2>1. PICK t \in Tasks : Upgrade(t)
    BY <1>2
  <2>2. /\ UNCHANGED <<runtime, rows>>
        /\ task' = [u \in Tasks |-> IF u = t THEN "sync" ELSE None]
        /\ at' = [u \in Tasks |-> IF u = t THEN "sizes" ELSE "idle"]
        /\ target' = [u \in Tasks |-> None] /\ marks' = [u \in Tasks |-> {}]
        /\ listed' = [u \in Tasks |-> [n \in Names |-> None]]
    BY <2>1 DEF Upgrade
  <2>3. InventoryKinds'
    BY <2>2 DEF InventoryInv, InventoryKinds, QuantOrNone
  <2>4. Removed'
    BY <2>2 DEF Removed, Plain
  <2> QED
    BY <2>3, <2>4 DEF InventoryInv
<1>3. CASE RuntimeFlips \/ (\E s \in Sizes : HubChanges(s)) \/ \E t \in Tasks : \E s \in Sizes : RecordSize(t, s)
  <2>1. UNCHANGED <<runtime, rows, listed, task, at, target, marks>>
    BY <1>3 DEF RuntimeFlips, HubChanges, RecordSize, storeVars, taskVars, outside
  <2> QED
    BY <2>1 DEF InventoryInv, InventoryKinds, Removed, Plain
<1> QED
  BY <1>1, <1>2, <1>3

LEMMA InventoryNext ==
  ASSUME None # "remove", InventoryInv, [Next]_vars
  PROVE  InventoryInv'
<1>1. CASE UNCHANGED vars
  BY <1>1 DEF vars, InventoryInv, InventoryKinds, Removed, Plain
<1>2. ASSUME NEW t \in Tasks, Step(t) PROVE InventoryInv'
  <2>1. CASE List(t)
    BY <2>1, InventoryLists
  <2>2. CASE Upsert(t)
    BY <2>2, InventoryWrites
  <2>3. CASE ReadSizes(t) \/ ReadFiles(t) \/ ReadRows(t) \/ SizesDone(t)
    <3>1. /\ UNCHANGED <<runtime, rows, listed, task, target, marks>>
          /\ at[t] \in {"sizes", "files", "rows", "refresh"}
          /\ \E where \in {"files", "rows", "write", "sizes"} : Goto(t, where)
      BY <2>3 DEF ReadSizes, ReadFiles, ReadRows, SizesDone, outside, storeVars
    <3>2. task[t] # "remove"
      BY <3>1 DEF InventoryInv, Removed
    <3> QED
      BY <3>1, <3>2, InventoryKeeps
  <2>4. CASE SetMatches(t)
    <3>1. UNCHANGED <<runtime, rows>> /\ at[t] = "write"
      BY <2>4 DEF SetMatches, outside
    <3>2. CASE Over(t)
      BY <3>1, <3>2, InventoryEnds
    <3>3. CASE Goto(t, "record") /\ UNCHANGED <<task, target, listed, marks>>
      BY <3>1, <3>3, InventoryKeeps DEF InventoryInv, Removed
    <3> QED
      BY <2>4, <3>2, <3>3 DEF SetMatches
  <2>5. CASE Record(t) \/ Answer(t)
    BY <2>5, InventoryEnds DEF Record, Answer, outside, storeVars
  <2>6. CASE Fails(t)
    <3>1. UNCHANGED <<runtime, rows>>
      BY <2>6 DEF Fails, outside, storeVars
    <3>2. CASE Over(t)
      BY <3>1, <3>2, InventoryEnds
    <3>3. CASE Goto(t, IF task[t] = "remove" THEN "answer" ELSE "record") /\ UNCHANGED <<task, target, listed, marks>>
      BY <3>1, <3>3, InventoryKeeps
    <3> QED
      BY <2>6, <3>2, <3>3 DEF Fails
  <2> QED
    BY <1>2, <2>1, <2>2, <2>3, <2>4, <2>5, <2>6 DEF Step
<1>3. ASSUME NEW t \in Tasks, Detect(t) \/ BeginRefresh(t) PROVE InventoryInv'
  BY <1>3, InventoryBegins
<1>4. ASSUME NEW t \in Tasks, NEW n \in Names, Remove(t, n) PROVE InventoryInv'
  BY <1>4, InventoryRemoves
<1>5. CASE \/ RuntimeFlips \/ \E n \in Names : UserChanges(n)
           \/ \E s \in Sizes : HubChanges(s)
           \/ \E t \in Tasks : Upgrade(t) \/ \E s \in Sizes : RecordSize(t, s)
  BY <1>5, InventoryAround
<1> QED
  BY <1>1, <1>2, <1>3, <1>4, <1>5 DEF Next, Check

(* Whatever checks, refreshes, upgrades and failures are under way, a      *)
(* removal whose resync was written does not answer with the model it      *)
(* removed, unless another task had read the runtime's list before the     *)
(* Delete and wrote it after (handleModelRemove, UpsertInstalledModels).   *)
THEOREM RemovalsAreSeen == ASSUME None # "remove" PROVE Spec => RemovalIsSeen
<1>1. Init => InventoryInv
  BY InventoryStarts
<1>2. InventoryInv /\ [Next]_vars => InventoryInv'
  BY InventoryNext
<1>3. InventoryInv => \A t \in Tasks : AnswersRemoval(t) /\ "crossed" \notin marks[t] => ~rows[target[t]].present
  BY DEF InventoryInv, Removed, Plain, AnswersRemoval
<1> QED
  BY <1>1, <1>2, <1>3, PTL DEF Spec, RemovalIsSeen
=============================================================================
