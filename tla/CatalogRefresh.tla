--------------------------- MODULE CatalogRefresh ---------------------------
(***************************************************************************)
(* Refreshing the model list and the public scores in the daemon           *)
(* (internal/server/catalog.go: refreshModels, RefreshPublic,              *)
(* RefreshCatalog, handleCatalogRefresh; internal/catalog/refresh: Run)    *)
(* and what the store keeps of it (internal/store/catalog.go).             *)
(*                                                                         *)
(* A request is POST /api/catalog/refresh, whose client may go away, or    *)
(* the watch's call of RefreshCatalog, which the daemon's stop cancels.    *)
(* Each half runs under a lock it only tries to take.  A repository on the *)
(* Hub is a revision number, and its files those of that revision; reading *)
(* a public source is external.Run as a whole.                             *)
(***************************************************************************)
EXTENDS Naturals, FiniteSets

CONSTANTS ApiCalls,   \* refreshes asked for over the API
          WatchCalls, \* refreshes the watch runs
          Sizes,      \* the catalogue's sizes
          MaxRev,     \* bound on the revisions of a repository
          MaxStops    \* bound on the daemon's stops

VARIABLES up,        \* the daemon runs
          stops,     \* how often it has stopped
          hub,       \* the current revision of each size's repository
          running,   \* catalogState.running: who holds it, or "free"
          public,    \* catalogState.publicRunning: who holds it, or "free"
          shown,     \* progress.running and public.running, what the screens see
          pc,        \* where each request is
          todo,      \* the sizes its refresh has still to try
          read,      \* the size and revision it has read and not stored, at most one
          outcome,   \* how its models half ended
          answer,    \* what its client was answered
          rev,       \* catalog_models.hf_sha as a revision, 0 for never refreshed
          files,     \* the revisions of a size's present files
          failed     \* the sizes with a refresh_error

lockVars == <<running, public, shown>>
storeVars == <<rev, files, failed>>
reqVars == <<pc, todo, read, outcome, answer>>
vars == <<up, stops, hub, running, public, shown, pc, todo, read, outcome, answer, rev, files, failed>>

Calls == ApiCalls \cup WatchCalls
Nothing == [size |-> "none", rev |-> 0]
Goto(c, where) == pc' = [pc EXCEPT ![c] = where]

Init ==
  /\ up = TRUE /\ stops = 0
  /\ hub = [s \in Sizes |-> 1]
  /\ running = "free" /\ public = "free" /\ shown = {}
  /\ pc = [c \in Calls |-> "idle"]
  /\ todo = [c \in Calls |-> {}]
  /\ read = [c \in Calls |-> Nothing]
  /\ outcome = [c \in Calls |-> "none"]
  /\ answer = [c \in Calls |-> "none"]
  /\ rev = [s \in Sizes |-> 0]
  /\ files = [s \in Sizes |-> {}]
  /\ failed = {}

-----------------------------------------------------------------------------
(* The Hub: somebody publishes a new revision of a repository.             *)
HubChanges(s) ==
  /\ hub[s] < MaxRev
  /\ hub' = [hub EXCEPT ![s] = @ + 1]
  /\ UNCHANGED <<up, stops, lockVars, reqVars, storeVars>>

-----------------------------------------------------------------------------
(* refreshModels and refresh.Run.                                          *)

(* A bug: the lock is not asked for.                                       *)
BeginUnlocked(c) ==
  /\ up /\ pc[c] = "idle"
  /\ running' = c
  /\ shown' = shown \cup {"models"}
  /\ Goto(c, "sync")
  /\ UNCHANGED <<up, stops, hub, public, todo, read, outcome, answer, storeVars>>

(* TryLock, and progress.begin with it.                                    *)
Begin(c) ==
  /\ up /\ pc[c] = "idle" /\ running = "free"
  /\ running' = c
  /\ shown' = shown \cup {"models"}
  /\ Goto(c, "sync")
  /\ UNCHANGED <<up, stops, hub, public, todo, read, outcome, answer, storeVars>>

(* TryLock fails: ErrRefreshRunning, a 409 to an API client.               *)
Refused(c) ==
  /\ up /\ pc[c] = "idle" /\ running # "free"
  /\ Goto(c, "over")
  /\ answer' = [answer EXCEPT ![c] = IF c \in ApiCalls THEN "conflict" ELSE "none"]
  /\ UNCHANGED <<up, stops, hub, lockVars, todo, read, outcome, storeVars>>

(* SyncCatalogModels leaves what earlier refreshes found of a size.        *)
Sync(c) ==
  /\ up /\ pc[c] = "sync"
  /\ todo' = [todo EXCEPT ![c] = Sizes]
  /\ Goto(c, "sizes")
  /\ UNCHANGED <<up, stops, hub, lockVars, read, outcome, answer, storeVars>>

(* A bug: a listing kept from an earlier refresh is taken for the Hub's.   *)
ReadSizeKept(c, s) ==
  /\ up /\ pc[c] = "sizes" /\ read[c] = Nothing /\ s \in todo[c]
  /\ \E kept \in {1, hub[s]} : read' = [read EXCEPT ![c] = [size |-> s, rev |-> kept]]
  /\ todo' = [todo EXCEPT ![c] = @ \ {s}]
  /\ UNCHANGED <<up, stops, hub, lockVars, pc, outcome, answer, storeVars>>

(* refreshSize: the listing and its files' headers as the Hub has them.    *)
ReadSize(c, s) ==
  /\ up /\ pc[c] = "sizes" /\ read[c] = Nothing /\ s \in todo[c]
  /\ read' = [read EXCEPT ![c] = [size |-> s, rev |-> hub[s]]]
  /\ todo' = [todo EXCEPT ![c] = @ \ {s}]
  /\ UNCHANGED <<up, stops, hub, lockVars, pc, outcome, answer, storeVars>>

(* RecordCatalogModelRefresh, one transaction.                             *)
RecordSize(c) ==
  LET s == read[c].size IN
  /\ up /\ pc[c] = "sizes" /\ read[c] # Nothing
  /\ rev' = [rev EXCEPT ![s] = read[c].rev]
  /\ files' = [files EXCEPT ![s] = {read[c].rev}]
  /\ failed' = failed \ {s}
  /\ read' = [read EXCEPT ![c] = Nothing]
  /\ UNCHANGED <<up, stops, hub, lockVars, pc, todo, outcome, answer>>

(* RecordCatalogModelError; an unreachable Hub ends the refresh there.     *)
SizeFails(c, s, unreachable) ==
  /\ up /\ pc[c] = "sizes" /\ read[c] = Nothing /\ s \in todo[c]
  /\ failed' = failed \cup {s}
  /\ todo' = [todo EXCEPT ![c] = IF unreachable THEN {} ELSE @ \ {s}]
  /\ UNCHANGED <<up, stops, hub, lockVars, pc, read, outcome, answer, rev, files>>

(* Run returns an error at any write, or for its cancelled context: the    *)
(* deferred calls end the progress and then release the lock.              *)
EndModels(c, how) ==
  /\ outcome' = [outcome EXCEPT ![c] = how]
  /\ shown' = shown \ {"models"}
  /\ Goto(c, "unlock")
  /\ todo' = [todo EXCEPT ![c] = {}]
  /\ read' = [read EXCEPT ![c] = Nothing]
  /\ UNCHANGED <<up, stops, hub, running, public, answer, rev, files, failed>>

RunFails(c) ==
  /\ up /\ pc[c] \in {"sync", "sizes"}
  /\ EndModels(c, "error")

(* The installed models are mapped and the report is stored, last.         *)
RunEnds(c) ==
  /\ up /\ pc[c] = "sizes" /\ todo[c] = {} /\ read[c] = Nothing
  /\ EndModels(c, "ok")

Unlock(c) ==
  /\ up /\ pc[c] = "unlock"
  /\ running' = "free"
  /\ Goto(c, IF outcome[c] = "error" /\ c \in WatchCalls THEN "over" ELSE "done")
  /\ UNCHANGED <<up, stops, hub, public, shown, todo, read, outcome, answer, storeVars>>

-----------------------------------------------------------------------------
(* After the models half: the API's goroutine sends the result on a        *)
(* buffered channel and goes on to the public scores, the watch goes on at *)
(* once.                                                                   *)

(* A bug: the channel has no buffer.                                       *)
SendResultWaiting(c) ==
  /\ up /\ pc[c] = "done" /\ (c \in ApiCalls => answer[c] # "gone")
  /\ Goto(c, IF outcome[c] = "ok" THEN "public" ELSE "over")
  /\ answer' = [answer EXCEPT ![c] = IF c \in ApiCalls /\ @ = "none" THEN outcome[c] ELSE @]
  /\ UNCHANGED <<up, stops, hub, lockVars, todo, read, outcome, storeVars>>

SendResult(c) ==
  /\ up /\ pc[c] = "done"
  /\ Goto(c, IF outcome[c] = "ok" THEN "public" ELSE "over")
  /\ answer' = [answer EXCEPT ![c] = IF c \in ApiCalls /\ @ = "none" THEN outcome[c] ELSE @]
  /\ UNCHANGED <<up, stops, hub, lockVars, todo, read, outcome, storeVars>>

(* The request's context ends: its handler returns and answers nothing.    *)
ClientGoes(c) ==
  /\ up /\ c \in ApiCalls /\ pc[c] \notin {"idle", "over"} /\ answer[c] = "none"
  /\ answer' = [answer EXCEPT ![c] = "gone"]
  /\ UNCHANGED <<up, stops, hub, lockVars, pc, todo, read, outcome, storeVars>>

(* RefreshPublic: no configuration, or another reads the sources already.  *)
NoPublic(c) ==
  /\ up /\ pc[c] = "public"
  /\ Goto(c, "over")
  /\ UNCHANGED <<up, stops, hub, lockVars, todo, read, outcome, answer, storeVars>>

BeginPublic(c) ==
  /\ up /\ pc[c] = "public" /\ public = "free"
  /\ public' = c
  /\ shown' = shown \cup {"public"}
  /\ Goto(c, "sources")
  /\ UNCHANGED <<up, stops, hub, running, todo, read, outcome, answer, storeVars>>

EndPublic(c) ==
  /\ up /\ pc[c] = "sources"
  /\ public' = "free"
  /\ shown' = shown \ {"public"}
  /\ Goto(c, "over")
  /\ UNCHANGED <<up, stops, hub, running, todo, read, outcome, answer, storeVars>>

AskAgain(c) ==
  /\ up /\ pc[c] = "over"
  /\ Goto(c, "idle")
  /\ outcome' = [outcome EXCEPT ![c] = "none"]
  /\ answer' = [answer EXCEPT ![c] = "none"]
  /\ UNCHANGED <<up, stops, hub, lockVars, todo, read, storeVars>>

-----------------------------------------------------------------------------
(* The daemon stops, wherever its goroutines are, and starts again.        *)
Stop ==
  /\ up /\ stops < MaxStops
  /\ up' = FALSE /\ stops' = stops + 1
  /\ running' = "free" /\ public' = "free" /\ shown' = {}
  /\ pc' = [c \in Calls |-> "idle"]
  /\ todo' = [c \in Calls |-> {}]
  /\ read' = [c \in Calls |-> Nothing]
  /\ outcome' = [c \in Calls |-> "none"]
  /\ answer' = [c \in Calls |-> "none"]
  /\ UNCHANGED <<hub, storeVars>>

Start ==
  /\ ~up
  /\ up' = TRUE
  /\ UNCHANGED <<stops, hub, lockVars, reqVars, storeVars>>

-----------------------------------------------------------------------------
Models(c) ==
  \/ Sync(c) \/ RecordSize(c) \/ RunFails(c) \/ RunEnds(c) \/ Unlock(c)
  \/ \E s \in Sizes : ReadSize(c, s) \/ \E unreachable \in BOOLEAN : SizeFails(c, s, unreachable)
After(c) == SendResult(c) \/ NoPublic(c) \/ BeginPublic(c) \/ EndPublic(c)

Next ==
  \/ Stop \/ Start
  \/ \E s \in Sizes : HubChanges(s)
  \/ \E c \in Calls : Begin(c) \/ Refused(c) \/ Models(c) \/ After(c) \/ ClientGoes(c) \/ AskAgain(c)

Spec == Init /\ [][Next]_vars

(* Requests to the Hub and to the sources have timeouts, so a refresh that *)
(* has begun goes on; nobody has to ask for one, and no client has to      *)
(* stay.                                                                   *)
Fairness == \A c \in Calls : WF_vars(Models(c) \/ After(c))
FairSpec == Spec /\ Fairness

-----------------------------------------------------------------------------
(* Every variable holds values of its kind (catalogState, catalog_models). *)
TypeOK ==
  /\ up \in BOOLEAN /\ stops \in 0..MaxStops
  /\ hub \in [Sizes -> 1..MaxRev]
  /\ running \in Calls \cup {"free"} /\ public \in Calls \cup {"free"}
  /\ shown \subseteq {"models", "public"}
  /\ pc \in [Calls -> {"idle", "sync", "sizes", "unlock", "done", "public", "sources", "over"}]
  /\ todo \in [Calls -> SUBSET Sizes]
  /\ \A c \in Calls : read[c].size \in Sizes \cup {"none"} /\ read[c].rev \in 0..MaxRev
  /\ outcome \in [Calls -> {"none", "ok", "error"}]
  /\ answer \in [Calls -> {"none", "ok", "error", "conflict", "gone"}]
  /\ rev \in [Sizes -> 0..MaxRev] /\ files \in [Sizes -> SUBSET (1..MaxRev)]
  /\ failed \subseteq Sizes

(* What is known of a size never goes back to an older revision, nor to    *)
(* nothing: whatever fails, stops or is asked for twice, no refresh is     *)
(* overtaken by another (TryLock; RecordCatalogModelRefresh).              *)
NeverGoesBack == [][\A s \in Sizes : rev'[s] >= rev[s]]_rev

(* A refresh that has begun ends and frees the lock, although its client   *)
(* goes away (handleCatalogRefresh: "closing the tab does not abandon it").*)
RefreshEnds == \A c \in Calls : (pc[c] = "sync") ~> (pc[c] \in {"over", "idle"})
=============================================================================
