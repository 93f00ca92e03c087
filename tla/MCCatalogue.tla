---------------------------- MODULE MCCatalogue ----------------------------
(***************************************************************************)
(* The catalogue's refresh and the inventory, checked in one run.  The     *)
(* refresh's locks and answers (CatalogRefresh) and what its end does to   *)
(* the mapping (Inventory) share no state as modelled, so a behaviour is   *)
(* of one of them, chosen at the start.                                    *)
(* The inventory has one size, which a build may or may not curate, and a  *)
(* name the runtime lists it under, a tenth larger than the list says.     *)
(***************************************************************************)
EXTENDS Inventory

CONSTANTS ApiCalls, WatchCalls, Refreshed, MaxRev, MaxStops

VARIABLES which, up, stops, repo, running, public, progress, pc, todo, read, outcome, answer, rev, revFiles, failed

R == INSTANCE CatalogRefresh WITH Sizes <- Refreshed, hub <- repo, shown <- progress, files <- revFiles

refreshVars == <<up, stops, repo, running, public, progress, pc, todo, read, outcome, answer, rev, revFiles, failed>>

MCCurated == <<[id |-> 1, base |-> "llama", tag |-> "8b", repo |-> "llama-8b", params |-> 80]>>
MCReads == [n \in {"latest"} |-> [name |-> [hub |-> FALSE, base |-> "llama", tag |-> n, size |-> 0], params |-> 88]]
MCEditions == {{1}, {}}
MCQuants == <<"q4">>

MCInit == which \in {"refresh", "inventory"} /\ Init /\ R!Init

MCNext ==
  \/ which = "refresh" /\ R!Next /\ UNCHANGED <<which, vars>>
  \/ which = "inventory" /\ Next /\ UNCHANGED <<which, refreshVars>>

MCSpec ==
  /\ MCInit /\ [][MCNext]_<<which, vars, refreshVars>>
  /\ \A c \in R!Calls : WF_refreshVars(which = "refresh" /\ (R!Models(c) \/ R!After(c)))
  /\ WF_vars(which = "inventory" /\ Check)
  /\ \A t \in Tasks : WF_vars(which = "inventory" /\ Step(t))

(* Of the inventory alone: once the outside is still and the runtime runs, *)
(* the rows agree with it for good (recordOneBackend).                     *)
InventoryMirrors == <>[](which = "inventory" /\ serving => Mirrored)

(* The properties of CatalogRefresh, as stated there: what is known never  *)
(* goes back, and what has begun ends (internal/server/catalog.go).        *)
NeverGoesBack == R!NeverGoesBack
RefreshEnds == R!RefreshEnds
=============================================================================
