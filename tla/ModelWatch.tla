----------------------------- MODULE ModelWatch -----------------------------
(***************************************************************************)
(* The new-model watch: one run of it (internal/server/watch.go: RunWatch; *)
(* internal/watch/run.go: Run, checkOne; maintainers.go), who starts runs  *)
(* (WatchScheduler, handleWatchRun), the settings it reads                 *)
(* (internal/server/settings.go: watchSettings, handleSettingsPut) and     *)
(* what the store keeps of it (internal/store/watch.go).                   *)
(*                                                                         *)
(* A key is a curated size or a maintainer's repository.  Which sizes      *)
(* qualify is the recommendation engine's answer, any set with the sizes   *)
(* of Always in it.  The refresh and the reads before the check are one    *)
(* step: only the reads' failing matters here, and the refresh is          *)
(* CatalogRefresh.                                                         *)
(***************************************************************************)
EXTENDS Naturals, FiniteSets

CONSTANTS Models,    \* the curated sizes
          Always,    \* those that qualify whenever they are asked about
          Repos,     \* the maintainers' repositories outside the catalogue
          MaxStops,  \* bound on the daemon's stops
          MaxFaults, \* bound on the reads and writes of the store that fail
          MaxPuts    \* bound on the changes of the settings

ASSUME WatchAssumption ==
  /\ Always \subseteq Models /\ Models \cap Repos = {}
  /\ MaxStops \in Nat /\ MaxFaults \in Nat /\ MaxPuts \in Nat

VARIABLES up, stops, faults, puts,
          published, \* the repositories that exist
          enabled,   \* the row watch.enabled
          mode,      \* the row watch.mode
          putMode,   \* the mode a PUT has still to write, "none" without one
          running,   \* watchState.running: who holds it, or "free"
          pc,        \* where each caller of RunWatch is
          paused,    \* the run's Settings.Enabled, negated
          runMode,   \* the run's Settings.Mode
          existing,  \* the keys the run's WatchStates says were notified or flagged
          result,    \* the sizes that qualify, in the run's Recommend
          todo,      \* the keys the run's loop has still to reach
          at,        \* the size it has notified about and not yet stored, at most one
          entries,   \* the keys the run's report says were notified or flagged
          noted,     \* watch_state: the sizes with notified_at, the repositories with a row
          popups,    \* the desktop notifications shown of each size, counted up to 2
          logged     \* the rows of watch_runs that report a key as new, counted up to 2

envVars == <<up, stops, published>>
setVars == <<puts, enabled, mode, putMode>>
runVars == <<running, pc, paused, runMode, existing, result, todo, at, entries>>
vars == <<envVars, faults, setVars, runVars, noted, popups, logged>>

Callers == {"scheduler", "api"}
Keys == Models \cup Repos
Modes == {"on", "quiet", "never"}
Inside == {"enabled", "mode", "prepare", "states", "flagging", "recommend", "checking", "noting", "unlock"}
UpTo2(n) == IF n < 2 THEN n + 1 ELSE n

NoRun ==
  /\ paused' = TRUE /\ runMode' = "quiet"
  /\ existing' = {} /\ result' = {} /\ todo' = {} /\ at' = {} /\ entries' = {}

(* A fresh install: watch.DefaultSettings.                                 *)
Init ==
  /\ up = TRUE /\ stops = 0 /\ faults = 0 /\ puts = 0
  /\ published = {}
  /\ enabled = TRUE /\ mode = "quiet" /\ putMode = "none"
  /\ running = "free" /\ pc = [c \in Callers |-> "idle"]
  /\ paused = TRUE /\ runMode = "quiet"
  /\ existing = {} /\ result = {} /\ todo = {} /\ at = {} /\ entries = {}
  /\ noted = {}
  /\ popups = [m \in Models |-> 0]
  /\ logged = [k \in Keys |-> 0]

Fault == faults < MaxFaults /\ faults' = faults + 1
Goto(c, where) == pc' = [pc EXCEPT ![c] = where]

-----------------------------------------------------------------------------
(* The world: a maintainer publishes a repository.                         *)
Publish(r) ==
  /\ r \notin published
  /\ published' = published \cup {r}
  /\ UNCHANGED <<up, stops, faults, setVars, runVars, noted, popups, logged>>

(* handleSettingsPut writes the two rows one after the other ...           *)
Put(e, m) ==
  /\ up /\ putMode = "none" /\ puts < MaxPuts
  /\ puts' = puts + 1
  /\ enabled' = e
  /\ putMode' = m
  /\ UNCHANGED <<envVars, faults, mode, runVars, noted, popups, logged>>

PutMode ==
  /\ up /\ putMode # "none"
  /\ mode' = putMode
  /\ putMode' = "none"
  /\ UNCHANGED <<envVars, faults, puts, enabled, runVars, noted, popups, logged>>

(* ... and the second may fail.                                            *)
PutFails ==
  /\ up /\ putMode # "none"
  /\ Fault
  /\ putMode' = "none"
  /\ UNCHANGED <<envVars, puts, enabled, mode, runVars, noted, popups, logged>>

-----------------------------------------------------------------------------
(* RunWatch.  A caller that finds the lock taken is refused and nothing    *)
(* changes: the API answers 409, the scheduler sleeps another interval.    *)

(* A bug: a second run is let in.                                          *)
BeginUnlocked(c) ==
  /\ up /\ pc[c] = "idle"
  /\ running' = c
  /\ Goto(c, "enabled")
  /\ UNCHANGED <<envVars, faults, setVars, paused, runMode, existing, result, todo, at, entries, noted, popups, logged>>

Begin(c) ==
  /\ up /\ pc[c] = "idle" /\ running = "free"
  /\ running' = c
  /\ Goto(c, "enabled")
  /\ UNCHANGED <<envVars, faults, setVars, paused, runMode, existing, result, todo, at, entries, noted, popups, logged>>

(* watchSettings: one query a row, the default for one that cannot be read.*)
ReadEnabled(c) ==
  /\ up /\ pc[c] = "enabled"
  /\ \/ paused' = ~enabled /\ faults' = faults
     \/ paused' = FALSE /\ Fault
  /\ Goto(c, "mode")
  /\ UNCHANGED <<envVars, setVars, running, runMode, existing, result, todo, at, entries, noted, popups, logged>>

ReadMode(c) ==
  /\ up /\ pc[c] = "mode"
  /\ \/ runMode' = mode /\ faults' = faults
     \/ runMode' = "quiet" /\ Fault
  /\ Goto(c, IF paused THEN "unlock" ELSE "prepare")
  /\ UNCHANGED <<envVars, setVars, running, paused, existing, result, todo, at, entries, noted, popups, logged>>

(* The catalogue is refreshed, whether that succeeds or not, and the       *)
(* engine is built.                                                        *)
Prepare(c) ==
  /\ up /\ pc[c] = "prepare"
  /\ Goto(c, "states")
  /\ UNCHANGED <<envVars, faults, setVars, running, paused, runMode, existing, result, todo, at, entries, noted, popups, logged>>

(* A bug: the run looks only for the repositories among the rows.          *)
ReadStatesOfRepos(c) ==
  /\ up /\ pc[c] = "states"
  /\ existing' = noted \cap Repos
  /\ \E new \in SUBSET ((published \cap Repos) \ existing') : todo' = new
  /\ Goto(c, "flagging")
  /\ UNCHANGED <<envVars, faults, setVars, running, paused, runMode, result, at, entries, noted, popups, logged>>

(* WatchStates, once, then checkMaintainers: a listing that fails leaves   *)
(* its repositories for another run.                                       *)
ReadStates(c) ==
  /\ up /\ pc[c] = "states"
  /\ existing' = noted
  /\ \E new \in SUBSET (published \ existing') : todo' = new
  /\ Goto(c, "flagging")
  /\ UNCHANGED <<envVars, faults, setVars, running, paused, runMode, result, at, entries, noted, popups, logged>>

Flag(c, r) ==
  /\ up /\ pc[c] = "flagging" /\ r \in todo
  /\ todo' = todo \ {r}
  /\ entries' = entries \cup {r}
  /\ noted' = noted \cup {r}
  /\ UNCHANGED <<envVars, faults, setVars, running, pc, paused, runMode, existing, result, at, popups, logged>>

(* Engine.Recommend, once for the whole catalogue, and not at all in       *)
(* NotifyNever.                                                            *)
Recommend(c) ==
  /\ up /\ pc[c] = "flagging" /\ todo = {}
  /\ IF runMode = "never" THEN result' = {}
     ELSE \E others \in SUBSET (Models \ Always) : result' = Always \cup others
  /\ todo' = Models
  /\ Goto(c, "checking")
  /\ UNCHANGED <<envVars, faults, setVars, running, paused, runMode, existing, at, entries, noted, popups, logged>>

(* Already notified: a line of the report, and no row.                     *)
AlreadySeen(c, m) ==
  /\ up /\ pc[c] = "checking" /\ m \in todo /\ m \in existing
  /\ todo' = todo \ {m}
  /\ UNCHANGED <<envVars, faults, setVars, running, pc, paused, runMode, existing, result, at, entries, noted, popups, logged>>

(* Suppressed: a row without notified_at, which leaves one that has it.    *)
Suppress(c, m) ==
  /\ up /\ pc[c] = "checking" /\ m \in todo \ (existing \cup result)
  /\ todo' = todo \ {m}
  /\ UNCHANGED <<envVars, faults, setVars, running, pc, paused, runMode, existing, result, at, entries, noted, popups, logged>>

(* checkOne shows the notification, in NotifyOn; an error of the notifier  *)
(* is logged and the size is notified about all the same ...               *)
Notify(c, m) ==
  /\ up /\ pc[c] = "checking" /\ m \in (todo \cap result) \ existing
  /\ popups' \in {popups} \cup {[popups EXCEPT ![m] = UpTo2(@)] : any \in {"on"} \cap {runMode}}
  /\ todo' = todo \ {m}
  /\ at' = {m}
  /\ Goto(c, "noting")
  /\ UNCHANGED <<envVars, faults, setVars, running, paused, runMode, existing, result, entries, noted, logged>>

(* ... and Run stores its row.                                             *)
Note(c) ==
  /\ up /\ pc[c] = "noting"
  /\ noted' = noted \cup at
  /\ entries' = entries \cup at
  /\ at' = {}
  /\ Goto(c, "checking")
  /\ UNCHANGED <<envVars, faults, setVars, running, paused, runMode, existing, result, todo, popups, logged>>

(* RecordWatchRun, last.                                                   *)
Record(c) ==
  /\ up /\ pc[c] = "checking" /\ todo = {}
  /\ logged' = [k \in Keys |-> IF k \in entries THEN UpTo2(logged[k]) ELSE logged[k]]
  /\ Goto(c, "unlock")
  /\ UNCHANGED <<envVars, faults, setVars, running, paused, runMode, existing, result, todo, at, entries, noted, popups>>

(* A read before the check, or any of the writes, fails: Run returns.      *)
RunFails(c) ==
  /\ up /\ pc[c] \in Inside \ {"enabled", "mode", "unlock"}
  /\ Fault
  /\ Goto(c, "unlock")
  /\ UNCHANGED <<envVars, setVars, running, paused, runMode, existing, result, todo, at, entries, noted, popups, logged>>

(* A bug: the lock is released where the run reaches its end only.         *)
UnlockOfFinished(c) ==
  /\ up /\ pc[c] = "unlock"
  /\ running' = IF todo = {} /\ at = {} THEN "free" ELSE running
  /\ Goto(c, "idle")
  /\ NoRun
  /\ UNCHANGED <<envVars, faults, setVars, noted, popups, logged>>

Unlock(c) ==
  /\ up /\ pc[c] = "unlock"
  /\ running' = "free"
  /\ Goto(c, "idle")
  /\ NoRun
  /\ UNCHANGED <<envVars, faults, setVars, noted, popups, logged>>

-----------------------------------------------------------------------------
(* The daemon stops, wherever a run is, and starts again.                  *)
Stop ==
  /\ up /\ stops < MaxStops
  /\ up' = FALSE /\ stops' = stops + 1
  /\ running' = "free" /\ pc' = [c \in Callers |-> "idle"]
  /\ putMode' = "none"
  /\ NoRun
  /\ UNCHANGED <<published, faults, puts, enabled, mode, noted, popups, logged>>

Start ==
  /\ ~up
  /\ up' = TRUE
  /\ UNCHANGED <<stops, published, faults, setVars, runVars, noted, popups, logged>>

-----------------------------------------------------------------------------
Running(c) ==
  \/ ReadEnabled(c) \/ ReadMode(c) \/ Prepare(c) \/ ReadStates(c) \/ Recommend(c) \/ Note(c)
  \/ Record(c) \/ RunFails(c) \/ Unlock(c)
  \/ \E k \in Keys : Flag(c, k)
  \/ \E m \in Models : AlreadySeen(c, m) \/ Suppress(c, m) \/ Notify(c, m)

Next ==
  \/ Stop \/ Start
  \/ \E r \in Repos : Publish(r)
  \/ \E e \in BOOLEAN, m \in Modes : Put(e, m)
  \/ PutMode \/ PutFails
  \/ \E c \in Callers : Begin(c) \/ Running(c)

Spec == Init /\ [][Next]_vars

(* The scheduler starts a run whenever its sleep is over, and a run goes   *)
(* on: what it asks of the network and the store ends.  Nobody has to ask  *)
(* for one over the API.                                                   *)
FairSpec ==
  /\ Spec
  /\ WF_vars(Begin("scheduler"))
  /\ \A c \in Callers : WF_vars(Running(c))

-----------------------------------------------------------------------------
(* Every variable holds values of its kind (watch_state, Settings, Report).*)
TypeOK ==
  /\ up \in BOOLEAN /\ stops \in 0..MaxStops /\ faults \in 0..MaxFaults /\ puts \in 0..MaxPuts
  /\ published \subseteq Repos
  /\ enabled \in BOOLEAN /\ mode \in Modes /\ putMode \in Modes \cup {"none"}
  /\ running \in Callers \cup {"free"} /\ pc \in [Callers -> Inside \cup {"idle"}]
  /\ paused \in BOOLEAN /\ runMode \in Modes
  /\ existing \subseteq Keys /\ result \subseteq Models /\ todo \subseteq Keys
  /\ at \subseteq Models /\ Cardinality(at) <= 1 /\ entries \subseteq Keys
  /\ noted \subseteq Keys
  /\ popups \in [Models -> 0..2] /\ logged \in [Keys -> 0..2]

(* Nobody is shown a size that watch_state already has as notified, also   *)
(* one that was recorded quietly in an earlier mode: the run's reading of  *)
(* watch_state is as good as the table until the run ends, for no other    *)
(* run overlaps it (RunWatch's TryLock; Run, checkOne).                    *)
NeverShownAgain == [][\A m \in Models : popups'[m] # popups[m] => m \notin noted]_popups

(* A size that qualifies every time is notified about, if from some moment *)
(* on the daemon runs with the watch on, whatever failed and was switched  *)
(* before (WatchScheduler, Run).                                           *)
QualifyingIsNotified ==
  <>[](up /\ enabled /\ mode # "never") => \A m \in Always : <>(m \in noted)

(* "A real desktop notification, once per model, ever" (watch.go,          *)
(* NotifyOn): no size has had two.                                         *)
OncePerModel == \A m \in Models : popups[m] <= 1
=============================================================================
