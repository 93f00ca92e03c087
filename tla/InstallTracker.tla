--------------------------- MODULE InstallTracker ---------------------------
(***************************************************************************)
(* Installing a runtime (internal/server/install.go): installTracker, one  *)
(* status per backend name, and the goroutine of each install, which       *)
(* nobody can cancel and installTimeout ends.                              *)
(***************************************************************************)
EXTENDS Naturals

CONSTANTS Names,      \* the registered runtimes
          MaxInstalls \* bound on the installs of each

VARIABLES byName,  \* t.byName[name].Status, "idle" when the map has none
          about,   \* the install of the name its status was written by
          started, \* how many installs of the name have been started
          phase    \* where each install's goroutine is

vars == <<byName, about, started, phase>>

Installs == 1..MaxInstalls
Ends == {"done", "failed"}

Init ==
  /\ byName = [n \in Names |-> "idle"]
  /\ about = [n \in Names |-> 0]
  /\ started = [n \in Names |-> 0]
  /\ phase = [n \in Names |-> [i \in Installs |-> "none"]]

(* A bug: the status of the last install is not looked at.                 *)
StartAgain(n) ==
  /\ started[n] < MaxInstalls
  /\ started' = [started EXCEPT ![n] = @ + 1]
  /\ byName' = [byName EXCEPT ![n] = "running"]
  /\ about' = [about EXCEPT ![n] = started'[n]]
  /\ phase' = [phase EXCEPT ![n][started'[n]] = "installing"]

(* start, for a name that is registered and not being installed.           *)
Start(n) ==
  /\ byName[n] # "running"
  /\ started[n] < MaxInstalls
  /\ started' = [started EXCEPT ![n] = @ + 1]
  /\ byName' = [byName EXCEPT ![n] = "running"]
  /\ about' = [about EXCEPT ![n] = started'[n]]
  /\ phase' = [phase EXCEPT ![n][started'[n]] = "installing"]

(* The callback that copies the download's progress.                       *)
Progress(n, i) ==
  /\ phase[n][i] = "installing"
  /\ byName' = [byName EXCEPT ![n] = "running"]
  /\ about' = [about EXCEPT ![n] = i]
  /\ UNCHANGED <<started, phase>>

(* Install returns, in time or cut by its timeout.                         *)
InstallReturns(n, i, r) ==
  /\ phase[n][i] = "installing"
  /\ phase' = [phase EXCEPT ![n][i] = r]
  /\ UNCHANGED <<byName, about, started>>

(* A bug: an error leaves the status without an end.                       *)
StoreEndOfDone(n, i) ==
  /\ phase[n][i] = "done"
  /\ byName' = [byName EXCEPT ![n] = phase[n][i]]
  /\ about' = [about EXCEPT ![n] = i]
  /\ phase' = [phase EXCEPT ![n][i] = "over"]
  /\ UNCHANGED started

StoreEnd(n, i) ==
  /\ phase[n][i] \in Ends
  /\ byName' = [byName EXCEPT ![n] = phase[n][i]]
  /\ about' = [about EXCEPT ![n] = i]
  /\ phase' = [phase EXCEPT ![n][i] = "over"]
  /\ UNCHANGED started

Ending(n, i) == (\E r \in Ends : InstallReturns(n, i, r)) \/ StoreEnd(n, i)

Next == \E n \in Names : Start(n) \/ \E i \in Installs : Progress(n, i) \/ Ending(n, i)

(* installTimeout ends every install.                                      *)
Fairness == \A n \in Names, i \in Installs : WF_vars(Ending(n, i))
Spec == Init /\ [][Next]_vars /\ Fairness

-----------------------------------------------------------------------------
(* Each runtime's status lives the life JobSlot promises (start, update).  *)
Slot(n) == INSTANCE JobSlot WITH job <- about[n], state <- byName[n]
SlotSpecs ==
  /\ \A n \in Names : Slot(n)!Init
  /\ [][\A n \in Names : Slot(n)!Next \/ UNCHANGED <<about[n], byName[n]>>]_<<about, byName>>

(* An install that is running ends, so that another may be tried.          *)
InstallEnds == \A n \in Names : (byName[n] = "running") ~> (byName[n] \in Ends)
=============================================================================
