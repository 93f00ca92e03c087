---------------------------- MODULE PullTracker ----------------------------
(***************************************************************************)
(* Downloading a model (internal/server/pull.go): pullTracker, the         *)
(* goroutine of each pull, and the handlers that start a pull and cancel   *)
(* it.  A pull's progress and its end are written to the one status by     *)
(* whichever goroutine holds the lock; cancelling waits on the pull it     *)
(* found, with the lock released.                                          *)
(***************************************************************************)
EXTENDS Naturals, FiniteSets

CONSTANTS Clients, \* the requests that may be under way at once
          MaxPulls \* bound on the pulls started

VARIABLES status,   \* t.status.Status
          about,    \* the pull t.status was written by, 0 for none
          latest,   \* the pull t.cancel and t.done belong to, 0 for none
          phase,    \* where each pull's goroutine is
          result,   \* what Pull returned
          ctxDone,  \* the pulls whose context is cancelled
          at,       \* where each client's cancel request is
          of,       \* the pull it found running
          answer    \* what it was answered: a status, and the pull that is about

pullVars == <<status, about, latest, phase, result>>
clientVars == <<at, of, answer>>
vars == <<status, about, latest, phase, result, ctxDone, at, of, answer>>

Pulls == 1..MaxPulls
Ends == {"done", "failed", "cancelled"}
Working == {"pulling", "returned"}

Init ==
  /\ status = "idle" /\ about = 0 /\ latest = 0
  /\ phase = [p \in Pulls |-> "none"]
  /\ result = [p \in Pulls |-> "none"]
  /\ ctxDone = {}
  /\ at = [c \in Clients |-> "idle"]
  /\ of = [c \in Clients |-> 0]
  /\ answer = [c \in Clients |-> [status |-> "idle", pull |-> 0]]

-----------------------------------------------------------------------------
(* A pull.                                                                 *)

(* A bug: start asks whether the last pull was cancelled, not whether it   *)
(* has ended.                                                              *)
StartAfterCancel ==
  /\ status # "running" \/ latest \in ctxDone
  /\ latest < MaxPulls
  /\ latest' = latest + 1
  /\ status' = "running" /\ about' = latest'
  /\ phase' = [phase EXCEPT ![latest'] = "pulling"]
  /\ UNCHANGED <<result, ctxDone, at, of, answer>>

(* A bug: the status keeps the name of the download before.                *)
StartUnnamed ==
  /\ status # "running"
  /\ latest < MaxPulls
  /\ latest' = latest + 1
  /\ status' = "running" /\ about' = about
  /\ phase' = [phase EXCEPT ![latest'] = "pulling"]
  /\ UNCHANGED <<result, ctxDone, at, of, answer>>

(* start; a request while one is running is refused and changes nothing.   *)
Start ==
  /\ status # "running"
  /\ latest < MaxPulls
  /\ latest' = latest + 1
  /\ status' = "running" /\ about' = latest'
  /\ phase' = [phase EXCEPT ![latest'] = "pulling"]
  /\ UNCHANGED <<result, ctxDone, at, of, answer>>

(* The callback that copies the runtime's progress to the status.          *)
Progress(p) ==
  /\ phase[p] = "pulling"
  /\ status' = "running" /\ about' = p
  /\ UNCHANGED <<latest, phase, result, ctxDone, at, of, answer>>

(* Pull returns: context.Canceled only of a cancelled context, but a       *)
(* cancelled pull may just have been downloaded, or have failed.           *)
PullReturns(p, r) ==
  /\ phase[p] = "pulling"
  /\ r = "cancelled" => p \in ctxDone
  /\ phase' = [phase EXCEPT ![p] = "returned"]
  /\ result' = [result EXCEPT ![p] = r]
  /\ UNCHANGED <<status, about, latest, ctxDone, at, of, answer>>

(* A bug: a cancelled pull leaves its last progress in the status.         *)
StoreEndUnlessCancelled(p) ==
  /\ phase[p] = "returned"
  /\ status' = IF result[p] = "cancelled" THEN status ELSE result[p]
  /\ about' = p
  /\ phase' = [phase EXCEPT ![p] = "stored"]
  /\ UNCHANGED <<latest, result, ctxDone, at, of, answer>>

(* The handler's last update.                                              *)
StoreEnd(p) ==
  /\ phase[p] = "returned"
  /\ status' = result[p] /\ about' = p
  /\ phase' = [phase EXCEPT ![p] = "stored"]
  /\ UNCHANGED <<latest, result, ctxDone, at, of, answer>>

(* A bug: done is closed on one path only.                                 *)
CloseDoneUnlessFailed(p) ==
  /\ phase[p] = "stored" /\ result[p] # "failed"
  /\ phase' = [phase EXCEPT ![p] = "closed"]
  /\ UNCHANGED <<status, about, latest, result, ctxDone, at, of, answer>>

CloseDone(p) ==
  /\ phase[p] = "stored"
  /\ phase' = [phase EXCEPT ![p] = "closed"]
  /\ UNCHANGED <<status, about, latest, result, ctxDone, at, of, answer>>

-----------------------------------------------------------------------------
(* cancelRunning.                                                          *)

Find(c) ==
  /\ at[c] = "idle"
  /\ status = "running"
  /\ at' = [at EXCEPT ![c] = "found"]
  /\ of' = [of EXCEPT ![c] = latest]
  /\ UNCHANGED <<pullVars, ctxDone, answer>>

CancelCtx(c) ==
  /\ at[c] = "found"
  /\ ctxDone' = ctxDone \cup {of[c]}
  /\ at' = [at EXCEPT ![c] = "waiting"]
  /\ UNCHANGED <<pullVars, of, answer>>

(* A bug: the answer is the status cancelRunning found under its first     *)
(* lock.                                                                   *)
AnswerAsFound(c) ==
  /\ at[c] = "waiting" /\ phase[of[c]] = "closed"
  /\ at' = [at EXCEPT ![c] = "answered"]
  /\ answer' = [answer EXCEPT ![c] = [status |-> "running", pull |-> of[c]]]
  /\ UNCHANGED <<pullVars, ctxDone, of>>

(* The answer is the status as it stands when the pull has stopped, or     *)
(* when pullCancelWait is over.                                            *)
Answer(c) ==
  /\ at[c] = "waiting" /\ phase[of[c]] = "closed"
  /\ at' = [at EXCEPT ![c] = "answered"]
  /\ answer' = [answer EXCEPT ![c] = [status |-> status, pull |-> about]]
  /\ UNCHANGED <<pullVars, ctxDone, of>>

WaitIsOver(c) ==
  /\ at[c] = "waiting"
  /\ at' = [at EXCEPT ![c] = "timedOut"]
  /\ answer' = [answer EXCEPT ![c] = [status |-> status, pull |-> about]]
  /\ UNCHANGED <<pullVars, ctxDone, of>>

AskAgain(c) ==
  /\ at[c] \in {"answered", "timedOut"}
  /\ at' = [at EXCEPT ![c] = "idle"]
  /\ UNCHANGED <<pullVars, ctxDone, of, answer>>

-----------------------------------------------------------------------------
Ending(p) == (\E r \in Ends : PullReturns(p, r)) \/ StoreEnd(p) \/ CloseDone(p)
Cancelling(c) == Find(c) \/ CancelCtx(c) \/ Answer(c) \/ WaitIsOver(c) \/ AskAgain(c)

Next ==
  \/ Start
  \/ \E p \in Pulls : Progress(p) \/ Ending(p)
  \/ \E c \in Clients : Cancelling(c)

Spec == Init /\ [][Next]_vars

(* A client that has found a pull goes on to cancel it, and a pull whose   *)
(* context is cancelled returns; a download that nobody cancels owes no    *)
(* end.                                                                    *)
Fairness ==
  /\ \A c \in Clients : WF_vars(CancelCtx(c))
  /\ \A p \in Pulls : WF_vars(p \in ctxDone /\ Ending(p)) /\ WF_vars(StoreEnd(p) \/ CloseDone(p))

FairSpec == Spec /\ Fairness

-----------------------------------------------------------------------------
(* Every variable holds values of its kind (pullTracker).                  *)
TypeOK ==
  /\ status \in Ends \cup {"idle", "running"}
  /\ about \in 0..MaxPulls /\ latest \in 0..MaxPulls
  /\ phase \in [Pulls -> {"none", "pulling", "returned", "stored", "closed"}]
  /\ result \in [Pulls -> Ends \cup {"none"}]
  /\ ctxDone \subseteq Pulls
  /\ at \in [Clients -> {"idle", "found", "waiting", "answered", "timedOut"}]
  /\ of \in [Clients -> 0..MaxPulls]
  /\ answer \in [Clients -> [status : Ends \cup {"idle", "running"}, pull : 0..MaxPulls]]

(* One download at a time, system-wide: no second pull begins while an     *)
(* earlier one, cancelled or not, may still be downloading (start, and the *)
(* comment at the head of pull.go).                                        *)
OneDownload == Cardinality({p \in Pulls : phase[p] \in Working}) <= 1

(* A status that says running is always that of a pull that will still end *)
(* it: a stale one would refuse every download to come (start, update).    *)
RunningHasAPull == status = "running" => phase[latest] \in Working

(* A cancel that waited for the pull to stop is told how that pull ended,  *)
(* whatever has written the status since it closed done, unless a newer    *)
(* download was started in between: then it is told how that one stands.   *)
(* No cancel is told of a pull older than the one it found (cancelRunning: *)
(* t.current() after done, or when pullCancelWait is over).                *)
AnswerStands ==
  \A c \in Clients :
    /\ at[c] \in {"answered", "timedOut"} => answer[c].pull >= of[c]
    /\ at[c] = "answered" /\ answer[c].pull = of[c] => answer[c].status = result[of[c]]

(* The tracker's status lives the life JobSlot promises: the end of an     *)
(* older pull never overwrites a newer one's status (update).              *)
Slot == INSTANCE JobSlot WITH job <- about, state <- status
SlotSpec == Slot!Spec

(* A cancelled pull ends, and with it the status (cancelRunning).          *)
CancelledPullEnds == \A p \in Pulls : (p \in ctxDone) ~> (phase[p] = "closed")
=============================================================================
