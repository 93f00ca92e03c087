----------------------------- MODULE UnloadLoop -----------------------------
(***************************************************************************)
(* Freeing a model's memory at the end of a run: the loop of               *)
(* internal/bench/harness.go, unload, under the context finish gives it,   *)
(* and the runtime it talks to (internal/backend/ollama: Running, Unload). *)
(* execute uses the same loop before the run, under the run's own context, *)
(* which has no deadline and may be cancelled: before.                     *)
(*                                                                         *)
(* BenchHarness takes the loop as one step that confirms or does not, and  *)
(* lets the write after it fail; here is when each can happen.  Time is    *)
(* counted in units of the shortest interval that matters.  The runtime    *)
(* may still be loading the model when it is first asked to unload it (a   *)
(* run cancelled during its warm-up): the load then shows within LoadLag.  *)
(***************************************************************************)
EXTENDS Integers

CONSTANTS UnloadWait, \* Config.UnloadWait
          Grace,      \* what finish adds to it for the context's deadline
          UnloadPoll, \* Config.UnloadPoll
          CallMax,    \* the HTTP client's timeout of Running and Unload
          LoadLag     \* a load in progress has shown this long after the first request

ASSUME UnloadAssumption ==
  /\ UnloadWait \in Nat /\ Grace \in Nat /\ CallMax \in Nat
  /\ UnloadPoll \in Nat \ {0}
  /\ LoadLag \in Nat \ {0} /\ LoadLag <= 2 * UnloadPoll

VARIABLES before,  \* the loop is the one before a run, under a context without a deadline
          now,     \* the time since the loop began
          cut,     \* the context has been cancelled
          pc,      \* where the loop is
          asked,   \* the runtime has been asked to unload
          askedAt, \* when it was asked first
          absent,  \* the readings in a row without the model
          seen,    \* the model is in the list under way
          loaded,  \* the model is in the runtime's memory, and in its list
          loading, \* a load of it is still in progress
          freeing  \* the runtime is freeing it

vars == <<before, now, cut, pc, asked, askedAt, absent, seen, loaded, loading, freeing>>

(* The context's end; without a deadline, a moment the loop never reaches. *)
CtxEnd == UnloadWait + IF before THEN UnloadPoll + 2 * CallMax + 1 ELSE Grace
CtxOver == cut \/ now >= CtxEnd
Returned == pc \in {"confirmed", "gaveUp"}

Init ==
  /\ before \in BOOLEAN
  /\ now = 0 /\ cut = FALSE /\ pc = "list"
  /\ asked = FALSE /\ askedAt = 0 /\ absent = 0
  /\ seen = FALSE
  /\ loaded \in BOOLEAN /\ loading \in BOOLEAN /\ freeing = FALSE
  /\ loading => ~loaded

(* Time passes, but not past the moment a load in progress shows.          *)
Pass(d) ==
  /\ now' = now + d
  /\ loading /\ asked => now' < askedAt + LoadLag

-----------------------------------------------------------------------------
(* The runtime.                                                            *)

LoadShows ==
  /\ loading
  /\ loading' = FALSE /\ loaded' = TRUE
  /\ UNCHANGED <<before, now, cut, pc, asked, askedAt, absent, seen, freeing>>

Freed ==
  /\ freeing
  /\ freeing' = FALSE /\ loaded' = FALSE
  /\ UNCHANGED <<before, now, cut, pc, asked, askedAt, absent, seen, loading>>

-----------------------------------------------------------------------------
(* The loop.                                                               *)

(* Running is called: the list is taken as the runtime has it now.         *)
ListTaken ==
  /\ pc = "list" /\ ~cut
  /\ seen' = loaded
  /\ pc' = "listing"
  /\ UNCHANGED <<before, now, cut, asked, askedAt, absent, loaded, loading, freeing>>

(* A bug: one reading without the model is taken as the last word.         *)
ListAnsweredOnce(d) ==
  /\ pc = "listing"
  /\ ~cut /\ now + d < CtxEnd
  /\ Pass(d)
  /\ absent' = IF ~seen /\ asked THEN 1 ELSE 0
  /\ pc' = IF absent' = 1 THEN "confirmed"
           ELSE IF seen \/ ~asked THEN "unload" ELSE "check"
  /\ UNCHANGED <<before, cut, asked, askedAt, seen, loaded, loading, freeing>>

(* ... and the answer comes, after d.                                      *)
ListAnswered(d) ==
  /\ pc = "listing"
  /\ ~cut /\ now + d < CtxEnd
  /\ Pass(d)
  /\ absent' = IF ~seen /\ asked THEN absent + 1 ELSE 0
  /\ pc' = IF absent' >= 2 THEN "confirmed"
           ELSE IF seen \/ ~asked THEN "unload" ELSE "check"
  /\ UNCHANGED <<before, cut, asked, askedAt, seen, loaded, loading, freeing>>

(* A bug: after an error the list is asked for again at once.              *)
ListFailsAgain(d) ==
  /\ (pc = "listing" \/ (pc = "list" /\ cut))
  /\ now + d <= CtxEnd
  /\ Pass(d)
  /\ absent' = 0
  /\ pc' = "list"
  /\ UNCHANGED <<before, cut, asked, askedAt, seen, loaded, loading, freeing>>

(* A bug: the request does not carry the context.                          *)
ListFailsUncut(d) ==
  /\ (pc = "listing" \/ (pc = "list" /\ cut))
  /\ Pass(d)
  /\ absent' = 0
  /\ pc' = "check"
  /\ UNCHANGED <<before, cut, asked, askedAt, seen, loaded, loading, freeing>>

(* The runtime does not answer, or its answer is an error: the client's    *)
(* timeout, or the context's end, cuts the wait.                           *)
ListFails(d) ==
  /\ (pc = "listing" \/ (pc = "list" /\ cut))
  /\ now + d <= CtxEnd
  /\ Pass(d)
  /\ absent' = 0
  /\ pc' = "check"
  /\ UNCHANGED <<before, cut, asked, askedAt, seen, loaded, loading, freeing>>

(* Unload is called, and whether it was answered or not the runtime may    *)
(* have heard it: a loaded model begins to be freed.                       *)
Ask(d) ==
  /\ pc = "unload"
  /\ now + d <= CtxEnd
  /\ now' = now + d
  /\ asked' = TRUE
  /\ askedAt' = IF asked THEN askedAt ELSE now'
  /\ loading => now' < askedAt' + LoadLag
  /\ freeing' \in {freeing, loaded}
  /\ pc' = "check"
  /\ UNCHANGED <<before, cut, absent, seen, loaded, loading>>

(* The loop's own deadline.                                                *)
GiveUp ==
  /\ pc = "check" /\ now >= UnloadWait
  /\ pc' = "gaveUp"
  /\ UNCHANGED <<before, now, cut, asked, askedAt, absent, seen, loaded, loading, freeing>>

(* Sleep until the next reading ...                                        *)
Sleep ==
  /\ pc = "check" /\ now < UnloadWait
  /\ ~cut /\ now + UnloadPoll < CtxEnd
  /\ Pass(UnloadPoll)
  /\ pc' = "list"
  /\ UNCHANGED <<before, cut, asked, askedAt, absent, seen, loaded, loading, freeing>>

(* ... or until the context ends.                                          *)
SleepCut(d) ==
  /\ pc = "check" /\ now < UnloadWait
  /\ d <= UnloadPoll
  /\ (cut \/ now + d = CtxEnd)
  /\ Pass(d)
  /\ pc' = "gaveUp"
  /\ UNCHANGED <<before, cut, asked, askedAt, absent, seen, loaded, loading, freeing>>

(* The user cancels the run whose context this is.                         *)
CancelRun ==
  /\ before /\ ~cut /\ ~Returned
  /\ cut' = TRUE
  /\ UNCHANGED <<before, now, pc, asked, askedAt, absent, seen, loaded, loading, freeing>>

Loop ==
  \/ ListTaken \/ GiveUp \/ Sleep
  \/ \E d \in 0..UnloadPoll : SleepCut(d)
  \/ \E d \in 0..CallMax : ListAnswered(d) \/ ListFails(d) \/ Ask(d)

Next == LoadShows \/ Freed \/ CancelRun \/ Loop

Spec == Init /\ [][Next]_vars

(* Every call ends: the client's timeout and the context see to it.        *)
FairSpec == Spec /\ WF_vars(Loop) /\ WF_vars(LoadShows)

-----------------------------------------------------------------------------
(* Every variable holds values of its kind, and the clock stops at the     *)
(* context's end (unload).                                                 *)
TypeOK ==
  /\ before \in BOOLEAN /\ cut \in BOOLEAN
  /\ now \in 0..CtxEnd /\ askedAt \in 0..CtxEnd
  /\ pc \in {"list", "listing", "unload", "check", "confirmed", "gaveUp"}
  /\ asked \in BOOLEAN /\ seen \in BOOLEAN
  /\ absent \in 0..2
  /\ loaded \in BOOLEAN /\ loading \in BOOLEAN /\ freeing \in BOOLEAN

(* A model reported as unloaded is not in memory and not about to be,      *)
(* although a load was still in progress when the runtime was first asked, *)
(* answers are late and calls fail (unload: two readings in a row, a poll  *)
(* apart).                                                                 *)
ConfirmedIsUnloaded == pc = "confirmed" => ~loaded /\ ~loading

(* When the loop has returned, the context that finish goes on to store    *)
(* the run with has not ended (finish: "store the row").                   *)
EndCanBeStored == Returned /\ ~before => ~CtxOver
=============================================================================
