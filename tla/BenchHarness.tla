---------------------------- MODULE BenchHarness ----------------------------
(***************************************************************************)
(* The benchmark harness: internal/bench/harness.go with the rows it keeps *)
(* (internal/store/bench.go) and the evidence read back from them          *)
(* (internal/bench/evidence.go).                                           *)
(*                                                                         *)
(* HTTP clients call Start and Cancel from goroutines of their own; a run  *)
(* is a goroutine detached from them; h.mu and a.mu are held for a single  *)
(* step each, so a step of this module is one critical section or one call *)
(* to the runtime or the store.  The daemon may stop at any step and start *)
(* again on the same database.                                             *)
(*                                                                         *)
(* Fields of a run that is gone, or died with the daemon, are kept as      *)
(* history: nothing reads them but the properties.                         *)
(***************************************************************************)
EXTENDS Naturals, FiniteSets

CONSTANTS
  Clients,          \* goroutines serving HTTP requests
  MaxRuns,          \* bound: benchmark_runs ids ever handed out
  Configs,          \* keys of the estimates table a run can be of
  MaxPrompts,       \* prompts of the suite
  Repeats,          \* timed requests per prompt (suite.Repeats)
  Warmups,          \* warm-up requests (suite.Warmups)
  MaxCrashes,       \* bound: how often the daemon stops
  FinalSaveMayFail, \* whether the run's last write can fail: the store refuses
                    \* it, or finish's own deadline passed during the unload
  NoConfig          \* a configuration the estimator cannot be asked about

ASSUME BenchHarnessAssumption ==
  /\ MaxRuns \in Nat /\ MaxPrompts \in Nat \ {0}
  /\ Repeats \in Nat \ {0} /\ Warmups \in Nat
  /\ MaxCrashes \in Nat
  /\ FinalSaveMayFail \in BOOLEAN
  /\ NoConfig \notin Configs

VARIABLES
  up,         \* the daemon runs
  crashes,    \* how often it stopped
  active,     \* h.active: the id of the run in progress, 0 when nil
  pc,         \* where each run's goroutine is
  cancelled,  \* activeRun.cancelled
  ctxDone,    \* the run's context is cancelled
  shown,      \* activeRun.run.Status, what the run in memory says
  todo,       \* prompts still to time, the current one included
  rep,        \* timed requests of the current prompt answered
  step,       \* runState.step: requests answered or passed over
  steps,      \* runState.steps: requests announced
  timed,      \* some prompt has a result
  gen,        \* s.run.GenTPS: a result has an answering speed
  config,     \* the configuration the runtime chose
  cause,      \* why runErr is set: the cancelled context, or anything else
  seen,       \* finish's local copy of cancelled
  verdict,    \* s.run.Status
  row,        \* benchmark_runs.status
  rowGen,     \* benchmark_runs.gen_tps_median is not NULL
  est,        \* estimates.measured_run_id of each configuration, 0 when none
  at,         \* where each client's goroutine is
  target      \* the run a client's Cancel is about

harnessVars == <<up, crashes, active>>
flagVars    == <<cancelled, ctxDone, shown>>
countVars   == <<todo, rep, step, steps>>
resultVars  == <<timed, gen, config>>
endVars     == <<cause, seen, verdict>>
workVars    == <<countVars, resultVars, endVars>>
runVars     == <<pc, flagVars, workVars>>
storeVars   == <<row, rowGen, est>>
clientVars  == <<at, target>>
vars == <<harnessVars, runVars, storeVars, clientVars>>

Runs == 1..MaxRuns
Finished == {"done", "failed", "cancelled"}

\* execute's part of the goroutine, then finish's, in order.
Executing == {"preparing", "warming", "observing", "measuring"}
Finishing == {"finish", "unloading", "writeback", "saving", "publishing", "clearing"}
PCs == {"none", "closing", "gone", "died"} \cup Executing \cup Finishing

Init ==
  /\ up = TRUE /\ crashes = 0 /\ active = 0
  /\ pc = [r \in Runs |-> "none"]
  /\ cancelled = [r \in Runs |-> FALSE]
  /\ ctxDone = [r \in Runs |-> FALSE]
  /\ shown = [r \in Runs |-> "running"]
  /\ todo = [r \in Runs |-> 0] /\ rep = [r \in Runs |-> 0]
  /\ step = [r \in Runs |-> 0] /\ steps = [r \in Runs |-> 0]
  /\ timed = [r \in Runs |-> FALSE] /\ gen = [r \in Runs |-> FALSE]
  /\ config = [r \in Runs |-> NoConfig]
  /\ cause = [r \in Runs |-> "none"] /\ seen = [r \in Runs |-> FALSE]
  /\ verdict = [r \in Runs |-> "running"]
  /\ row = [r \in Runs |-> "absent"]
  /\ rowGen = [r \in Runs |-> FALSE]
  /\ est = [c \in Configs |-> 0]
  /\ at = [c \in Clients |-> "idle"]
  /\ target = [c \in Clients |-> 0]

-----------------------------------------------------------------------------
(* Start *)

\* The first look at h.active: ErrBusy leaves everything as it is.
StartCheck(c) ==
  /\ up /\ at[c] = "idle" /\ active = 0
  /\ at' = [at EXCEPT ![c] = "planning"]
  /\ UNCHANGED <<harnessVars, runVars, storeVars, target>>

\* The id SQLite gives the next row.
NextId(r) == r \in Runs /\ row[r] = "absent" /\ \A q \in 1..(r - 1) : row[q] # "absent"

\* Mutant: the second look at h.active is dropped.
StartRunUnchecked(c) ==
  /\ up /\ at[c] = "planning"
  /\ \E r \in Runs, n \in 1..MaxPrompts :
       /\ NextId(r)
       /\ row' = [row EXCEPT ![r] = "running"]
       /\ active' = r
       /\ pc' = [pc EXCEPT ![r] = "preparing"]
       /\ todo' = [todo EXCEPT ![r] = n]
       /\ steps' = [steps EXCEPT ![r] = Warmups + n * Repeats]
  /\ at' = [at EXCEPT ![c] = "idle"]
  /\ UNCHANGED <<up, crashes, flagVars, rep, step, resultVars, endVars, rowGen, est, target>>

\* Under h.mu again: look once more, insert the row, become the active run,
\* and start the goroutine.
StartRun(c) ==
  /\ up /\ at[c] = "planning" /\ active = 0
  /\ \E r \in Runs, n \in 1..MaxPrompts :
       /\ NextId(r)
       /\ row' = [row EXCEPT ![r] = "running"]
       /\ active' = r
       /\ pc' = [pc EXCEPT ![r] = "preparing"]
       /\ todo' = [todo EXCEPT ![r] = n]
       /\ steps' = [steps EXCEPT ![r] = Warmups + n * Repeats]
  /\ at' = [at EXCEPT ![c] = "idle"]
  /\ UNCHANGED <<up, crashes, flagVars, rep, step, resultVars, endVars, rowGen, est, target>>

\* prepare failed, the plan refuses the configuration, another run got there
\* first (ErrBusy) or the insert failed: no run starts.
StartFails(c) ==
  /\ up /\ at[c] = "planning"
  /\ at' = [at EXCEPT ![c] = "idle"]
  /\ UNCHANGED <<harnessVars, runVars, storeVars, target>>

-----------------------------------------------------------------------------
(* Cancel *)

\* ErrNotFound, for any other id, leaves everything as it is.
CancelFind(c) ==
  /\ up /\ at[c] = "idle" /\ active # 0
  /\ at' = [at EXCEPT ![c] = "marking"]
  /\ target' = [target EXCEPT ![c] = active]
  /\ UNCHANGED <<harnessVars, runVars, storeVars>>

\* Mutant: Cancel only cancels the context.
CancelUnmarked(c) ==
  /\ up /\ at[c] = "marking"
  /\ at' = [at EXCEPT ![c] = "cancelling"]
  /\ UNCHANGED <<harnessVars, runVars, storeVars, target>>

CancelMark(c) ==
  /\ up /\ at[c] = "marking"
  /\ cancelled' = [cancelled EXCEPT ![target[c]] = TRUE]
  /\ at' = [at EXCEPT ![c] = "cancelling"]
  /\ UNCHANGED <<harnessVars, pc, ctxDone, shown, workVars, storeVars, target>>

CancelCtx(c) ==
  /\ up /\ at[c] = "cancelling"
  /\ ctxDone' = [ctxDone EXCEPT ![target[c]] = TRUE]
  /\ at' = [at EXCEPT ![c] = "waiting"]
  /\ UNCHANGED <<harnessVars, pc, cancelled, shown, workVars, storeVars, target>>

\* a.done is closed, or the request's own context ended: answer with a.run.
CancelAnswer(c) ==
  /\ up /\ at[c] = "waiting" /\ pc[target[c]] = "gone"
  /\ at' = [at EXCEPT ![c] = "idle"]
  /\ target' = [target EXCEPT ![c] = 0]
  /\ UNCHANGED <<harnessVars, runVars, storeVars>>

CancelGivesUp(c) ==
  /\ up /\ at[c] = "waiting"
  /\ at' = [at EXCEPT ![c] = "idle"]
  /\ target' = [target EXCEPT ![c] = 0]
  /\ UNCHANGED <<harnessVars, runVars, storeVars>>

-----------------------------------------------------------------------------
(* execute *)

\* The run's goroutine moves from p to q.
Goto(r, p, q) ==
  /\ up /\ pc[r] = p
  /\ pc' = [pc EXCEPT ![r] = q]

\* A step that touches nothing but the run's own state.
Own == UNCHANGED <<harnessVars, flagVars, storeVars, clientVars>>

\* save(ctx) during the run: the row still says running.  It fails when the
\* run was cancelled, and may fail anyway; a failure is only logged.
SaveProgress(r, g) ==
  \/ UNCHANGED <<row, rowGen>>
  \/ /\ ~ctxDone[r]
     /\ row' = [row EXCEPT ![r] = "running"]
     /\ rowGen' = [rowGen EXCEPT ![r] = g]

\* The model is not loaded, or was unloaded, and the machine has settled.
\* The sleep notices a cancelled context.
Prepared(r) ==
  /\ Goto(r, "preparing", "warming") /\ ~ctxDone[r]
  /\ Own /\ UNCHANGED workVars

\* A warm-up request was answered.
WarmUp(r) ==
  /\ Goto(r, "warming", "warming") /\ ~ctxDone[r] /\ step[r] < Warmups
  /\ step' = [step EXCEPT ![r] = @ + 1]
  /\ Own /\ UNCHANGED <<todo, rep, steps, resultVars, endVars>>

WarmedUp(r) ==
  /\ Goto(r, "warming", "observing") /\ step[r] = Warmups
  /\ Own /\ UNCHANGED workVars

\* Mutant: checkFits drops one prompt more than it says.
ObserveDropsOneMore(r) ==
  /\ Goto(r, "observing", "measuring")
  /\ \E c \in Configs \cup {NoConfig}, k \in 0..todo[r] :
       /\ config' = [config EXCEPT ![r] = c]
       /\ todo' = [todo EXCEPT ![r] = @ - k - 1]
       /\ steps' = [steps EXCEPT ![r] = @ - k * Repeats]
  /\ SaveProgress(r, gen[r])
  /\ UNCHANGED <<harnessVars, flagVars, rep, step, timed, gen, endVars, est, clientVars>>

\* observeLoad reads which configuration the runtime chose; checkFits drops
\* the k prompts the model's tokenizer makes too long.
Observe(r) ==
  /\ Goto(r, "observing", "measuring")
  /\ \E c \in Configs \cup {NoConfig}, k \in 0..todo[r] :
       /\ config' = [config EXCEPT ![r] = c]
       /\ todo' = [todo EXCEPT ![r] = @ - k]
       /\ steps' = [steps EXCEPT ![r] = @ - k * Repeats]
  /\ SaveProgress(r, gen[r])
  /\ UNCHANGED <<harnessVars, flagVars, rep, step, timed, gen, endVars, est, clientVars>>

\* One of the timed requests of a prompt, not its last.
TimedRequest(r) ==
  /\ Goto(r, "measuring", "measuring") /\ ~ctxDone[r]
  /\ todo[r] > 0 /\ rep[r] + 1 < Repeats
  /\ step' = [step EXCEPT ![r] = @ + 1]
  /\ rep' = [rep EXCEPT ![r] = @ + 1]
  /\ Own /\ UNCHANGED <<todo, steps, resultVars, endVars>>

\* The last timed request of a prompt: its result, the headline and a save.
\* g: the answers were long enough to time.
TimedPrompt(r) ==
  /\ Goto(r, "measuring", "measuring") /\ ~ctxDone[r]
  /\ todo[r] > 0 /\ rep[r] + 1 = Repeats
  /\ step' = [step EXCEPT ![r] = @ + 1]
  /\ rep' = [rep EXCEPT ![r] = 0]
  /\ todo' = [todo EXCEPT ![r] = @ - 1]
  /\ timed' = [timed EXCEPT ![r] = TRUE]
  /\ \E g \in {gen[r], TRUE} :
       /\ gen' = [gen EXCEPT ![r] = g]
       /\ SaveProgress(r, g)
  /\ UNCHANGED <<harnessVars, flagVars, steps, config, endVars, est, clientVars>>

\* Mutant: the refused request itself is not counted.
PromptTooLongOffByOne(r) ==
  /\ Goto(r, "measuring", "measuring") /\ ~ctxDone[r] /\ todo[r] > 0
  /\ step' = [step EXCEPT ![r] = @ + (Repeats - rep[r] - 1)]
  /\ rep' = [rep EXCEPT ![r] = 0]
  /\ todo' = [todo EXCEPT ![r] = @ - 1]
  /\ Own /\ UNCHANGED <<steps, resultVars, endVars>>

\* The runtime refuses the prompt as longer than its context: the timings
\* already taken are discarded and the prompt's requests are passed over.
PromptTooLong(r) ==
  /\ Goto(r, "measuring", "measuring") /\ ~ctxDone[r] /\ todo[r] > 0
  /\ step' = [step EXCEPT ![r] = @ + (Repeats - rep[r])]
  /\ rep' = [rep EXCEPT ![r] = 0]
  /\ todo' = [todo EXCEPT ![r] = @ - 1]
  /\ Own /\ UNCHANGED <<steps, resultVars, endVars>>

\* Every prompt timed or passed over; an error when none was timed.
Measured(r) ==
  /\ Goto(r, "measuring", "finish") /\ todo[r] = 0
  /\ cause' = [cause EXCEPT ![r] = IF timed[r] THEN "none" ELSE "other"]
  /\ Own /\ UNCHANGED <<countVars, resultVars, seen, verdict>>

\* A request, the first unload or the settling failed, or the harness
\* panicked: the deferred calls run finish.  Every one of them fails once the
\* run's context is cancelled.
Fails(r) ==
  /\ \/ pc[r] \in {"preparing", "observing"}
     \/ pc[r] = "warming" /\ step[r] < Warmups
     \/ pc[r] = "measuring" /\ todo[r] > 0
  /\ Goto(r, pc[r], "finish")
  /\ cause' = [cause EXCEPT ![r] = IF ctxDone[r] THEN "ctx" ELSE "other"]
  /\ Own /\ UNCHANGED <<countVars, resultVars, seen, verdict>>

-----------------------------------------------------------------------------
(* finish *)

\* Whether the run was cancelled is read once, before the model is unloaded.
ReadCancelled(r) ==
  /\ Goto(r, "finish", "unloading")
  /\ seen' = [seen EXCEPT ![r] = cancelled[r]]
  /\ Own /\ UNCHANGED <<countVars, resultVars, cause, verdict>>

Verdict(r) ==
  IF seen[r] THEN "cancelled" ELSE IF cause[r] # "none" THEN "failed" ELSE "done"

\* Mutant: the status is shown before it is stored.
UnloadedShowsEarly(r) ==
  /\ Goto(r, "unloading", IF Verdict(r) = "done" THEN "writeback" ELSE "saving")
  /\ verdict' = [verdict EXCEPT ![r] = Verdict(r)]
  /\ shown' = [shown EXCEPT ![r] = Verdict(r)]
  /\ UNCHANGED <<harnessVars, cancelled, ctxDone, countVars, resultVars, cause, seen, storeVars, clientVars>>

\* Mutant: the measurement is written back whenever no error was met.
UnloadedReplacesAnyway(r) ==
  /\ Goto(r, "unloading", IF cause[r] = "none" THEN "writeback" ELSE "saving")
  /\ verdict' = [verdict EXCEPT ![r] = Verdict(r)]
  /\ Own /\ UNCHANGED <<countVars, resultVars, cause, seen>>

\* The unload returned, one way or the other; the status is decided.
Unloaded(r) ==
  /\ Goto(r, "unloading", IF Verdict(r) = "done" THEN "writeback" ELSE "saving")
  /\ verdict' = [verdict EXCEPT ![r] = Verdict(r)]
  /\ Own /\ UNCHANGED <<countVars, resultVars, cause, seen>>

\* writeBack: the estimate of the configuration becomes the measurement.
\* A failure is only logged.
WriteBack(r) ==
  /\ Goto(r, "writeback", "saving")
  /\ \/ UNCHANGED est
     \/ /\ gen[r] /\ config[r] \in Configs
        /\ est' = [est EXCEPT ![config[r]] = r]
  /\ UNCHANGED <<harnessVars, flagVars, workVars, row, rowGen, clientVars>>

\* Mutant: only a run that completed is stored at its end.
FinalSaveOfDone(r) ==
  /\ Goto(r, "saving", "publishing")
  /\ \/ /\ verdict[r] = "done"
        /\ row' = [row EXCEPT ![r] = verdict[r]]
        /\ rowGen' = [rowGen EXCEPT ![r] = gen[r]]
     \/ verdict[r] # "done" /\ UNCHANGED <<row, rowGen>>
  /\ UNCHANGED <<harnessVars, flagVars, workVars, est, clientVars>>

FinalSave(r) ==
  /\ Goto(r, "saving", "publishing")
  /\ \/ /\ row' = [row EXCEPT ![r] = verdict[r]]
        /\ rowGen' = [rowGen EXCEPT ![r] = gen[r]]
     \/ FinalSaveMayFail /\ UNCHANGED <<row, rowGen>>
  /\ UNCHANGED <<harnessVars, flagVars, workVars, est, clientVars>>

\* Mutant: the last event goes out, a.run keeps saying running.
PublishKeepsRun(r) ==
  /\ Goto(r, "publishing", "clearing")
  /\ Own /\ UNCHANGED workVars

Publish(r) ==
  /\ Goto(r, "publishing", "clearing")
  /\ shown' = [shown EXCEPT ![r] = verdict[r]]
  /\ UNCHANGED <<harnessVars, cancelled, ctxDone, workVars, storeVars, clientVars>>

\* Mutant: the harness is freed only by a run that completed.
ClearActiveOfDone(r) ==
  /\ Goto(r, "clearing", "closing")
  /\ active' = IF verdict[r] = "done" THEN 0 ELSE active
  /\ UNCHANGED <<up, crashes, flagVars, workVars, storeVars, clientVars>>

ClearActive(r) ==
  /\ Goto(r, "clearing", "closing")
  /\ active' = IF active = r THEN 0 ELSE active
  /\ UNCHANGED <<up, crashes, flagVars, workVars, storeVars, clientVars>>

\* close(a.done)
CloseDone(r) ==
  /\ Goto(r, "closing", "gone")
  /\ Own /\ UNCHANGED workVars

-----------------------------------------------------------------------------
(* The daemon stops and starts *)

Crash ==
  /\ up /\ crashes < MaxCrashes
  /\ up' = FALSE /\ crashes' = crashes + 1 /\ active' = 0
  /\ pc' = [r \in Runs |-> IF pc[r] \in {"none", "gone"} THEN pc[r] ELSE "died"]
  /\ at' = [c \in Clients |-> "idle"]
  /\ target' = [c \in Clients |-> 0]
  /\ UNCHANGED <<flagVars, workVars, storeVars>>

\* main calls Recover before it serves: InterruptBenchRuns.
Recover ==
  /\ ~up /\ up' = TRUE
  /\ row' = [r \in Runs |-> IF row[r] = "running" THEN "failed" ELSE row[r]]
  /\ UNCHANGED <<crashes, active, runVars, rowGen, est, clientVars>>

-----------------------------------------------------------------------------

Execute(r) ==
  \/ Prepared(r) \/ WarmUp(r) \/ WarmedUp(r) \/ Observe(r)
  \/ TimedRequest(r) \/ TimedPrompt(r) \/ PromptTooLong(r) \/ Measured(r) \/ Fails(r)

Finish(r) ==
  \/ ReadCancelled(r) \/ Unloaded(r) \/ WriteBack(r) \/ FinalSave(r)
  \/ Publish(r) \/ ClearActive(r) \/ CloseDone(r)

Client(c) ==
  \/ StartCheck(c) \/ StartRun(c) \/ StartFails(c)
  \/ CancelFind(c) \/ CancelMark(c) \/ CancelCtx(c) \/ CancelAnswer(c) \/ CancelGivesUp(c)

Next ==
  \/ \E c \in Clients : Client(c)
  \/ \E r \in Runs : Execute(r) \/ Finish(r)
  \/ Crash \/ Recover

Spec == Init /\ [][Next]_vars

\* The scheduler runs every goroutine that can run.  The runtime owes no
\* answer: a request is sure to end only once the run's context is cancelled
\* (Fails), and every wait of finish has a deadline.
Fairness ==
  /\ \A r \in Runs : /\ WF_vars(Finish(r))
                     /\ WF_vars(WarmedUp(r) \/ Observe(r) \/ Measured(r))
                     /\ WF_vars(ctxDone[r] /\ Fails(r))
  /\ \A c \in Clients : /\ WF_vars(CancelMark(c) \/ CancelCtx(c))
                        /\ WF_vars(CancelAnswer(c))
  /\ WF_vars(Recover)

FairSpec == Spec /\ Fairness

-----------------------------------------------------------------------------
(* Properties *)

TypeOK ==
  /\ up \in BOOLEAN /\ crashes \in 0..MaxCrashes
  /\ active \in 0..MaxRuns
  /\ pc \in [Runs -> PCs]
  /\ cancelled \in [Runs -> BOOLEAN] /\ ctxDone \in [Runs -> BOOLEAN]
  /\ shown \in [Runs -> Finished \cup {"running"}]
  /\ todo \in [Runs -> Nat] /\ rep \in [Runs -> Nat]
  /\ step \in [Runs -> Nat] /\ steps \in [Runs -> Nat]
  /\ timed \in [Runs -> BOOLEAN] /\ gen \in [Runs -> BOOLEAN]
  /\ config \in [Runs -> Configs \cup {NoConfig}]
  /\ cause \in [Runs -> {"none", "ctx", "other"}] /\ seen \in [Runs -> BOOLEAN]
  /\ verdict \in [Runs -> Finished \cup {"running"}]
  /\ row \in [Runs -> Finished \cup {"absent", "running"}]
  /\ rowGen \in [Runs -> BOOLEAN]
  /\ est \in [Configs -> 0..MaxRuns]
  /\ at \in [Clients -> {"idle", "planning", "marking", "cancelling", "waiting"}]
  /\ target \in [Clients -> 0..MaxRuns]

\* What a reader is told of a run: the one in progress from memory, any
\* other from its row (Harness.Get).
View(r) == IF active = r THEN shown[r] ELSE row[r]

\* Two runs never share the machine, whichever order two clients' checks,
\* plans and inserts came in: a measurement taken beside another is worthless.
OneAtATime ==
  Cardinality({r \in Runs : pc[r] \in Executing \cup Finishing}) <= 1

\* A row that says running belongs to the run in progress: after every finish
\* and every restart, no row is left saying it.
RunningRowIsLive == \A r \in Runs : up /\ row[r] = "running" => active = r

\* Cancelling a run never makes it look like a failure: an error that comes
\* from the cancelled context is always accompanied by the cancelled flag.
CancelIsNotFailure ==
  \A r \in Runs : verdict[r] = "failed" => cause[r] = "other"

\* The progress bar: the steps taken never pass the steps announced, and a
\* run that ends done has taken every one, whatever was skipped on the way.
StepsAddUp ==
  \A r \in Runs : /\ step[r] <= steps[r]
                  /\ verdict[r] = "done" => step[r] = steps[r]

\* Only a run that timed everything, without error and before any cancel was
\* seen, replaces an estimate, also after the daemon stopped at any point.
OnlyCompleteRunsReplace ==
  \A c \in Configs : est[c] # 0 =>
    /\ verdict[est[c]] = "done"
    /\ gen[est[c]] /\ config[est[c]] = c

\* Cancel answers only when a reader already gets the run's end from memory
\* and from the store alike.
AnswerIsFinal ==
  \A r \in Runs : pc[r] = "gone" => shown[r] \in Finished /\ row[r] = shown[r]

Views == [r \in Runs |-> View(r)]

\* The abstract life of a run (BenchLedger) as implemented here: a run begins
\* only while none is in progress, and what a reader saw of a finished run
\* never changes again, through the moment the answer moves from memory to the
\* store, and through a stop.
Ledger == INSTANCE BenchLedger WITH ledger <- Views
LedgerSpec == Ledger!Spec

\* A cancelled run ends, although the runtime may never answer it, and the
\* harness is free for another.
CancelledRunEnds == \A r \in Runs : ctxDone[r] ~> active # r
=============================================================================
