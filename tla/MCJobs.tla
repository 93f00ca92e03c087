------------------------------- MODULE MCJobs -------------------------------
(***************************************************************************)
(* The small jobs, checked in one run: downloads, installs, the loop that  *)
(* frees a model's memory, the streams a benchmark's progress is followed   *)
(* by, and the screen that follows one.  They share no state (internal/    *)
(* server/pull.go, install.go, bench.go; internal/bench/harness.go;        *)
(* ui/src/api/client.ts), so a behaviour is one of one kind, chosen at the *)
(* start; of the others the screen sees what the daemon says.              *)
(***************************************************************************)
EXTENDS UnloadLoop

CONSTANTS Clients, MaxPulls, Names, MaxInstalls, Readers, Buffer, MaxPublished, MaxTicks,
          MaxTests, Steps, MaxAsked, MaxFailures

VARIABLES which, \* the kind the behaviour is of
          status, about, latest, phase, result, ctxDone, at, of, answer,
          byName, instAbout, started, instPhase,
          active, progress, row, run, sampler, last, copy, draft, mu, toSend, subs, chan, closed, reader, current, sent, left,
          testAt, lost, es, brought, quiet, polling, pollsAsked, stopped, reading, lastFollowed, starting, cancelling,
          following, testProgress, shown, failures, refused, outwaited, strayed

Pull == INSTANCE PullTracker
Install == INSTANCE InstallTracker WITH about <- instAbout, phase <- instPhase
Stream == INSTANCE ProgressStream
Screen == INSTANCE TestScreen WITH at <- testAt, asked <- pollsAsked, latest <- lastFollowed, progress <- testProgress

pullVars == <<status, about, latest, phase, result, ctxDone, at, of, answer>>
installVars == <<byName, instAbout, started, instPhase>>
streamVars == <<active, progress, row, run, sampler, last, copy, draft, mu, toSend, subs, chan, closed, reader, current, sent, left>>
screenVars == <<testAt, lost, es, brought, quiet, polling, pollsAsked, stopped, reading, lastFollowed, starting, cancelling,
                following, testProgress, shown, failures, refused, outwaited, strayed>>

MCInit ==
  /\ which \in {"unload", "pull", "install", "stream", "screen"}
  /\ Init /\ Pull!Init /\ Install!Init /\ Stream!Init /\ Screen!Init
  /\ which # "unload" => ~before /\ ~loaded /\ ~loading

MCNext ==
  \/ which = "unload" /\ Next /\ UNCHANGED <<which, pullVars, installVars, streamVars, screenVars>>
  \/ which = "pull" /\ Pull!Next /\ UNCHANGED <<which, vars, installVars, streamVars, screenVars>>
  \/ which = "install" /\ Install!Next /\ UNCHANGED <<which, vars, pullVars, streamVars, screenVars>>
  \/ which = "stream" /\ Stream!Next /\ UNCHANGED <<which, vars, pullVars, installVars, screenVars>>
  \/ which = "screen" /\ Screen!Next /\ UNCHANGED <<which, vars, pullVars, installVars, streamVars>>

MCSpec ==
  /\ MCInit /\ [][MCNext]_<<which, vars, pullVars, installVars, streamVars, screenVars>>
  /\ WF_vars(which = "unload" /\ Loop) /\ WF_vars(LoadShows)
  /\ Pull!Fairness /\ Install!Fairness
  /\ WF_streamVars(which = "stream" /\ Stream!Broadcasting)
  /\ WF_streamVars(which = "stream" /\ Stream!Running)
  /\ WF_streamVars(which = "stream" /\ Stream!Sampling)
  /\ Screen!Fairness

(* What the slot of a download says: a status that says running has a pull *)
(* that will end it, and a client that cancels is answered with the end of *)
(* the pull it found or, if a newer download was started before the answer *)
(* was read, with that one's status, which may be running; never with one  *)
(* of an older pull (internal/server/pull.go, cancelRunning).              *)
StatusHasItsPull == Pull!RunningHasAPull /\ Pull!AnswerStands

(* The slot of a download, and that of each runtime's install, live the    *)
(* life JobSlot promises, whoever starts, polls and cancels                *)
(* (internal/server/pull.go, install.go).                                  *)
Slots == Pull!SlotSpec /\ Install!SlotSpecs

(* Nothing hangs: the unload loop returns whatever the runtime does, and   *)
(* what is cancelled or installing ends (unload's deadline; pull.go,       *)
(* handlePullCancel; install.go, handleBackendInstallStart).               *)
UnloadReturns == (which = "unload") ~> Returned
JobsEnd == UnloadReturns /\ Pull!CancelledPullEnds /\ Install!InstallEnds

(* A client of a stream that ended was sent the run as it ended, however   *)
(* far it was behind and whether or not the end could be stored, one that  *)
(* comes too late is told it if it was, and nothing is sent on a closed    *)
(* channel (internal/bench/harness.go: Subscribe, broadcast, unsubscribe;  *)
(* internal/server/bench.go, streamBench); and no late answer puts the     *)
(* progress of another test, or of one that has ended, on the screen       *)
(* (ui/src/api/client.ts, followBench).                                    *)
StreamsKeepTheEnd == Stream!LastEventIsSent /\ Stream!OpenWhileSubscribed /\ Screen!ProgressIsOfTheLatest

(* What streamBench says of a run that has already ended, that it "is one  *)
(* event", its end: not so when the end could not be stored.               *)
LateClientIsToldTheEnd == \A r \in Readers : reader[r] = "told" => sent[r].final

(* No event of a stream goes back, although the run and the sampler both   *)
(* publish and events are dropped (internal/bench/harness.go: publish,     *)
(* tick, broadcast).                                                       *)
EventsGoForward == Stream!SeenInOrder

(* A stream that is read ends, and no reader, read or not, holds the run   *)
(* up (publish, tick, broadcast); and the screen comes to show the end,    *)
(* with a stream or without one (followBench).                             *)
RunEnds == (which = "stream") ~> ~active
StreamsGoOn == Stream!OpenedStreamEnds /\ RunEnds /\ Screen!ScreenShowsTheEnd

(* All that starts here ends: the loop, what is cancelled, installs,       *)
(* streams and what follows them.                                          *)
EverythingEnds == JobsEnd /\ StreamsGoOn
=============================================================================
