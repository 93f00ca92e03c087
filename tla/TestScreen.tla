----------------------------- MODULE TestScreen -----------------------------
(***************************************************************************)
(* The screen that shows a benchmark as it runs (ui/src/screens/           *)
(* Benchmarks.tsx) and the function it follows one with (ui/src/api/       *)
(* client.ts, followBench): the stream of events, and the polls that take  *)
(* over when the stream is quiet or breaks, each with callbacks that may   *)
(* come after the user has gone on to another test.  Of the daemon it has  *)
(* how far each test is; a callback's answer is what the daemon said at    *)
(* some moment between the question and the answer.                        *)
(***************************************************************************)
EXTENDS Naturals, FiniteSets

CONSTANTS MaxTests,    \* tests of a session
          Steps,       \* what is published of a test before its end
          MaxAsked,    \* polls on their way at once
          MaxFailures  \* requests the daemon does not answer, and ends it cannot store

Tests == 1..MaxTests
Ended == Steps + 1

VARIABLES at,         \* of the daemon: how far each test is; 0 before it starts
          lost,       \*   and the tests whose end it could not store: their row says running
          es, brought, quiet, polling, asked, stopped, \* of followBench, by test
          reading,    \* the run is read after a poll failed: how far it was then
          latest,     \* stopFollowing: the test last followed
          starting, cancelling,            \* busy: the test it is about, or 0
          following, progress, shown,      \* what the screen has
          failures, refused,               \* what failed of MaxFailures, and a cancel that came too late
          outwaited,                       \* the tests whose cancel was answered before they had ended
          strayed                          \* a run read late has ended the screen of another test

follows == <<es, brought, quiet, polling, asked, stopped>>
screen == <<following, progress, shown>>
daemon == <<at, lost>>
scrVars == <<daemon, follows, reading, latest, starting, cancelling, screen, failures, refused, outwaited, strayed>>

NoProgress == [test |-> 0, at |-> 0]

Init ==
  /\ at = [i \in Tests |-> 0]
  /\ es = [i \in Tests |-> "none"] /\ brought = [i \in Tests |-> 0]
  /\ quiet = [i \in Tests |-> FALSE] /\ polling = [i \in Tests |-> FALSE]
  /\ asked = [i \in Tests |-> {}] /\ stopped = [i \in Tests |-> FALSE] /\ reading = [i \in Tests |-> 0]
  /\ latest = 0 /\ starting = 0 /\ cancelling = 0
  /\ following = 0 /\ progress = NoProgress /\ shown = 0
  /\ failures = 0 /\ refused = FALSE /\ strayed = FALSE /\ lost = {} /\ outwaited = {}

Testing == progress # NoProgress \/ following # 0 \/ starting # 0

-----------------------------------------------------------------------------
(* The daemon's test goes on.                                              *)
RunGoesOn(i) ==
  /\ at[i] \in 1..Steps - 1
  /\ at' = [at EXCEPT ![i] = @ + 1]
  /\ UNCHANGED <<lost, follows, reading, latest, starting, cancelling, screen, failures, refused, outwaited, strayed>>

(* It ends; that its last save has failed is only logged.                  *)
EndsAt(i) ==
  /\ at' = [at EXCEPT ![i] = Ended]
  /\ \/ UNCHANGED <<lost, failures>>
     \/ at[i] < Ended /\ failures < MaxFailures /\ failures' = failures + 1 /\ lost' = lost \cup {i}

TestEnds(i) ==
  /\ at[i] # 0 /\ at[i] = Steps /\ EndsAt(i)
  /\ UNCHANGED <<follows, reading, latest, starting, cancelling, screen, refused, outwaited, strayed>>

(* stop(), in followBench. *)
Stop(i) ==
  /\ stopped' = [stopped EXCEPT ![i] = TRUE] /\ es' = [es EXCEPT ![i] = "closed"]
  /\ quiet' = [quiet EXCEPT ![i] = FALSE] /\ polling' = [polling EXCEPT ![i] = FALSE]

NoStop == UNCHANGED <<stopped, es, quiet, polling>>

(* end(), in the screen. *)
End(i) == progress' = NoProgress /\ following' = 0 /\ shown' = i

DeliverAlways(i, v) ==
  IF v = Ended THEN End(i) /\ Stop(i)
  ELSE progress' = [test |-> i, at |-> v] /\ UNCHANGED <<following, shown>> /\ NoStop

Deliver(i, v) ==
  \/ stopped[i] /\ UNCHANGED screen /\ NoStop
  \/ ~stopped[i] /\ v = Ended /\ End(i) /\ Stop(i)
  \/ ~stopped[i] /\ v < Ended /\ progress' = [test |-> i, at |-> v] /\ UNCHANGED <<following, shown>> /\ NoStop

StartPolling(i) ==
  IF stopped[i] \/ polling[i] THEN UNCHANGED <<polling, asked>>
  ELSE polling' = [polling EXCEPT ![i] = TRUE] /\ asked' = [asked EXCEPT ![i] = @ \cup {at[i]}]

StreamBrings(i) ==
  /\ es[i] = "open"
  /\ \E v \in (brought[i] + 1)..at[i] : brought' = [brought EXCEPT ![i] = v] /\ Deliver(i, v)
  /\ UNCHANGED <<daemon, asked, reading, latest, starting, cancelling, failures, refused, outwaited, strayed>>

StreamBreaks(i) ==
  /\ es[i] = "open"
  /\ es' = [es EXCEPT ![i] = "closed"]
  /\ StartPolling(i)
  /\ UNCHANGED <<daemon, brought, quiet, stopped, reading, latest, starting, cancelling, screen, failures, refused, outwaited, strayed>>

QuietGivesUp(i) ==
  /\ quiet[i]
  /\ quiet' = [quiet EXCEPT ![i] = FALSE]
  /\ UNCHANGED <<daemon, es, brought, polling, asked, stopped, reading, latest, starting, cancelling, screen, failures, refused, outwaited, strayed>>

QuietPasses(i) ==
  /\ quiet[i]
  /\ quiet' = [quiet EXCEPT ![i] = FALSE]
  /\ IF brought[i] = 0 THEN StartPolling(i) ELSE UNCHANGED <<polling, asked>>
  /\ UNCHANGED <<daemon, es, brought, stopped, reading, latest, starting, cancelling, screen, failures, refused, outwaited, strayed>>

Tick(i) ==
  /\ polling[i] /\ Cardinality(asked[i]) < MaxAsked
  /\ asked' = [asked EXCEPT ![i] = @ \cup {at[i]}]
  /\ UNCHANGED <<daemon, es, brought, quiet, polling, stopped, reading, latest, starting, cancelling, screen, failures, refused, outwaited, strayed>>

(* What the store says of an end that is lost: the test as it was saved    *)
(* last.                                                                   *)
PollAnswered(i) ==
  /\ \E w \in asked[i] : \E v \in (IF i \in lost THEN 1 ELSE w)..at[i] :
       asked' = [asked EXCEPT ![i] = @ \ {w}] /\ Deliver(i, v)
  /\ UNCHANGED <<daemon, brought, reading, latest, starting, cancelling, failures, refused, outwaited, strayed>>

PollFails(i) ==
  /\ failures < MaxFailures /\ failures' = failures + 1
  /\ \E w \in asked[i] : asked' = [asked EXCEPT ![i] = @ \ {w}]
  /\ Stop(i)
  /\ reading' = [reading EXCEPT ![i] = at[i]]
  /\ UNCHANGED <<daemon, brought, latest, starting, cancelling, screen, refused, outwaited, strayed>>

(* The second callback of follow: the run as it stands, if it has ended. *)
RunRead(i) ==
  /\ reading[i] # 0 /\ reading' = [reading EXCEPT ![i] = 0]
  /\ \/ at[i] = Ended /\ End(i) /\ strayed' = (strayed \/ i # latest) /\ UNCHANGED failures
     \/ (reading[i] < Ended \/ i \in lost) /\ UNCHANGED <<screen, failures, strayed>>
     \/ failures < MaxFailures /\ failures' = failures + 1 /\ UNCHANGED <<screen, strayed>>
  /\ UNCHANGED <<daemon, follows, latest, starting, cancelling, refused, outwaited>>

-----------------------------------------------------------------------------
(* start(), as far as the daemon's answer. *)
PressStart(i) ==
  /\ ~Testing /\ cancelling = 0 /\ at[i] = 0 /\ \A j \in Tests : j < i => at[j] = Ended
  /\ shown' = 0 /\ at' = [at EXCEPT ![i] = 1] /\ starting' = i
  /\ UNCHANGED <<lost, follows, reading, latest, cancelling, following, progress, failures, refused, outwaited, strayed>>

(* A test still runs that the screen has lost sight of. *)
StartRefused ==
  /\ ~Testing /\ cancelling = 0 /\ \E j \in Tests : at[j] \in 1..Steps
  /\ shown' = 0
  /\ UNCHANGED <<daemon, follows, reading, latest, starting, cancelling, following, progress, failures, refused, outwaited, strayed>>

(* follow(): the test followed before is no longer. *)
Follow(i) ==
  LET Before(j) == j = latest IN
  /\ following' = i /\ latest' = i
  /\ es' = [j \in Tests |-> IF j = i THEN "open" ELSE IF Before(j) THEN "closed" ELSE es[j]]
  /\ quiet' = [j \in Tests |-> j = i \/ (quiet[j] /\ ~Before(j))]
  /\ stopped' = [j \in Tests |-> stopped[j] \/ Before(j)]
  /\ polling' = [j \in Tests |-> polling[j] /\ ~Before(j)]
  /\ UNCHANGED <<brought, asked>>

Started ==
  /\ starting # 0 /\ starting' = 0
  /\ Follow(starting)
  /\ UNCHANGED <<daemon, reading, cancelling, progress, shown, failures, refused, outwaited, strayed>>

PressCancel ==
  /\ Testing /\ starting = 0 /\ cancelling = 0
  /\ cancelling' = IF progress # NoProgress THEN progress.test ELSE following
  /\ Stop(latest)
  /\ UNCHANGED <<daemon, brought, asked, reading, latest, starting, screen, failures, refused, outwaited, strayed>>

(* The daemon answers a cancel with the test as it ended, or, when it has  *)
(* waited for that as long as it waits, as it stands; it has none to end;  *)
(* or the answer does not come.                                            *)
Cancelled ==
  /\ cancelling # 0 /\ cancelling' = 0
  /\ \/ EndsAt(cancelling) /\ End(cancelling) /\ UNCHANGED <<refused, outwaited>>
     \/ /\ at[cancelling] < Ended /\ End(cancelling) /\ outwaited' = outwaited \cup {cancelling}
        /\ UNCHANGED <<daemon, failures, refused>>
     \/ at[cancelling] = Ended /\ refused' = TRUE /\ UNCHANGED <<daemon, screen, failures, outwaited>>
     \/ failures < MaxFailures /\ failures' = failures + 1 /\ UNCHANGED <<daemon, screen, refused, outwaited>>
  /\ UNCHANGED <<follows, reading, latest, starting, strayed>>

Next ==
  \/ Started \/ StartRefused \/ PressCancel \/ Cancelled
  \/ \E i \in Tests : \/ RunGoesOn(i) \/ TestEnds(i) \/ PressStart(i) \/ StreamBrings(i) \/ StreamBreaks(i) \/ QuietPasses(i)
                      \/ Tick(i) \/ PollAnswered(i) \/ PollFails(i) \/ RunRead(i)

(* The test goes on; the timers and the answers of the one that is         *)
(* followed come, as do the rest or the end of a stream that has brought   *)
(* something.  One that has not may be held back for ever, and nobody has  *)
(* to press anything.                                                      *)
OfTheLatest(A(_)) == latest # 0 /\ A(latest)
GoesOn(i) == RunGoesOn(i) \/ TestEnds(i)
Brings(i) == brought[i] # 0 /\ (StreamBrings(i) \/ StreamBreaks(i))
CallsBack(i) == QuietPasses(i) \/ Brings(i) \/ Tick(i) \/ PollAnswered(i)
Fairness == WF_scrVars(OfTheLatest(GoesOn)) /\ WF_scrVars(OfTheLatest(CallsBack)) /\ WF_scrVars(Cancelled)

-----------------------------------------------------------------------------
(* Whatever callbacks come late, the progress shown is of the test last    *)
(* followed, and not of one whose end is shown; a test that was left or    *)
(* has ended is not asked about again (follow's and deliver's `stopped`).  *)
(* One read of a run that is no longer followed, which nothing stops, can  *)
(* make the screen offer a new test while the old one still reports.  A    *)
(* test is shown that has ended, or whose cancel was answered before.      *)
ProgressIsOfTheLatest ==
  /\ progress # NoProgress => (progress.test = latest \/ strayed) /\ progress.test # shown
  /\ shown # 0 => at[shown] = Ended \/ shown \in outwaited
  /\ \A i \in Tests : i # latest \/ shown = i => ~polling[i] /\ ~quiet[i] /\ es[i] # "open"

(* "So the screen never sits still" (client.ts): a test that is followed   *)
(* comes to be shown as it ended, or as a cancel that waited in vain left  *)
(* it, though its stream is held back or breaks, if every request is       *)
(* answered, the end is stored and the daemon takes the user's cancel.     *)
ScreenShowsTheEnd ==
  following # 0 ~> shown # 0 \/ failures > 0 \/ refused
=============================================================================
