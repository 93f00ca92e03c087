--------------------------- MODULE ProgressStream ---------------------------
(***************************************************************************)
(* How the progress of one benchmark run reaches the clients that follow   *)
(* it: the activeRun's published progress and its subscribers' channels    *)
(* (internal/bench/harness.go: Subscribe, publish, update, broadcast,      *)
(* tick), the sampler's goroutine that ticks it, and the handler that      *)
(* reads a channel into a stream of server-sent events                     *)
(* (internal/server/bench.go: streamBench).                                *)
(*                                                                         *)
(* a.mu is modelled as a lock that the run or the sampler holds for a      *)
(* whole broadcast, one channel operation at a time, while readers take    *)
(* events from their channels without it.  An event is the number of the   *)
(* run's own publications in it, the sampler's reading it shows, and whether     *)
(* the run has finished in it; every event stands for the whole run.       *)
(***************************************************************************)
EXTENDS Naturals, Sequences

CONSTANTS Readers,      \* the open streams
          Buffer,       \* Config.ProgressBuffer
          MaxPublished, \* bound on what a run publishes before its last event
          MaxTicks      \* bound on the sampler's ticks

VARIABLES active,   \* h.active is this run
          progress, \* a.progress
          row,      \* the stored run, as the event a stream would make of it
          run,      \* where the run's goroutine is
          sampler,  \* where the sampler's goroutine is
          last,     \* Sampler.last: the number of its readings
          copy,     \* the progress the sampler saw before updating it; First outside tick
          draft,    \* the progress the run has composed and not yet published, at most one
          mu,       \* who holds a.mu across steps: "run", "sampler" or "free"
          toSend,   \* the subscribers the broadcast under way has not reached
          subs,     \* a.subs
          chan,     \* what is in each reader's channel
          closed,   \* the channels that are closed
          reader,   \* where each reader is in streamBench
          current,  \* the progress Subscribe returned; First when it has been sent
          sent,     \* the last event written to the client
          left      \* the readers whose client went away

producer == <<active, progress, row, run, sampler, last, copy, draft, mu, toSend>>
vars == <<active, progress, row, run, sampler, last, copy, draft, mu, toSend, subs, chan, closed,
          reader, current, sent, left>>

Event == [step : 0..MaxPublished + 1, tick : 0..MaxTicks, final : BOOLEAN]
First == [step |-> 0, tick |-> 0, final |-> FALSE]

-----------------------------------------------------------------------------
(* The run and its sampler.                                                *)

Init ==
  /\ active = TRUE
  /\ progress = First
  /\ row = First
  /\ run = "working"
  /\ sampler = "idle"
  /\ last = 0
  /\ copy = First
  /\ draft = << >>
  /\ mu = "free"
  /\ toSend = {}
  /\ subs = {}
  /\ chan = [r \in Readers |-> << >>]
  /\ closed = {}
  /\ reader = [r \in Readers |-> "away"]
  /\ current = [r \in Readers |-> First]
  /\ sent = [r \in Readers |-> First]
  /\ left = {}

(* progress(): before the warm-up, at every request, and once more in      *)
(* finish while the model is unloaded.  progressOf composes the event, with *)
(* the sampler's last reading, before publish takes the lock.              *)
ComposeProgress ==
  /\ run \in {"working", "finishing"} /\ mu # "run" /\ draft = << >>
  /\ progress.step < MaxPublished
  /\ draft' = << [progress EXCEPT !.step = @ + 1, !.tick = last] >>
  /\ UNCHANGED <<active, progress, row, run, sampler, last, copy, mu, toSend, subs, chan, closed, reader, current, sent, left>>

(* publish, up to the broadcast: the lock is kept until it has ended.      *)
Publish(p) ==
  /\ mu = "free"
  /\ progress' = p
  /\ mu' = "run"
  /\ toSend' = subs
  /\ draft' = << >>
  /\ UNCHANGED <<active, row, sampler, last, copy, subs, chan, closed, reader, current, sent, left>>

ShowProgress ==
  /\ draft # << >>
  /\ Publish(draft[1])
  /\ run' = run

(* execute's deferred calls: stop the sampler, wait for its goroutine.     *)
StopSampling ==
  /\ run = "working" /\ mu # "run" /\ draft = << >>
  /\ run' = "stopping"
  /\ UNCHANGED <<active, progress, row, sampler, last, copy, draft, mu, toSend, subs, chan, closed, reader, current, sent, left>>

SamplerJoined ==
  /\ run = "stopping" /\ sampler = "gone"
  /\ run' = "finishing"
  /\ UNCHANGED <<active, progress, row, sampler, last, copy, draft, mu, toSend, subs, chan, closed, reader, current, sent, left>>

(* The run as it ended.                                                    *)
End == [progress EXCEPT !.step = MaxPublished + 1, !.tick = last, !.final = TRUE]

(* finish saves the ended run before anyone is told.  A save that fails is *)
(* only logged: the row then still says running.                           *)
SaveRow ==
  /\ run = "finishing" /\ mu # "run" /\ draft = << >>
  /\ row' \in {row, End}
  /\ run' = "saved"
  /\ UNCHANGED <<active, progress, sampler, last, copy, draft, mu, toSend, subs, chan, closed, reader, current, sent, left>>

PublishEnd ==
  /\ run = "saved"
  /\ Publish(End)
  /\ run' = "published"

(* h.active is cleared once the last event is out.                         *)
ClearActive ==
  /\ run = "published" /\ mu # "run"
  /\ run' = "ended"
  /\ active' = FALSE
  /\ UNCHANGED <<progress, row, sampler, last, copy, draft, mu, toSend, subs, chan, closed, reader, current, sent, left>>

(* The sampler takes a reading, unless it has been stopped, and calls tick: *)
(* look whether the run has finished, under the lock; then, under the lock *)
(* again, put the last reading and the clock in the published progress.    *)
Sample ==
  /\ sampler = "idle" /\ run = "working" /\ mu # "sampler"
  /\ last < MaxTicks
  /\ last' = last + 1
  /\ sampler' = "sampled"
  /\ UNCHANGED <<active, progress, row, run, copy, draft, mu, toSend, subs, chan, closed, reader, current, sent, left>>

TickLooks ==
  /\ sampler = "sampled" /\ mu = "free"
  /\ sampler' = IF progress.final THEN "idle" ELSE "looked"
  /\ copy' = progress
  /\ UNCHANGED <<active, progress, row, run, last, draft, mu, toSend, subs, chan, closed, reader, current, sent, left>>

(* A bug: tick changes the copy it took under the first lock and stores it.*)
TickWritesBack ==
  /\ sampler = "looked" /\ mu = "free"
  /\ progress' = [copy EXCEPT !.tick = last]
  /\ mu' = "sampler"
  /\ toSend' = subs
  /\ sampler' = "idle" /\ copy' = First
  /\ UNCHANGED <<active, row, run, last, draft, subs, chan, closed, reader, current, sent, left>>

TickUpdates ==
  /\ sampler = "looked" /\ mu = "free"
  /\ progress' = [progress EXCEPT !.tick = last]
  /\ mu' = "sampler"
  /\ toSend' = subs
  /\ sampler' = "idle" /\ copy' = First
  /\ UNCHANGED <<active, row, run, last, draft, subs, chan, closed, reader, current, sent, left>>

SamplerStops ==
  /\ run = "stopping" /\ sampler = "idle" /\ mu # "sampler"
  /\ sampler' = "gone"
  /\ UNCHANGED <<active, progress, row, run, last, copy, draft, mu, toSend, subs, chan, closed, reader, current, sent, left>>

-----------------------------------------------------------------------------
(* broadcast, one channel operation at a time: a send that finds room, or  *)
(* taking out the oldest event of a reader that has fallen behind.  The    *)
(* last event also closes the channel.                                     *)

(* A bug: the newest event is dropped when a reader's buffer is full.    *)
DeliverOrForget(r) ==
  /\ mu # "free" /\ r \in toSend
  /\ chan' = IF Len(chan[r]) < Buffer THEN [chan EXCEPT ![r] = Append(@, progress)] ELSE chan
  /\ toSend' = toSend \ {r}
  /\ IF mu = "run" /\ run = "published"
     THEN subs' = subs \ {r} /\ closed' = closed \cup {r}
     ELSE UNCHANGED <<subs, closed>>
  /\ UNCHANGED <<active, progress, row, run, sampler, last, copy, draft, mu, reader, current, sent, left>>

Deliver(r) ==
  /\ mu # "free" /\ r \in toSend
  /\ Len(chan[r]) < Buffer
  /\ chan' = [chan EXCEPT ![r] = Append(@, progress)]
  /\ toSend' = toSend \ {r}
  /\ IF mu = "run" /\ run = "published"
     THEN subs' = subs \ {r} /\ closed' = closed \cup {r}
     ELSE UNCHANGED <<subs, closed>>
  /\ UNCHANGED <<active, progress, row, run, sampler, last, copy, draft, mu, reader, current, sent, left>>

(* A bug: broadcast waits for room.                                      *)
DropNothing(r) ==
  /\ mu # "free" /\ r \in toSend
  /\ Len(chan[r]) = Buffer
  /\ UNCHANGED vars

DropOldest(r) ==
  /\ mu # "free" /\ r \in toSend
  /\ Len(chan[r]) = Buffer
  /\ chan' = [chan EXCEPT ![r] = Tail(@)]
  /\ UNCHANGED <<active, progress, row, run, sampler, last, copy, draft, mu, toSend, subs, closed, reader, current, sent, left>>

Unlock ==
  /\ mu # "free" /\ toSend = {}
  /\ mu' = "free"
  /\ UNCHANGED <<active, progress, row, run, sampler, last, copy, draft, toSend, subs, chan, closed, reader, current, sent, left>>

-----------------------------------------------------------------------------
(* A reader: streamBench.                                                  *)

(* Subscribe, the first lock: is the run the active one?                   *)
Find(r) ==
  /\ reader[r] = "away"
  /\ reader' = [reader EXCEPT ![r] = IF active THEN "found" ELSE "ended"]
  /\ UNCHANGED <<producer, subs, chan, closed, current, sent, left>>

(* A bug: a reader is subscribed without asking whether the run has finished.*)
RegisterAnyway(r) ==
  /\ reader[r] = "found" /\ mu = "free"
  /\ current' = [current EXCEPT ![r] = progress]
  /\ subs' = subs \cup {r}
  /\ reader' = [reader EXCEPT ![r] = "opening"]
  /\ UNCHANGED <<producer, chan, closed, sent, left>>

(* Subscribe, the second lock: the run may have ended in between.          *)
Register(r) ==
  /\ reader[r] = "found" /\ mu = "free"
  /\ current' = [current EXCEPT ![r] = progress]
  /\ IF progress.final
     THEN closed' = closed \cup {r} /\ subs' = subs
     ELSE subs' = subs \cup {r} /\ closed' = closed
  /\ reader' = [reader EXCEPT ![r] = "opening"]
  /\ UNCHANGED <<producer, chan, sent, left>>

(* A run that is not in progress is one event, from the store, whatever    *)
(* status the row has; or an error, when the store cannot be read.         *)
SendStored(r) ==
  /\ reader[r] = "ended"
  /\ sent' = [sent EXCEPT ![r] = row]
  /\ reader' = [reader EXCEPT ![r] = "told"]
  /\ UNCHANGED <<producer, subs, chan, closed, current, left>>

StoreUnread(r) ==
  /\ reader[r] = "ended"
  /\ reader' = [reader EXCEPT ![r] = "refused"]
  /\ UNCHANGED <<producer, subs, chan, closed, current, sent, left>>

SendCurrent(r) ==
  /\ reader[r] = "opening"
  /\ sent' = [sent EXCEPT ![r] = current[r]]
  /\ current' = [current EXCEPT ![r] = First]
  /\ reader' = [reader EXCEPT ![r] = "following"]
  /\ UNCHANGED <<producer, subs, chan, closed, left>>

SendNext(r) ==
  /\ reader[r] = "following" /\ chan[r] # << >>
  /\ sent' = [sent EXCEPT ![r] = Head(chan[r])]
  /\ chan' = [chan EXCEPT ![r] = Tail(@)]
  /\ UNCHANGED <<producer, subs, closed, reader, current, left>>

(* A closed channel says so only once it has been read empty.              *)
StreamEnds(r) ==
  /\ reader[r] = "following" /\ chan[r] = << >> /\ r \in closed
  /\ reader' = [reader EXCEPT ![r] = "leaving"]
  /\ UNCHANGED <<producer, subs, chan, closed, current, sent, left>>

(* The client closes the page, or a write to it fails.                     *)
ClientLeaves(r) ==
  /\ reader[r] \in {"opening", "following"}
  /\ reader' = [reader EXCEPT ![r] = "leaving"]
  /\ left' = left \cup {r}
  /\ UNCHANGED <<producer, subs, chan, closed, current, sent>>

(* A bug: the channel is closed and stays subscribed.                    *)
UnsubscribeCloses(r) ==
  /\ reader[r] = "leaving" /\ mu = "free"
  /\ reader' = [reader EXCEPT ![r] = "done"]
  /\ closed' = closed \cup {r}
  /\ UNCHANGED <<producer, subs, chan, current, sent, left>>

Unsubscribe(r) ==
  /\ reader[r] = "leaving" /\ mu = "free"
  /\ reader' = [reader EXCEPT ![r] = "done"]
  /\ IF r \in subs
     THEN subs' = subs \ {r} /\ closed' = closed \cup {r}
     ELSE UNCHANGED <<subs, closed>>
  /\ UNCHANGED <<producer, chan, current, sent, left>>

-----------------------------------------------------------------------------
Broadcasting == Unlock \/ \E r \in Readers : Deliver(r) \/ DropOldest(r)
Running == ComposeProgress \/ ShowProgress \/ StopSampling \/ SamplerJoined \/ SaveRow \/ PublishEnd \/ ClearActive
Sampling == Sample \/ TickLooks \/ TickUpdates \/ SamplerStops
Reading(r) ==
  Find(r) \/ Register(r) \/ SendStored(r) \/ SendCurrent(r) \/ SendNext(r) \/ StreamEnds(r) \/ Unsubscribe(r)

Next == Broadcasting \/ Running \/ Sampling \/ \E r \in Readers : Reading(r) \/ StoreUnread(r) \/ ClientLeaves(r)

(* Go runs every goroutine that can go on, and its mutexes do not starve   *)
(* a waiter; nothing makes a client leave.                                 *)
Fairness == WF_vars(Broadcasting) /\ WF_vars(Running) /\ WF_vars(Sampling)
Spec == Init /\ [][Next]_vars /\ Fairness

(* A reader's handler goes on with its stream, its client takes what it is *)
(* sent: not part of Spec, for nothing makes a client read.                *)
KeepsReading(r) == WF_vars(Reading(r))

-----------------------------------------------------------------------------
(* Every variable holds values of its kind, and no channel more than its   *)
(* buffer (harness.go, activeRun and Subscribe).                           *)
TypeOK ==
  /\ active \in BOOLEAN
  /\ progress \in Event /\ row \in Event /\ copy \in Event
  /\ run \in {"working", "stopping", "finishing", "saved", "published", "ended"}
  /\ last \in 0..MaxTicks /\ draft \in Seq(Event) /\ Len(draft) <= 1
  /\ sampler \in {"idle", "sampled", "looked", "gone"}
  /\ mu \in {"free", "run", "sampler"}
  /\ toSend \subseteq Readers /\ subs \subseteq Readers /\ closed \subseteq Readers /\ left \subseteq Readers
  /\ chan \in [Readers -> Seq(Event)] /\ \A r \in Readers : Len(chan[r]) <= Buffer
  /\ reader \in [Readers -> {"away", "found", "opening", "following", "ended", "told", "refused",
                          "leaving", "done"}]
  /\ current \in [Readers -> Event] /\ sent \in [Readers -> Event]

(* A reader misses intermediate events, never the last: a stream that has  *)
(* ended, its client still there, has sent the run as it ended, however    *)
(* far the reader was behind and whenever it subscribed, also when the end *)
(* could not be stored (Subscribe's promise; broadcast).  A client that    *)
(* comes too late to subscribe is told the end only if it was stored: it   *)
(* comes after the save, but a save that failed leaves it a run that seems *)
(* to run on (finish, save, streamBench).                                  *)
LastEventIsSent ==
  \A r \in Readers : /\ reader[r] = "done" /\ r \notin left => sent[r].final
                     /\ reader[r] = "told" /\ row.final => sent[r].final

(* Nothing is sent on, and nothing closes, a channel that is closed: either *)
(* would panic the run's goroutine with a.mu held.  The channels a          *)
(* broadcast is to reach, and those unsubscribe would close, are open       *)
(* (broadcast, unsubscribe).                                                *)
OpenWhileSubscribed == toSend \subseteq subs /\ subs \cap closed = {}

(* A client sees the run go forward only: no event it is sent shows fewer  *)
(* steps than the one before, although the run and the sampler both        *)
(* publish and events are dropped (publish, update, tick).  The reading    *)
(* shown may go back by one: progress() composes it before the lock.       *)
SeenInOrder == [][\A r \in Readers : sent'[r].step >= sent[r].step]_sent

(* Every stream that was opened ends, if its client keeps reading: also    *)
(* one whose subscription raced the run's last event (Subscribe's check    *)
(* under a.mu), and whatever the other clients do.                         *)
OpenedStreamEnds ==
  \A r \in Readers : KeepsReading(r) => ((reader[r] = "found") ~> (reader[r] = "done"))
=============================================================================
