------------------------------ MODULE JobProofs ------------------------------
(***************************************************************************)
(* What the loop that frees a model's memory and the status of a download  *)
(* guarantee for every value of their constants.                           *)
(***************************************************************************)
EXTENDS MCJobs, Sequences, TLAPS

(* The kinds of the variables that the proofs need.                        *)
Kinds ==
  /\ now \in Nat /\ askedAt \in Nat /\ absent \in Nat
  /\ pc \in {"list", "listing", "unload", "check", "confirmed", "gaveUp"}
  /\ asked \in BOOLEAN /\ seen \in BOOLEAN /\ cut \in BOOLEAN
  /\ loaded \in BOOLEAN /\ loading \in BOOLEAN

(* A load in progress shows soon after the first request, and a reading is *)
(* a poll later than that request and than the reading before it.          *)
Lag ==
  /\ loading => ~loaded
  /\ asked /\ loading => now < askedAt + LoadLag
  /\ asked => now >= askedAt
  /\ asked /\ pc \in {"list", "listing"} => now >= askedAt + UnloadPoll
  /\ absent = 1 => asked
  /\ absent = 1 /\ pc = "check" => now >= askedAt + UnloadPoll
  /\ absent = 1 /\ pc \in {"list", "listing"} => now >= askedAt + 2 * UnloadPoll
  /\ pc = "unload" => absent = 0
  /\ pc \in {"list", "listing", "check"} => absent \in {0, 1}

(* So at the second reading no load is in progress, and what the list says *)
(* stays true.                                                             *)
Gone ==
  /\ pc = "listing" /\ absent = 1 /\ ~seen => ~loaded /\ ~loading
  /\ pc = "confirmed" => ~loaded /\ ~loading

LagInv == Kinds /\ Lag /\ Gone

(* What the two steps with a choice of cause do, whatever the cause.       *)
LEMMA ListFailsDoes ==
  ASSUME NEW d, ListFails(d)
  PROVE  /\ pc \in {"list", "listing"} /\ pc' = "check" /\ absent' = 0
         /\ Pass(d)
         /\ UNCHANGED <<before, cut, asked, askedAt, seen, loaded, loading, freeing>>
BY Zenon DEF ListFails

LEMMA SleepCutDoes ==
  ASSUME NEW d, SleepCut(d)
  PROVE  /\ pc = "check" /\ now < UnloadWait /\ pc' = "gaveUp"
         /\ Pass(d)
         /\ UNCHANGED <<before, cut, asked, askedAt, absent, seen, loaded, loading, freeing>>
BY Zenon DEF SleepCut

LEMMA LagInitially == Init => LagInv
<1> SUFFICES ASSUME Init PROVE LagInv
  OBVIOUS
<1>1. Kinds
  BY DEF Init, Kinds
<1>2. Lag
  BY UnloadAssumption DEF Init, Lag
<1>3. Gone
  BY DEF Init, Gone
<1> QED
  BY <1>1, <1>2, <1>3 DEF LagInv

LEMMA LagKept == LagInv /\ [Next]_vars => LagInv'
<1> SUFFICES ASSUME LagInv, [Next]_vars PROVE LagInv'
  OBVIOUS
<1> USE UnloadAssumption DEF LagInv, Kinds, Lag, Gone
<1>1. CASE LoadShows
  BY <1>1 DEF LoadShows
<1>2. CASE Freed
  BY <1>2 DEF Freed
<1>3. CASE CancelRun
  BY <1>3 DEF CancelRun, Returned
<1>4. CASE ListTaken
  BY <1>4 DEF ListTaken
<1>5. CASE GiveUp
  BY <1>5 DEF GiveUp
<1>6. CASE Sleep
  BY <1>6 DEF Sleep, Pass
<1>7. ASSUME NEW d \in 0..UnloadPoll, SleepCut(d)
      PROVE  LagInv'
  <2>1. /\ pc = "check" /\ now < UnloadWait /\ pc' = "gaveUp"
        /\ Pass(d)
        /\ UNCHANGED <<before, cut, asked, askedAt, absent, seen, loaded, loading, freeing>>
    BY <1>7, SleepCutDoes, Zenon
  <2> QED
    BY <2>1 DEF Pass
<1>8. ASSUME NEW d \in 0..CallMax, ListAnswered(d)
      PROVE  LagInv'
  BY <1>8 DEF ListAnswered, Pass
<1>9. ASSUME NEW d \in 0..CallMax, ListFails(d)
      PROVE  LagInv'
  <2>1. /\ pc \in {"list", "listing"} /\ pc' = "check" /\ absent' = 0
        /\ Pass(d)
        /\ UNCHANGED <<before, cut, asked, askedAt, seen, loaded, loading, freeing>>
    BY <1>9, ListFailsDoes, Zenon
  <2> QED
    BY <2>1 DEF Pass
<1>10. ASSUME NEW d \in 0..CallMax, Ask(d)
       PROVE  LagInv'
  BY <1>10 DEF Ask
<1>11. CASE UNCHANGED vars
  BY <1>11 DEF vars
<1> QED
  BY <1>1, <1>2, <1>3, <1>4, <1>5, <1>6, <1>7, <1>8, <1>9, <1>10, <1>11 DEF Next, Loop

(* unload reports a model as unloaded only when it is not in memory and    *)
(* not about to be, for every poll, deadline and delay, provided a load    *)
(* already in progress shows within two polls of the first request.        *)
THEOREM ConfirmedNeverLies == Spec => []ConfirmedIsUnloaded
<1>1. LagInv => ConfirmedIsUnloaded
  BY DEF LagInv, Gone, ConfirmedIsUnloaded
<1> QED
  BY <1>1, LagInitially, LagKept, PTL DEF Spec

-----------------------------------------------------------------------------
(* How late each point of an iteration can be: it began before the loop's  *)
(* deadline, or was the first.                                             *)
Clock ==
  /\ now \in Nat /\ before \in BOOLEAN /\ (~before => ~cut)
  /\ pc \in {"list", "listing", "unload", "check", "confirmed", "gaveUp"}
  /\ pc \in {"list", "listing"} => now < UnloadWait + UnloadPoll
  /\ pc = "unload" => now < UnloadWait + UnloadPoll + CallMax
  /\ now < UnloadWait + UnloadPoll + 2 * CallMax

LEMMA ClockKept ==
  ASSUME Clock, [Next]_vars
  PROVE  Clock'
<1> USE UnloadAssumption DEF Clock
<1>1. CASE LoadShows \/ Freed \/ ListTaken \/ GiveUp \/ UNCHANGED vars
  BY <1>1 DEF LoadShows, Freed, ListTaken, GiveUp, vars, CtxEnd
<1>2. CASE CancelRun
  BY <1>2 DEF CancelRun
<1>3. CASE Sleep
  BY <1>3 DEF Sleep, Pass
<1>4. ASSUME NEW d \in 0..UnloadPoll, SleepCut(d)
      PROVE  Clock'
  <2>1. /\ pc = "check" /\ now < UnloadWait /\ pc' = "gaveUp"
        /\ Pass(d)
        /\ UNCHANGED <<before, cut, asked, askedAt, absent, seen, loaded, loading, freeing>>
    BY <1>4, SleepCutDoes, Zenon
  <2> QED
    BY <2>1 DEF Pass
<1>5. ASSUME NEW d \in 0..CallMax, ListAnswered(d)
      PROVE  Clock'
  BY <1>5 DEF ListAnswered, Pass
<1>6. ASSUME NEW d \in 0..CallMax, ListFails(d)
      PROVE  Clock'
  <2>1. /\ pc \in {"list", "listing"} /\ pc' = "check" /\ absent' = 0
        /\ Pass(d)
        /\ UNCHANGED <<before, cut, asked, askedAt, seen, loaded, loading, freeing>>
    BY <1>6, ListFailsDoes, Zenon
  <2> QED
    BY <2>1 DEF Pass
<1>7. ASSUME NEW d \in 0..CallMax, Ask(d)
      PROVE  Clock'
  BY <1>7 DEF Ask
<1> QED
  BY <1>1, <1>2, <1>3, <1>4, <1>5, <1>6, <1>7 DEF Next, Loop

(* How long unload can take: less than a poll and one call of each kind    *)
(* past its deadline, whatever the runtime does.  That is what finish's 10 *)
(* seconds would have to cover for the run's last save to have a live      *)
(* context.                                                                *)
UnloadInBounds == now < UnloadWait + UnloadPoll + 2 * CallMax

THEOREM UnloadAlwaysInBounds == Spec => []UnloadInBounds
<1>1. Init => Clock
  BY UnloadAssumption DEF Init, Clock
<1>2. Clock /\ [Next]_vars => Clock'
  BY ClockKept
<1>3. Clock => UnloadInBounds
  BY DEF Clock, UnloadInBounds
<1> QED
  BY <1>1, <1>2, <1>3, PTL DEF Spec

-----------------------------------------------------------------------------
(* The downloads.  The status is about the pull started last, and says     *)
(* running just while that pull works; the ones before it have ended.      *)
PullKinds ==
  /\ status \in Pull!Ends \cup {"idle", "running"}
  /\ about \in 0..MaxPulls
  /\ phase \in [Pull!Pulls -> {"none", "pulling", "returned", "stored", "closed"}]
  /\ result \in [Pull!Pulls -> Pull!Ends \cup {"none"}]
  /\ at \in [Clients -> {"idle", "found", "waiting", "answered", "timedOut"}]
  /\ of \in [Clients -> 0..MaxPulls]
  /\ answer \in [Clients -> [status : Pull!Ends \cup {"idle", "running"}, pull : 0..MaxPulls]]

OneWorks ==
  /\ latest = about
  /\ status = "running" <=> about # 0 /\ phase[about] \in Pull!Working
  /\ about # 0 => phase[about] # "none"
  /\ about # 0 /\ phase[about] \in {"stored", "closed"} => status = result[about]
  /\ \A p \in Pull!Pulls : /\ p > about => phase[p] = "none"
                           /\ p < about => phase[p] \in {"stored", "closed"}
                           /\ phase[p] = "returned" => result[p] \in Pull!Ends

Answered ==
  \A c \in Clients :
    /\ at[c] \in {"found", "waiting"} => of[c] # 0 /\ of[c] <= about
    /\ at[c] \in {"answered", "timedOut"} => answer[c].pull >= of[c]
    /\ at[c] = "answered" => of[c] # 0 /\ phase[of[c]] = "closed"
    /\ at[c] = "answered" /\ answer[c].pull = of[c] => answer[c].status = result[of[c]]

PullInv == PullKinds /\ OneWorks /\ Answered

PullBounds == MaxPulls \in Nat

LEMMA PullStarts ==
  ASSUME PullBounds, PullInv, Pull!Start
  PROVE  PullInv'
<1>1. PullKinds'
  BY DEF PullInv, PullKinds, OneWorks, Pull!Start, Pull!Pulls, PullBounds
<1>2. OneWorks'
  BY DEF PullInv, PullKinds, OneWorks, Pull!Start, Pull!Pulls, Pull!Working, Pull!Ends, PullBounds
<1>3. Answered'
  <2>1. about \in Nat /\ about' = about + 1 /\ phase'[about'] = "pulling"
        /\ \A p \in Pull!Pulls : p # about' => phase'[p] = phase[p]
    BY DEF PullInv, PullKinds, OneWorks, Pull!Start, Pull!Pulls, PullBounds
  <2>2. UNCHANGED <<result, at, of, answer>>
    BY DEF Pull!Start
  <2>3. about' \in Pull!Pulls /\ phase[about'] = "none"
    BY <2>1 DEF PullInv, PullKinds, OneWorks, Pull!Start, Pull!Pulls, PullBounds
  <2>4. ASSUME NEW c \in Clients, at[c] = "answered"
        PROVE  of[c] \in Pull!Pulls /\ phase'[of[c]] = "closed"
    <3>1. of[c] \in Pull!Pulls /\ phase[of[c]] = "closed"
      BY <2>4 DEF PullInv, PullKinds, Answered, Pull!Pulls, PullBounds
    <3>2. of[c] # about'
      BY <2>3, <3>1
    <3> QED
      BY <2>1, <3>1, <3>2
  <2> QED
    BY <2>1, <2>2, <2>4 DEF PullInv, PullKinds, Answered, PullBounds
<1> QED
  BY <1>1, <1>2, <1>3 DEF PullInv

(* A pull that is downloading, or has returned, is the one started last.   *)
LEMMA PullIsLatest ==
  ASSUME PullBounds, PullInv, NEW p \in Pull!Pulls
  PROVE  /\ p \in Nat /\ about \in Nat /\ p \in 1..MaxPulls
         /\ (phase[p] \in Pull!Working => p = about /\ status = "running")
<1>1. p \in Nat /\ about \in Nat /\ p \in 1..MaxPulls
  BY DEF PullInv, PullKinds, Pull!Pulls, PullBounds
<1>2. phase[p] \in Pull!Working => ~(p > about) /\ ~(p < about)
  BY DEF PullInv, OneWorks, Pull!Working
<1>3. phase[p] \in Pull!Working => p = about
  BY <1>1, <1>2
<1> QED
  BY <1>1, <1>3 DEF PullInv, OneWorks

LEMMA PullWorks ==
  ASSUME PullBounds, PullInv, NEW p \in Pull!Pulls, Pull!Progress(p) \/ Pull!Ending(p)
  PROVE  PullInv'
<1>0. p \in Nat /\ about \in Nat /\ p \in 1..MaxPulls
      /\ (phase[p] \in Pull!Working => p = about)
  BY PullIsLatest
<1>1. CASE Pull!Progress(p)
  BY <1>0, <1>1 DEF PullInv, PullKinds, OneWorks, Answered, Pull!Progress, Pull!Working
<1>2. ASSUME NEW r \in Pull!Ends, Pull!PullReturns(p, r)
      PROVE  PullInv'
  BY <1>0, <1>2 DEF PullInv, PullKinds, OneWorks, Answered, Pull!PullReturns, Pull!Working
<1>3. CASE Pull!StoreEnd(p)
  BY <1>0, <1>3 DEF PullInv, PullKinds, OneWorks, Answered, Pull!StoreEnd, Pull!Working, Pull!Ends
<1>4. CASE Pull!CloseDone(p)
  BY <1>0, <1>4 DEF PullInv, PullKinds, OneWorks, Answered, Pull!CloseDone, Pull!Working
<1> QED
  BY <1>1, <1>2, <1>3, <1>4 DEF Pull!Ending

(* A cancel is answered when the pull it found is closed: the status, if   *)
(* it is still about that pull, is what it returned.                       *)
LEMMA PullCancels ==
  ASSUME PullBounds, PullInv, NEW c \in Clients, Pull!Cancelling(c)
  PROVE  PullInv'
<1>0. UNCHANGED <<status, about, latest, phase, result>>
  BY DEF Pull!Cancelling, Pull!Find, Pull!CancelCtx, Pull!Answer, Pull!WaitIsOver,
         Pull!AskAgain, Pull!pullVars
<1>1. OneWorks'
  BY <1>0 DEF PullInv, OneWorks
<1>2. CASE Pull!Find(c)
  BY <1>0, <1>1, <1>2 DEF PullInv, PullKinds, OneWorks, Answered, Pull!Find
<1>3. CASE Pull!CancelCtx(c)
  BY <1>0, <1>1, <1>3 DEF PullInv, PullKinds, Answered, Pull!CancelCtx
<1>4. CASE Pull!Answer(c)
  <2>1. of[c] = about => status = result[of[c]]
    BY <1>4 DEF PullInv, OneWorks, Answered, Pull!Answer
  <2> QED
    BY <1>0, <1>1, <1>4, <2>1 DEF PullInv, PullKinds, Answered, Pull!Answer
<1>5. CASE Pull!WaitIsOver(c)
  BY <1>0, <1>1, <1>5 DEF PullInv, PullKinds, Answered, Pull!WaitIsOver
<1>6. CASE Pull!AskAgain(c)
  BY <1>0, <1>1, <1>6 DEF PullInv, PullKinds, Answered, Pull!AskAgain
<1> QED
  BY <1>2, <1>3, <1>4, <1>5, <1>6 DEF Pull!Cancelling

LEMMA PullNext ==
  ASSUME PullBounds, PullInv, [Pull!Next]_(Pull!vars)
  PROVE  PullInv'
<1>1. CASE UNCHANGED Pull!vars
  BY <1>1 DEF PullInv, PullKinds, OneWorks, Answered, Pull!vars
<1>2. CASE Pull!Next
  BY <1>2, PullStarts, PullWorks, PullCancels DEF Pull!Next
<1> QED
  BY <1>1, <1>2

LEMMA PullAlways == ASSUME PullBounds PROVE Pull!Spec => []PullInv
<1>1. Pull!Init => PullInv
  BY DEF Pull!Init, PullInv, PullKinds, OneWorks, Answered, Pull!Ends, Pull!Working, Pull!Pulls, PullBounds
<1> QED
  BY <1>1, PullNext, PTL DEF Pull!Spec

(* For any number of clients and downloads: a status that says running has *)
(* a pull that will end it, and a cancel that waited for its pull is told  *)
(* how that pull ended, or how a newer one stands, never of an older one   *)
(* (start, update, cancelRunning).                                         *)
THEOREM StatusAlwaysHasItsPull == ASSUME PullBounds PROVE Pull!Spec => []StatusHasItsPull
<1>1. PullInv => StatusHasItsPull
  BY DEF PullInv, OneWorks, Answered, StatusHasItsPull, Pull!RunningHasAPull, Pull!AnswerStands
<1> QED
  BY <1>1, PullAlways, PTL

-----------------------------------------------------------------------------
(* The installs: the same of each runtime's status.                        *)
InstallKinds ==
  /\ byName \in [Names -> Install!Ends \cup {"idle", "running"}]
  /\ instAbout \in [Names -> 0..MaxInstalls]
  /\ instPhase \in [Names -> [Install!Installs -> Install!Ends \cup {"none", "installing", "over"}]]
  /\ started = instAbout

Installing == Install!Ends \cup {"installing"}
OneInstalls ==
  \A n \in Names :
    /\ byName[n] = "running" <=> instAbout[n] # 0 /\ instPhase[n][instAbout[n]] \in Installing
    /\ instAbout[n] # 0 => instPhase[n][instAbout[n]] # "none"
    /\ \A i \in Install!Installs : /\ i > instAbout[n] => instPhase[n][i] = "none"
                                   /\ i < instAbout[n] => instPhase[n][i] = "over"

InstallInv == InstallKinds /\ OneInstalls

InstallBounds == MaxInstalls \in Nat

(* What a step of one runtime's does to its slot, the invariant kept.      *)
InstallMove(n) ==
  /\ InstallInv'
  /\ \A m \in Names \ {n} : UNCHANGED <<instAbout[m], byName[m]>>
  /\ Install!Slot(n)!Next \/ UNCHANGED <<instAbout[n], byName[n]>>

LEMMA InstallStarts ==
  ASSUME InstallBounds, InstallInv, NEW n \in Names, Install!Start(n)
  PROVE  InstallMove(n)
<1>1. InstallKinds'
  BY DEF InstallInv, InstallKinds, OneInstalls, Install!Start, Install!Installs, InstallBounds
<1>2. OneInstalls'
  BY DEF InstallInv, InstallKinds, OneInstalls, Install!Start, Install!Installs, Install!Ends, Installing, InstallBounds
<1>3. \A m \in Names \ {n} : UNCHANGED <<instAbout[m], byName[m]>>
  BY DEF InstallInv, InstallKinds, Install!Start
<1>4. Install!Slot(n)!Next
  BY DEF InstallInv, InstallKinds, Install!Start, Install!Slot!Next, Install!Slot!Start
<1> QED
  BY <1>1, <1>2, <1>3, <1>4 DEF InstallMove, InstallInv

LEMMA InstallWorks ==
  ASSUME InstallBounds, InstallInv, NEW n \in Names, NEW i \in Install!Installs,
         Install!Progress(n, i) \/ Install!Ending(n, i)
  PROVE  InstallMove(n)
<1>0. i \in Nat /\ instAbout[n] \in Nat /\ i \in 1..MaxInstalls
      /\ (instPhase[n][i] \in Installing => i = instAbout[n] /\ byName[n] = "running")
  BY DEF InstallInv, InstallKinds, OneInstalls, Install!Installs, Install!Ends, Installing, InstallBounds
<1>1. CASE Install!Progress(n, i)
  <2>1. UNCHANGED <<byName, instAbout, started, instPhase>>
    BY <1>0, <1>1 DEF InstallInv, InstallKinds, Install!Progress, Installing
  <2> QED
    BY <2>1 DEF InstallMove, InstallInv, InstallKinds, OneInstalls
<1>2. ASSUME NEW r \in Install!Ends, Install!InstallReturns(n, i, r)
      PROVE  InstallMove(n)
  <2>1. InstallKinds'
    BY <1>2 DEF InstallInv, InstallKinds, Install!InstallReturns
  <2>2. OneInstalls'
    BY <1>0, <1>2 DEF InstallInv, InstallKinds, OneInstalls, Install!InstallReturns, Installing, Install!Ends
  <2> QED
    BY <1>2, <2>1, <2>2 DEF InstallMove, InstallInv, Install!InstallReturns
<1>3. CASE Install!StoreEnd(n, i)
  <2>1. i = instAbout[n] /\ byName[n] = "running" /\ instPhase[n][i] \in Install!Ends
    BY <1>0, <1>3 DEF Install!StoreEnd, Installing
  <2>2. /\ byName' = [byName EXCEPT ![n] = instPhase[n][i]]
        /\ instAbout' = instAbout /\ started' = started
        /\ instPhase' = [instPhase EXCEPT ![n][i] = "over"]
    BY <1>3, <2>1 DEF InstallInv, InstallKinds, Install!StoreEnd
  <2>3. InstallKinds'
    BY <2>1, <2>2 DEF InstallInv, InstallKinds
  <2>4. OneInstalls'
    BY <1>0, <2>1, <2>2 DEF InstallInv, InstallKinds, OneInstalls, Installing, Install!Ends
  <2>5. \A m \in Names \ {n} : UNCHANGED <<instAbout[m], byName[m]>>
    BY <2>2 DEF InstallInv, InstallKinds
  <2>6. Install!Slot(n)!Next
    BY <2>1, <2>2 DEF InstallInv, InstallKinds, Install!Ends,
                      Install!Slot!Next, Install!Slot!End, Install!Slot!Ended
  <2> QED
    BY <2>3, <2>4, <2>5, <2>6 DEF InstallMove, InstallInv
<1> QED
  BY <1>1, <1>2, <1>3 DEF Install!Ending

LEMMA InstallNext ==
  ASSUME InstallBounds, InstallInv, [Install!Next]_(Install!vars)
  PROVE  /\ InstallInv'
         /\ \A n \in Names : Install!Slot(n)!Next \/ UNCHANGED <<instAbout[n], byName[n]>>
<1>1. CASE UNCHANGED Install!vars
  BY <1>1 DEF InstallInv, InstallKinds, OneInstalls, Install!vars
<1>2. CASE Install!Next
  <2>1. PICK n \in Names : InstallMove(n)
    BY <1>2, InstallStarts, InstallWorks DEF Install!Next
  <2> QED
    BY <2>1 DEF InstallMove
<1> QED
  BY <1>1, <1>2

(* What a step of a download does to the slot.                             *)
LEMMA PullSlot ==
  ASSUME PullBounds, PullInv, [Pull!Next]_(Pull!vars)
  PROVE  Pull!Slot!Next \/ UNCHANGED <<about, status>>
<1>1. CASE UNCHANGED Pull!vars
  BY <1>1 DEF Pull!vars
<1>2. CASE Pull!Start
  BY <1>2 DEF PullInv, OneWorks, Pull!Start, Pull!Slot!Next, Pull!Slot!Start
<1>3. ASSUME NEW p \in Pull!Pulls, Pull!Progress(p) \/ Pull!Ending(p)
      PROVE  Pull!Slot!Next \/ UNCHANGED <<about, status>>
  <2>1. phase[p] \in Pull!Working => p = about /\ status = "running"
    BY PullIsLatest
  <2>2. CASE Pull!StoreEnd(p)
    BY <2>1, <2>2 DEF PullInv, OneWorks, Pull!StoreEnd, Pull!Working, Pull!Ends,
                      Pull!Slot!Next, Pull!Slot!End, Pull!Slot!Ended
  <2>3. CASE ~Pull!StoreEnd(p)
    BY <1>3, <2>1, <2>3 DEF Pull!Progress, Pull!Ending, Pull!PullReturns, Pull!CloseDone, Pull!Working
  <2> QED
    BY <2>2, <2>3
<1>4. ASSUME NEW c \in Clients, Pull!Cancelling(c)
      PROVE  UNCHANGED <<about, status>>
  BY <1>4 DEF Pull!Cancelling, Pull!Find, Pull!CancelCtx, Pull!Answer, Pull!WaitIsOver,
              Pull!AskAgain, Pull!pullVars
<1> QED
  BY <1>1, <1>2, <1>3, <1>4 DEF Pull!Next

(* Whoever starts, polls and cancels, and however many: the status of the  *)
(* downloads implements JobSlot, and so does that of each runtime's        *)
(* installs (start and update of the two trackers).                        *)
THEOREM TrackersImplementSlots ==
  ASSUME PullBounds, InstallBounds
  PROVE  Pull!Spec /\ Install!Spec => Slots
<1>1. Pull!Init => Pull!Slot!Init
  BY DEF Pull!Init, Pull!Slot!Init
<1>2. PullInv /\ [Pull!Next]_(Pull!vars) => [Pull!Slot!Next]_<<about, status>>
  BY PullSlot
<1>3. Install!Init => InstallInv /\ \A n \in Names : Install!Slot(n)!Init
  BY DEF Install!Init, InstallInv, InstallKinds, OneInstalls, Install!Slot!Init,
         Install!Ends, Install!Installs, Installing, InstallBounds
<1>4. InstallInv /\ [Install!Next]_(Install!vars) => InstallInv'
  BY InstallNext
<1>5. InstallInv /\ [Install!Next]_(Install!vars) =>
        [\A n \in Names : Install!Slot(n)!Next \/ UNCHANGED <<instAbout[n], byName[n]>>]_<<instAbout, byName>>
  BY InstallNext
<1>6. Pull!Spec => Pull!SlotSpec
  BY <1>1, <1>2, PullAlways, PTL DEF Pull!Spec, Pull!SlotSpec, Pull!Slot!Spec
<1>7. Install!Spec => Install!SlotSpecs
  BY <1>3, <1>4, <1>5, PTL DEF Install!Spec, Install!SlotSpecs
<1> QED
  BY <1>6, <1>7, PTL DEF Slots

-----------------------------------------------------------------------------
(* The streams.  An event, for any number of steps and readings.           *)
Events == [step : Nat, tick : Nat, final : BOOLEAN]

StreamKinds ==
  /\ active \in BOOLEAN
  /\ progress \in Events /\ row \in Events
  /\ run \in {"working", "stopping", "finishing", "saved", "published", "ended"}
  /\ sampler \in {"idle", "sampled", "looked", "gone"}
  /\ mu \in {"free", "run", "sampler"}
  /\ last \in Nat
  /\ draft = << >> \/ \E e \in Events : draft = <<e>>
  /\ toSend \subseteq Readers /\ subs \subseteq Readers /\ closed \subseteq Readers
  /\ chan \in [Readers -> Seq(Events)]
  /\ reader \in [Readers -> {"away", "found", "opening", "following", "ended", "told", "refused",
                         "leaving", "done"}]
  /\ current \in [Readers -> Events] /\ sent \in [Readers -> Events]

(* Where the run is, and what it has published there: nothing final before *)
(* it is published, and nothing more by then.                              *)
Producing ==
  /\ active <=> run # "ended"
  /\ progress.final <=> run \in {"published", "ended"}
  /\ run \in {"finishing", "saved", "published", "ended"} => sampler = "gone"
  /\ sampler = "gone" => mu # "sampler"
  /\ draft # << >> => run \in {"working", "finishing"} /\ ~draft[1].final
  /\ run = "ended" => mu = "free"

Unsubscribed == {"away", "found", "ended", "told", "refused"}

(* Who is subscribed: those that a broadcast has still to reach are, and   *)
(* after the last one nobody is.                                           *)
Subscribed ==
  /\ Stream!OpenWhileSubscribed
  /\ mu = "free" => toSend = {}
  /\ run \in {"published", "ended"} => subs = toSend
  /\ \A r \in Readers :
       /\ reader[r] \in Unsubscribed => r \notin subs \cup closed /\ chan[r] = << >>
       /\ reader[r] \in {"ended", "told"} => run = "ended"

(* The last event a closed channel has still to give, or has given, is the *)
(* run as it ended.                                                        *)
LastOf(r) == IF chan[r] # << >> THEN chan[r][Len(chan[r])]
             ELSE IF reader[r] = "opening" THEN current[r] ELSE sent[r]
LastIsFinal ==
  \A r \in Readers :
    /\ r \in closed /\ reader[r] \in {"opening", "following"} => LastOf(r).final
    /\ reader[r] \in {"leaving", "done"} /\ r \notin left => sent[r].final
    /\ reader[r] = "told" /\ row.final => sent[r].final

StreamInv == StreamKinds /\ Producing /\ Subscribed /\ LastIsFinal

StreamBounds == MaxPublished \in Nat /\ Buffer \in Nat \ {0}

LEMMA EventOf ==
  ASSUME NEW e \in Events, NEW step \in Nat, NEW tick \in Nat
  PROVE  /\ [e EXCEPT !.step = step, !.tick = tick] \in Events
         /\ [e EXCEPT !.step = step, !.tick = tick].final = e.final
         /\ [e EXCEPT !.step = step, !.tick = tick, !.final = TRUE] \in Events
         /\ [e EXCEPT !.step = step, !.tick = tick, !.final = TRUE].final
<1>1. [e EXCEPT !.step = step, !.tick = tick] \in Events
  BY DEF Events
<1>2. [e EXCEPT !.step = step, !.tick = tick].final = e.final
  BY DEF Events
<1>3. [e EXCEPT !.step = step, !.tick = tick, !.final = TRUE] \in Events
  BY DEF Events
<1>4. [e EXCEPT !.step = step, !.tick = tick, !.final = TRUE].final
  BY DEF Events
<1> QED
  BY <1>1, <1>2, <1>3, <1>4

LEMMA StreamStarts == ASSUME StreamBounds PROVE Stream!Init => StreamInv
<1> SUFFICES ASSUME Stream!Init PROVE StreamInv
  OBVIOUS
<1>1. Stream!First \in Events /\ ~Stream!First.final
  BY DEF Stream!First, Events
<1>2. StreamKinds /\ Producing
  BY <1>1 DEF Stream!Init, StreamKinds, Producing
<1>3. Subscribed /\ LastIsFinal
  BY DEF Stream!Init, Subscribed, Stream!OpenWhileSubscribed, LastIsFinal
<1> QED
  BY <1>2, <1>3 DEF StreamInv

LEMMA EndIsFinal ==
  ASSUME StreamBounds, StreamInv
  PROVE  Stream!End \in Events /\ Stream!End.final
<1>1. progress \in Events /\ MaxPublished + 1 \in Nat /\ last \in Nat
  BY DEF StreamInv, StreamKinds, StreamBounds
<1> QED
  BY <1>1, EventOf DEF Stream!End

(* The run and its sampler touch no channel.                               *)
LEMMA StreamProduces ==
  ASSUME StreamBounds, StreamInv, Stream!Running \/ Stream!Sampling
  PROVE  StreamInv'
<1>0. UNCHANGED <<subs, chan, closed, reader, current, sent, left>>
  BY DEF Stream!Running, Stream!Sampling, Stream!ComposeProgress, Stream!ShowProgress, Stream!Publish,
         Stream!StopSampling, Stream!SamplerJoined, Stream!SaveRow, Stream!PublishEnd, Stream!ClearActive,
         Stream!Sample, Stream!TickLooks, Stream!TickUpdates, Stream!SamplerStops
<1>1. LastIsFinal'
  <2>1. row' = row \/ run = "finishing"
    BY DEF Stream!Running, Stream!Sampling, Stream!ComposeProgress, Stream!ShowProgress, Stream!Publish,
           Stream!StopSampling, Stream!SamplerJoined, Stream!SaveRow, Stream!PublishEnd, Stream!ClearActive,
           Stream!Sample, Stream!TickLooks, Stream!TickUpdates, Stream!SamplerStops
  <2>2. \A r \in Readers : LastOf(r)' = LastOf(r)
    BY <1>0 DEF LastOf
  <2> QED
    BY <1>0, <2>1, <2>2 DEF StreamInv, Subscribed, LastIsFinal
<1>2. CASE Stream!ComposeProgress
  <2>1. [progress EXCEPT !.step = @ + 1, !.tick = last] \in Events
        /\ [progress EXCEPT !.step = @ + 1, !.tick = last].final = progress.final
    <3>1. progress \in Events /\ progress.step + 1 \in Nat /\ last \in Nat
      BY DEF StreamInv, StreamKinds, Events
    <3>2. [progress EXCEPT !.step = @ + 1, !.tick = last] \in Events
      BY <3>1 DEF Events
    <3>3. [progress EXCEPT !.step = @ + 1, !.tick = last].final = progress.final
      BY <3>1 DEF Events
    <3> QED
      BY <3>2, <3>3
  <2>2. /\ draft' = << [progress EXCEPT !.step = @ + 1, !.tick = last] >>
        /\ run \in {"working", "finishing"} /\ ~progress.final
        /\ UNCHANGED <<active, progress, row, run, sampler, last, mu, toSend>>
    BY <1>2 DEF StreamInv, Producing, Stream!ComposeProgress
  <2> DEFINE e == [progress EXCEPT !.step = @ + 1, !.tick = last]
  <2>3. e \in Events /\ ~e.final /\ draft' = <<e>>
    BY <2>1, <2>2
  <2> HIDE DEF e
  <2>4. draft'[1] = e /\ (\E x \in Events : draft' = <<x>>)
    BY <2>3
  <2>5. StreamKinds' /\ Producing'
    BY <1>0, <2>2, <2>3, <2>4 DEF StreamInv, StreamKinds, Producing
  <2> QED
    BY <1>0, <1>1, <2>2, <2>5 DEF StreamInv, Subscribed, Stream!OpenWhileSubscribed
<1>3. CASE Stream!ShowProgress
  <2>1. draft[1] \in Events /\ ~draft[1].final /\ run \in {"working", "finishing"}
    BY <1>3 DEF StreamInv, StreamKinds, Producing, Stream!ShowProgress
  <2>2. /\ progress' = draft[1] /\ mu' = "run" /\ toSend' = subs /\ draft' = << >> /\ run' = run
        /\ UNCHANGED <<active, row, sampler, last>>
    BY <1>3 DEF Stream!ShowProgress, Stream!Publish
  <2>3. StreamKinds' /\ Producing'
    BY <1>0, <2>1, <2>2 DEF StreamInv, StreamKinds, Producing
  <2> QED
    BY <1>0, <1>1, <2>1, <2>2, <2>3 DEF StreamInv, Subscribed, Stream!OpenWhileSubscribed
<1>4. CASE Stream!PublishEnd
  <2>1. /\ run = "saved" /\ run' = "published" /\ mu' = "run" /\ toSend' = subs
        /\ progress' \in Events /\ progress'.final
        /\ draft' = << >> /\ UNCHANGED <<active, row, sampler, last>>
    BY <1>4, EndIsFinal DEF Stream!PublishEnd, Stream!Publish
  <2>2. StreamKinds' /\ Producing'
    BY <1>0, <2>1 DEF StreamInv, StreamKinds, Producing
  <2> QED
    BY <1>0, <1>1, <2>1, <2>2 DEF StreamInv, Subscribed, Stream!OpenWhileSubscribed
<1>5. CASE Stream!SaveRow
  <2>2. /\ run = "finishing" /\ run' = "saved" /\ mu # "run" /\ draft = << >>
        /\ row' \in Events
        /\ UNCHANGED <<active, progress, sampler, last, draft, mu, toSend>>
    BY <1>5, EndIsFinal DEF Stream!SaveRow, StreamInv, StreamKinds
  <2>3. StreamKinds' /\ Producing'
    BY <1>0, <2>2 DEF StreamInv, StreamKinds, Producing
  <2> QED
    BY <1>0, <1>1, <2>2, <2>3 DEF StreamInv, Subscribed, Stream!OpenWhileSubscribed
<1>6. CASE Stream!StopSampling \/ Stream!SamplerJoined \/ Stream!ClearActive
  <2>1. StreamKinds' /\ Producing'
    BY <1>0, <1>6 DEF StreamInv, StreamKinds, Producing, Stream!StopSampling, Stream!SamplerJoined, Stream!ClearActive
  <2> QED
    BY <1>0, <1>1, <1>6, <2>1 DEF StreamInv, Subscribed, Stream!OpenWhileSubscribed,
          Stream!StopSampling, Stream!SamplerJoined, Stream!ClearActive
<1>7. CASE Stream!Sample \/ Stream!TickLooks \/ Stream!SamplerStops
  <2>1. StreamKinds' /\ Producing'
    BY <1>0, <1>7 DEF StreamInv, StreamKinds, Producing, Stream!Sample, Stream!TickLooks, Stream!SamplerStops
  <2> QED
    BY <1>0, <1>1, <1>7, <2>1 DEF StreamInv, Subscribed, Stream!OpenWhileSubscribed,
          Stream!Sample, Stream!TickLooks, Stream!SamplerStops
<1>8. CASE Stream!TickUpdates
  <2>1. [progress EXCEPT !.tick = last] \in Events
        /\ [progress EXCEPT !.tick = last].final = progress.final
    BY DEF StreamInv, StreamKinds, Events
  <2>2. run \in {"working", "stopping"}
    BY <1>8 DEF StreamInv, StreamKinds, Producing, Stream!TickUpdates
  <2>3. StreamKinds' /\ Producing'
    BY <1>0, <1>8, <2>1 DEF StreamInv, StreamKinds, Producing, Stream!TickUpdates
  <2> QED
    BY <1>0, <1>1, <1>8, <2>2, <2>3 DEF StreamInv, Subscribed, Stream!OpenWhileSubscribed, Stream!TickUpdates
<1> QED
  BY <1>2, <1>3, <1>4, <1>5, <1>6, <1>7, <1>8 DEF Stream!Running, Stream!Sampling

LEMMA Appended ==
  ASSUME NEW q \in Seq(Events), NEW e \in Events
  PROVE  /\ Append(q, e) \in Seq(Events) /\ Append(q, e) # << >>
         /\ Append(q, e)[Len(Append(q, e))] = e
<1>1. Append(q, e) \in Seq(Events) /\ Len(Append(q, e)) = Len(q) + 1
  OBVIOUS
<1>2. Append(q, e)[Len(q) + 1] = e
  OBVIOUS
<1> QED
  BY <1>1, <1>2

LEMMA Taken ==
  ASSUME NEW q \in Seq(Events), q # << >>
  PROVE  /\ Tail(q) \in Seq(Events) /\ Head(q) \in Events
         /\ Tail(q) = << >> => Head(q) = q[Len(q)]
         /\ Tail(q) # << >> => Tail(q)[Len(Tail(q))] = q[Len(q)]
<1>1. /\ Tail(q) \in Seq(Events) /\ Head(q) \in Events
      /\ Len(Tail(q)) = Len(q) - 1 /\ Len(q) \in Nat /\ Len(q) > 0 /\ Head(q) = q[1]
  OBVIOUS
<1>2. \A i \in 1..(Len(q) - 1) : Tail(q)[i] = q[i + 1]
  OBVIOUS
<1>3. Tail(q) = << >> => Len(q) = 1
  BY <1>1
<1>4. Tail(q) # << >> => Len(q) - 1 \in 1..(Len(q) - 1)
  BY <1>1
<1> QED
  BY <1>1, <1>2, <1>3, <1>4

(* A broadcast sends to those who are subscribed, whose channels are open; *)
(* the last one closes each behind the event it sends.                     *)
LEMMA StreamBroadcasts ==
  ASSUME StreamBounds, StreamInv, Stream!Broadcasting
  PROVE  StreamInv'
<1>0. UNCHANGED <<active, progress, row, run, sampler, last, draft, reader, current, sent, left>>
  BY DEF Stream!Broadcasting, Stream!Unlock, Stream!Deliver, Stream!DropOldest
<1>1. CASE Stream!Unlock
  <2>1. mu' = "free" /\ toSend = {} /\ UNCHANGED <<toSend, subs, chan, closed>>
    BY <1>1 DEF Stream!Unlock
  <2>2. StreamKinds' /\ Producing'
    BY <1>0, <2>1 DEF StreamInv, StreamKinds, Producing
  <2>3. Subscribed' /\ LastIsFinal'
    BY <1>0, <2>1 DEF StreamInv, Subscribed, Stream!OpenWhileSubscribed, LastIsFinal, LastOf
  <2> QED
    BY <2>2, <2>3 DEF StreamInv
<1>2. ASSUME NEW r \in Readers, Stream!DropOldest(r)
      PROVE  StreamInv'
  <2>1. /\ r \in toSend /\ Len(chan[r]) = Buffer /\ chan' = [chan EXCEPT ![r] = Tail(@)]
        /\ UNCHANGED <<mu, toSend, subs, closed>>
    BY <1>2 DEF Stream!DropOldest
  <2>2. r \in subs /\ r \notin closed
    BY <2>1 DEF StreamInv, Subscribed, Stream!OpenWhileSubscribed
  <2>3. chan[r] \in Seq(Events) /\ chan[r] # << >>
    BY <2>1 DEF StreamInv, StreamKinds, StreamBounds
  <2>4. Tail(chan[r]) \in Seq(Events)
    BY <2>3, Taken
  <2>5. StreamKinds' /\ Producing'
    BY <1>0, <2>1, <2>4 DEF StreamInv, StreamKinds, Producing
  <2>6. Subscribed'
    BY <1>0, <2>1, <2>2 DEF StreamInv, StreamKinds, Subscribed, Stream!OpenWhileSubscribed
  <2>7. LastIsFinal'
    <3>1. \A q \in Readers : q # r => LastOf(q)' = LastOf(q)
      BY <1>0, <2>1 DEF StreamInv, StreamKinds, LastOf
    <3> QED
      BY <1>0, <2>1, <2>2, <3>1 DEF StreamInv, LastIsFinal
  <2> QED
    BY <2>5, <2>6, <2>7 DEF StreamInv
<1>3. ASSUME NEW r \in Readers, Stream!Deliver(r)
      PROVE  StreamInv'
  <2>1. /\ mu # "free" /\ r \in toSend
        /\ chan' = [chan EXCEPT ![r] = Append(@, progress)]
        /\ toSend' = toSend \ {r} /\ mu' = mu
        /\ IF mu = "run" /\ run = "published"
           THEN subs' = subs \ {r} /\ closed' = closed \cup {r}
           ELSE UNCHANGED <<subs, closed>>
    BY <1>3 DEF Stream!Deliver
  <2>2. r \in subs /\ r \notin closed
    BY <2>1 DEF StreamInv, Subscribed, Stream!OpenWhileSubscribed
  <2>3. /\ Append(chan[r], progress) \in Seq(Events) /\ Append(chan[r], progress) # << >>
        /\ Append(chan[r], progress)[Len(Append(chan[r], progress))] = progress
    BY Appended DEF StreamInv, StreamKinds
  <2>4. run \in {"published", "ended"} => mu = "run" /\ run = "published"
    BY <2>1 DEF StreamInv, StreamKinds, Producing
  <2>5. StreamKinds' /\ Producing'
    BY <1>0, <2>1, <2>3 DEF StreamInv, StreamKinds, Producing
  <2>6. Subscribed'
    BY <1>0, <2>1, <2>2, <2>4 DEF StreamInv, StreamKinds, Subscribed, Stream!OpenWhileSubscribed
  <2>7. LastIsFinal'
    <3>1. \A q \in Readers : q # r => LastOf(q)' = LastOf(q) /\ (q \in closed' <=> q \in closed)
      BY <1>0, <2>1 DEF StreamInv, StreamKinds, LastOf
    <3>2. LastOf(r)' = progress
      <4>1. chan'[r] = Append(chan[r], progress)
        BY <2>1 DEF StreamInv, StreamKinds
      <4> QED
        BY <2>3, <4>1 DEF LastOf
    <3>3. r \in closed' => progress.final
      BY <2>1, <2>2 DEF StreamInv, Producing
    <3> QED
      BY <1>0, <3>1, <3>2, <3>3 DEF StreamInv, LastIsFinal
  <2> QED
    BY <2>5, <2>6, <2>7 DEF StreamInv
<1> QED
  BY <1>1, <1>2, <1>3 DEF Stream!Broadcasting

(* What a reader's step leaves to show: the run is as it was, and every    *)
(* other reader too.                                                       *)
LEMMA OneReads ==
  ASSUME StreamInv, NEW r \in Readers, StreamKinds',
         UNCHANGED <<active, progress, row, run, sampler, last, draft, mu, toSend>>,
         Stream!OpenWhileSubscribed',
         run \in {"published", "ended"} => subs' = toSend,
         \A q \in Readers \ {r} :
           /\ q \in subs' <=> q \in subs
           /\ q \in closed' <=> q \in closed
           /\ q \in left' <=> q \in left
           /\ UNCHANGED <<reader[q], chan[q], current[q], sent[q]>>,
         reader'[r] \in Unsubscribed => r \notin subs' \cup closed' /\ chan'[r] = << >>,
         reader'[r] \in {"ended", "told"} => run = "ended",
         reader'[r] = "told" => sent'[r] = row,
         r \in closed' /\ reader'[r] \in {"opening", "following"} => LastOf(r)'.final,
         reader'[r] \in {"leaving", "done"} /\ r \notin left' => sent'[r].final
  PROVE  StreamInv'
<1>1. Producing'
  BY DEF StreamInv, Producing
<1>2. Subscribed'
  BY DEF StreamInv, Subscribed
<1>3. \A q \in Readers \ {r} : LastOf(q)' = LastOf(q)
  BY DEF LastOf
<1>4. LastIsFinal'
  BY <1>3 DEF StreamInv, LastIsFinal
<1> QED
  BY <1>1, <1>2, <1>4 DEF StreamInv

LEMMA StreamReads ==
  ASSUME StreamBounds, StreamInv, NEW r \in Readers,
         Stream!Reading(r) \/ Stream!StoreUnread(r) \/ Stream!ClientLeaves(r)
  PROVE  StreamInv'
<1> DEFINE Still == UNCHANGED <<active, progress, row, run, sampler, last, draft, mu, toSend>>
<1> USE DEF Unsubscribed
<1>1. Still
  BY DEF Stream!Reading, Stream!StoreUnread, Stream!ClientLeaves, Stream!Find, Stream!Register, Stream!SendStored, Stream!SendCurrent,
         Stream!SendNext, Stream!StreamEnds, Stream!Unsubscribe, Stream!producer
<1>2. CASE Stream!Find(r)
  <2>1. /\ reader[r] = "away" /\ UNCHANGED <<subs, chan, closed, current, sent, left>>
        /\ reader' = [reader EXCEPT ![r] = IF active THEN "found" ELSE "ended"]
    BY <1>2 DEF Stream!Find
  <2>2. StreamKinds'
    BY <1>1, <2>1 DEF StreamInv, StreamKinds
  <2>3. /\ reader'[r] \in {"found", "ended"} /\ (reader'[r] = "ended" => run = "ended")
        /\ \A q \in Readers \ {r} : reader'[q] = reader[q]
    BY <2>1 DEF StreamInv, StreamKinds, Producing
  <2> QED
    BY <1>1, <2>1, <2>2, <2>3, OneReads DEF StreamInv, Subscribed, Stream!OpenWhileSubscribed
<1>3. CASE Stream!Register(r)
  <2>1. /\ reader[r] = "found" /\ mu = "free" /\ UNCHANGED <<chan, sent, left>>
        /\ current' = [current EXCEPT ![r] = progress]
        /\ reader' = [reader EXCEPT ![r] = "opening"]
        /\ IF progress.final THEN closed' = closed \cup {r} /\ subs' = subs
           ELSE subs' = subs \cup {r} /\ closed' = closed
    BY <1>3 DEF Stream!Register
  <2>2. StreamKinds'
    BY <1>1, <2>1 DEF StreamInv, StreamKinds
  <2>3. r \notin subs \cup closed /\ chan[r] = << >> /\ toSend = {}
    BY <2>1 DEF StreamInv, Subscribed
  <2>4. /\ reader'[r] = "opening" /\ current'[r] = progress
        /\ \A q \in Readers \ {r} : reader'[q] = reader[q] /\ current'[q] = current[q]
    BY <2>1 DEF StreamInv, StreamKinds
  <2>5. Stream!OpenWhileSubscribed'
    BY <1>1, <2>1, <2>3 DEF StreamInv, Subscribed, Stream!OpenWhileSubscribed
  <2>6. run \in {"published", "ended"} => subs' = toSend
    BY <2>1 DEF StreamInv, Subscribed, Producing
  <2>7. r \in closed' => LastOf(r)'.final
    BY <2>1, <2>3, <2>4 DEF LastOf
  <2> QED
    BY <1>1, <2>1, <2>2, <2>4, <2>5, <2>6, <2>7, OneReads
<1>4. CASE Stream!SendStored(r)
  <2>1. /\ reader[r] = "ended" /\ UNCHANGED <<subs, chan, closed, current, left>>
        /\ sent' = [sent EXCEPT ![r] = row]
        /\ reader' = [reader EXCEPT ![r] = "told"]
    BY <1>4 DEF Stream!SendStored
  <2>2. StreamKinds'
    BY <1>1, <2>1 DEF StreamInv, StreamKinds
  <2>3. run = "ended"
    BY <2>1 DEF StreamInv, Subscribed
  <2>4. /\ reader'[r] = "told" /\ sent'[r] = row
        /\ \A q \in Readers \ {r} : UNCHANGED <<reader[q], current[q], sent[q]>>
    BY <2>1 DEF StreamInv, StreamKinds
  <2> QED
    BY <1>1, <2>1, <2>2, <2>3, <2>4, OneReads DEF StreamInv, Subscribed, Stream!OpenWhileSubscribed
<1>5. CASE Stream!SendCurrent(r)
  <2>1. /\ reader[r] = "opening" /\ UNCHANGED <<subs, chan, closed, left>>
        /\ sent' = [sent EXCEPT ![r] = current[r]]
        /\ current' = [current EXCEPT ![r] = Stream!First]
        /\ reader' = [reader EXCEPT ![r] = "following"]
    BY <1>5 DEF Stream!SendCurrent
  <2>2. StreamKinds'
    <3>1. Stream!First \in Events
      BY DEF Stream!First, Events
    <3> QED
      BY <1>1, <2>1, <3>1 DEF StreamInv, StreamKinds
  <2>3. /\ reader'[r] = "following" /\ sent'[r] = current[r]
        /\ \A q \in Readers \ {r} : UNCHANGED <<reader[q], sent[q], current[q]>>
    BY <2>1 DEF StreamInv, StreamKinds
  <2>4. LastOf(r)' = LastOf(r)
    BY <2>1, <2>3 DEF LastOf
  <2>5. r \in closed => LastOf(r).final
    BY <2>1 DEF StreamInv, LastIsFinal
  <2> QED
    BY <1>1, <2>1, <2>2, <2>3, <2>4, <2>5, OneReads DEF StreamInv, Subscribed, Stream!OpenWhileSubscribed
<1>6. CASE Stream!SendNext(r)
  <2>1. /\ reader[r] = "following" /\ chan[r] # << >> /\ UNCHANGED <<subs, closed, reader, current, left>>
        /\ sent' = [sent EXCEPT ![r] = Head(chan[r])]
        /\ chan' = [chan EXCEPT ![r] = Tail(@)]
    BY <1>6 DEF Stream!SendNext
  <2>2. /\ Tail(chan[r]) \in Seq(Events) /\ Head(chan[r]) \in Events
        /\ Tail(chan[r]) = << >> => Head(chan[r]) = chan[r][Len(chan[r])]
        /\ Tail(chan[r]) # << >> => Tail(chan[r])[Len(Tail(chan[r]))] = chan[r][Len(chan[r])]
    BY <2>1, Taken DEF StreamInv, StreamKinds
  <2>3. StreamKinds'
    BY <1>1, <2>1, <2>2 DEF StreamInv, StreamKinds
  <2>4. /\ sent'[r] = Head(chan[r]) /\ chan'[r] = Tail(chan[r])
        /\ \A q \in Readers \ {r} : UNCHANGED <<chan[q], sent[q]>>
    BY <2>1 DEF StreamInv, StreamKinds
  <2>5. LastOf(r)' = LastOf(r)
    BY <2>1, <2>2, <2>4 DEF LastOf
  <2>6. r \in closed => LastOf(r).final
    BY <2>1 DEF StreamInv, LastIsFinal
  <2> QED
    BY <1>1, <2>1, <2>3, <2>4, <2>5, <2>6, OneReads DEF StreamInv, Subscribed, Stream!OpenWhileSubscribed
<1>7. CASE Stream!StreamEnds(r)
  <2>1. /\ reader[r] = "following" /\ chan[r] = << >> /\ r \in closed
        /\ UNCHANGED <<subs, chan, closed, current, sent, left>>
        /\ reader' = [reader EXCEPT ![r] = "leaving"]
    BY <1>7 DEF Stream!StreamEnds
  <2>2. StreamKinds'
    BY <1>1, <2>1 DEF StreamInv, StreamKinds
  <2>3. /\ reader'[r] = "leaving" /\ \A q \in Readers \ {r} : UNCHANGED <<reader[q]>>
    BY <2>1 DEF StreamInv, StreamKinds
  <2>4. sent[r].final
    BY <2>1 DEF StreamInv, LastIsFinal, LastOf
  <2> QED
    BY <1>1, <2>1, <2>2, <2>3, <2>4, OneReads DEF StreamInv, Subscribed, Stream!OpenWhileSubscribed
<1>8. CASE Stream!ClientLeaves(r)
  <2>1. /\ UNCHANGED <<subs, chan, closed, current, sent>> /\ left' = left \cup {r}
        /\ reader' = [reader EXCEPT ![r] = "leaving"]
    BY <1>8 DEF Stream!ClientLeaves
  <2>2. StreamKinds'
    BY <1>1, <2>1 DEF StreamInv, StreamKinds
  <2>3. /\ reader'[r] = "leaving" /\ \A q \in Readers \ {r} : UNCHANGED <<reader[q]>>
    BY <2>1 DEF StreamInv, StreamKinds
  <2> QED
    BY <1>1, <2>1, <2>2, <2>3, OneReads DEF StreamInv, Subscribed, Stream!OpenWhileSubscribed
<1>9. CASE Stream!Unsubscribe(r)
  <2>1. /\ reader[r] = "leaving" /\ mu = "free" /\ UNCHANGED <<chan, current, sent, left>>
        /\ reader' = [reader EXCEPT ![r] = "done"]
        /\ IF r \in subs THEN subs' = subs \ {r} /\ closed' = closed \cup {r}
           ELSE UNCHANGED <<subs, closed>>
    BY <1>9 DEF Stream!Unsubscribe
  <2>2. StreamKinds'
    BY <1>1, <2>1 DEF StreamInv, StreamKinds
  <2>3. /\ reader'[r] = "done" /\ \A q \in Readers \ {r} : UNCHANGED <<reader[q]>>
    BY <2>1 DEF StreamInv, StreamKinds
  <2>4. r \notin left => sent[r].final
    BY <2>1 DEF StreamInv, LastIsFinal
  <2>5. toSend = {} /\ Stream!OpenWhileSubscribed'
    BY <1>1, <2>1 DEF StreamInv, Subscribed, Stream!OpenWhileSubscribed
  <2>6. run \in {"published", "ended"} => subs' = toSend
    BY <2>1, <2>5 DEF StreamInv, Subscribed
  <2>7. \A q \in Readers \ {r} : (q \in subs' <=> q \in subs) /\ (q \in closed' <=> q \in closed)
    BY <2>1
  <2> QED
    BY <1>1, <2>1, <2>2, <2>3, <2>4, <2>5, <2>6, <2>7, OneReads
<1>10. CASE Stream!StoreUnread(r)
  <2>1. /\ reader[r] = "ended" /\ UNCHANGED <<subs, chan, closed, current, sent, left>>
        /\ reader' = [reader EXCEPT ![r] = "refused"]
    BY <1>10 DEF Stream!StoreUnread
  <2>2. StreamKinds'
    BY <1>1, <2>1 DEF StreamInv, StreamKinds
  <2>3. /\ reader'[r] = "refused" /\ \A q \in Readers \ {r} : UNCHANGED <<reader[q]>>
    BY <2>1 DEF StreamInv, StreamKinds
  <2> QED
    BY <1>1, <2>1, <2>2, <2>3, OneReads DEF StreamInv, Subscribed, Stream!OpenWhileSubscribed
<1> QED
  BY <1>2, <1>3, <1>4, <1>5, <1>6, <1>7, <1>8, <1>9, <1>10 DEF Stream!Reading

LEMMA StreamNext ==
  ASSUME StreamBounds, StreamInv, [Stream!Next]_(Stream!vars)
  PROVE  StreamInv'
<1>1. CASE UNCHANGED Stream!vars
  BY <1>1 DEF StreamInv, StreamKinds, Producing, Subscribed, Stream!OpenWhileSubscribed, LastIsFinal, LastOf, Stream!vars
<1>2. CASE Stream!Next
  BY <1>2, StreamProduces, StreamBroadcasts, StreamReads DEF Stream!Next
<1> QED
  BY <1>1, <1>2

-----------------------------------------------------------------------------
(* The order of the events: what a reader was sent, what waits in its      *)
(* channel, first to last, what is published and what the run is about to  *)
(* publish never have fewer steps than what is before them.                *)
ReaderOrdered(r) ==
  /\ sent[r].step <= progress.step /\ current[r].step <= progress.step
  /\ reader[r] \in {"away", "found", "opening", "ended"} => sent[r].step = 0
  /\ \A i \in 1..Len(chan[r]) :
       /\ chan[r][i].step <= progress.step /\ sent[r].step <= chan[r][i].step
       /\ reader[r] = "opening" => current[r].step <= chan[r][i].step
       /\ \A j \in 1..i : chan[r][j].step <= chan[r][i].step
RunOrdered ==
  /\ ~progress.final => progress.step <= MaxPublished
  /\ draft # << >> => progress.step <= draft[1].step /\ draft[1].step <= MaxPublished
  /\ run # "saved" => row.step <= progress.step
  /\ run = "saved" => row.step <= MaxPublished + 1
Ordered == RunOrdered /\ \A r \in Readers : ReaderOrdered(r)

LEMMA StepOf ==
  ASSUME NEW e \in Events, NEW step \in Nat, NEW tick \in Nat
  PROVE  /\ e.step \in Nat
         /\ [e EXCEPT !.step = step, !.tick = tick].step = step
         /\ [e EXCEPT !.step = step, !.tick = tick, !.final = TRUE].step = step
         /\ [e EXCEPT !.tick = tick].step = e.step
         /\ [e EXCEPT !.tick = tick].final = e.final
<1>1. e.step \in Nat /\ [e EXCEPT !.step = step, !.tick = tick].step = step
  BY DEF Events
<1>2. [e EXCEPT !.step = step, !.tick = tick, !.final = TRUE].step = step
  BY DEF Events
<1>3. [e EXCEPT !.tick = tick].step = e.step /\ [e EXCEPT !.tick = tick].final = e.final
  BY DEF Events
<1> QED
  BY <1>1, <1>2, <1>3

LEMMA OrderStarts == Stream!Init /\ StreamBounds => Ordered
<1> SUFFICES ASSUME Stream!Init, StreamBounds PROVE Ordered
  OBVIOUS
<1>1. Stream!First.step = 0 /\ MaxPublished >= 0
  BY DEF Stream!First, StreamBounds
<1>2. RunOrdered
  BY <1>1 DEF Stream!Init, RunOrdered
<1>3. \A r \in Readers : ReaderOrdered(r)
  BY <1>1 DEF Stream!Init, ReaderOrdered
<1> QED
  BY <1>2, <1>3 DEF Ordered

LEMMA EndIsLast == ASSUME StreamBounds, StreamInv PROVE Stream!End.step = MaxPublished + 1
<1>1. progress \in Events /\ MaxPublished + 1 \in Nat /\ last \in Nat
  BY DEF StreamInv, StreamKinds, StreamBounds
<1> QED
  BY <1>1, StepOf DEF Stream!End

(* The run only ever publishes more.                                       *)
LEMMA OrderProduces ==
  ASSUME StreamBounds, StreamInv, Ordered, Stream!Running \/ Stream!Sampling
  PROVE  Ordered'
<1>0. UNCHANGED <<chan, reader, current, sent>>
  BY DEF Stream!Running, Stream!Sampling, Stream!ComposeProgress, Stream!ShowProgress, Stream!Publish,
         Stream!StopSampling, Stream!SamplerJoined, Stream!SaveRow, Stream!PublishEnd, Stream!ClearActive,
         Stream!Sample, Stream!TickLooks, Stream!TickUpdates, Stream!SamplerStops
<1>1. /\ progress \in Events /\ row \in Events /\ last \in Nat
      /\ progress.step \in Nat /\ row.step \in Nat /\ MaxPublished \in Nat
  BY DEF StreamInv, StreamKinds, StreamBounds, Events
<1>2. ASSUME RunOrdered', progress'.step >= progress.step, progress'.step \in Nat
      PROVE  Ordered'
  <2> SUFFICES ASSUME NEW r \in Readers PROVE ReaderOrdered(r)'
    BY <1>2 DEF Ordered
  <2>1. /\ sent[r].step \in Nat /\ current[r].step \in Nat /\ chan[r] \in Seq(Events)
        /\ ReaderOrdered(r)
    BY DEF StreamInv, StreamKinds, Events, Ordered
  <2>2. \A i \in 1..Len(chan[r]) : chan[r][i].step \in Nat
    <3>1. \A i \in 1..Len(chan[r]) : chan[r][i] \in Events
      BY <2>1
    <3> QED
      BY <3>1 DEF Events
  <2>3. sent[r].step <= progress'.step /\ current[r].step <= progress'.step
    BY <1>1, <1>2, <2>1 DEF ReaderOrdered
  <2>4. \A i \in 1..Len(chan[r]) : chan[r][i].step <= progress'.step
    BY <1>1, <1>2, <2>1, <2>2 DEF ReaderOrdered
  <2> QED
    BY <1>0, <2>1, <2>3, <2>4 DEF ReaderOrdered
<1>3. CASE Stream!ComposeProgress
  <2> DEFINE e == [progress EXCEPT !.step = @ + 1, !.tick = last]
  <2>1. e.step = progress.step + 1
    BY <1>1, StepOf
  <2>2. /\ draft' = <<e>> /\ progress.step < MaxPublished /\ UNCHANGED <<progress, row, run>>
    BY <1>3 DEF Stream!ComposeProgress
  <2> HIDE DEF e
  <2>3. RunOrdered'
    BY <1>1, <2>1, <2>2 DEF Ordered, RunOrdered
  <2> QED
    BY <1>1, <1>2, <2>2, <2>3
<1>4. CASE Stream!ShowProgress
  <2>1. /\ draft # << >> /\ progress' = draft[1] /\ draft' = << >> /\ UNCHANGED <<row, run>>
    BY <1>4 DEF Stream!ShowProgress, Stream!Publish
  <2>2. /\ draft[1] \in Events /\ run \in {"working", "finishing"}
        /\ progress.step <= draft[1].step /\ draft[1].step <= MaxPublished /\ row.step <= progress.step
    BY <2>1 DEF StreamInv, StreamKinds, Producing, Ordered, RunOrdered
  <2>3. RunOrdered' /\ progress'.step >= progress.step /\ progress'.step \in Nat
    BY <2>1, <2>2, <1>1 DEF RunOrdered, Events
  <2> QED
    BY <1>2, <2>3
<1>5. CASE Stream!PublishEnd
  <2>1. /\ run = "saved" /\ run' = "published" /\ progress' = Stream!End /\ draft' = << >> /\ row' = row
    BY <1>5 DEF Stream!PublishEnd, Stream!Publish
  <2>2. /\ Stream!End.step = MaxPublished + 1 /\ Stream!End.final
        /\ progress.step <= MaxPublished /\ row.step <= MaxPublished + 1
    BY <1>1, <2>1, EndIsLast, EndIsFinal DEF StreamInv, Producing, Ordered, RunOrdered
  <2>3. RunOrdered' /\ progress'.step >= progress.step /\ progress'.step \in Nat
    BY <1>1, <2>1, <2>2 DEF RunOrdered
  <2> QED
    BY <1>2, <2>3
<1>6. CASE Stream!SaveRow
  <2>1. /\ run = "finishing" /\ run' = "saved" /\ draft = << >> /\ UNCHANGED <<progress, draft>>
        /\ row' \in {row, Stream!End}
    BY <1>6 DEF Stream!SaveRow
  <2>2. progress.step <= MaxPublished
    BY <2>1 DEF StreamInv, Producing, Ordered, RunOrdered
  <2>3. row'.step <= MaxPublished + 1
    BY <1>1, <2>1, <2>2, EndIsLast DEF Ordered, RunOrdered
  <2>4. RunOrdered'
    BY <1>1, <2>1, <2>2, <2>3 DEF Ordered, RunOrdered
  <2> QED
    BY <1>1, <1>2, <2>1, <2>4
<1>7. CASE Stream!TickUpdates
  <2>1. /\ progress' = [progress EXCEPT !.tick = last] /\ sampler = "looked" /\ UNCHANGED <<row, run, draft>>
    BY <1>7 DEF Stream!TickUpdates
  <2>2. progress'.step = progress.step /\ progress'.final = progress.final
    BY <1>1, <2>1, StepOf
  <2>3. run \in {"working", "stopping"}
    BY <2>1 DEF StreamInv, StreamKinds, Producing
  <2>4. RunOrdered'
    BY <2>1, <2>2, <2>3 DEF Ordered, RunOrdered
  <2> QED
    BY <1>1, <1>2, <2>2, <2>4
<1>8. CASE Stream!StopSampling \/ Stream!SamplerJoined \/ Stream!ClearActive
           \/ Stream!Sample \/ Stream!TickLooks \/ Stream!SamplerStops
  <2>1. UNCHANGED <<progress, row, draft>>
        /\ (run' = "saved" <=> run = "saved")
    BY <1>8 DEF Stream!StopSampling, Stream!SamplerJoined, Stream!ClearActive, Stream!Sample, Stream!TickLooks,
                Stream!SamplerStops
  <2>2. RunOrdered'
    BY <2>1 DEF Ordered, RunOrdered
  <2> QED
    BY <1>1, <1>2, <2>1, <2>2
<1> QED
  BY <1>3, <1>4, <1>5, <1>6, <1>7, <1>8 DEF Stream!Running, Stream!Sampling

LEMMA TailIsLater ==
  ASSUME NEW q \in Seq(Events), Len(q) > 0
  PROVE  \A i \in 1..Len(Tail(q)) :
           /\ i + 1 \in 1..Len(q) /\ Tail(q)[i] = q[i + 1]
           /\ \A j \in 1..i : j \in 1..Len(Tail(q)) /\ j + 1 \in 1..(i + 1)
<1>1. Len(Tail(q)) = Len(q) - 1 /\ Len(q) \in Nat
  OBVIOUS
<1>2. \A i \in 1..(Len(q) - 1) : Tail(q)[i] = q[i + 1]
  OBVIOUS
<1> QED
  BY <1>1, <1>2

(* A broadcast adds what is published behind what waits, or takes the      *)
(* oldest away.                                                            *)
LEMMA OrderBroadcasts ==
  ASSUME StreamBounds, StreamInv, Ordered, Stream!Broadcasting
  PROVE  Ordered'
<1>0. UNCHANGED <<progress, row, run, draft, reader, current, sent>>
  BY DEF Stream!Broadcasting, Stream!Unlock, Stream!Deliver, Stream!DropOldest
<1>1. RunOrdered'
  BY <1>0 DEF Ordered, RunOrdered
<1>2. progress.step \in Nat /\ \A r \in Readers : /\ chan[r] \in Seq(Events) /\ ReaderOrdered(r)
                                                  /\ sent[r].step \in Nat /\ current[r].step \in Nat
  BY DEF StreamInv, StreamKinds, Ordered, Events
<1>3. ASSUME NEW r \in Readers, chan'[r] = chan[r] PROVE ReaderOrdered(r)'
  BY <1>0, <1>2, <1>3 DEF ReaderOrdered
<1>4. CASE Stream!Unlock
  <2>1. chan' = chan
    BY <1>4 DEF Stream!Unlock
  <2> QED
    BY <1>1, <1>3, <2>1 DEF Ordered
<1>5. ASSUME NEW q \in Readers, Stream!DropOldest(q) PROVE Ordered'
  <2>1. Len(chan[q]) = Buffer /\ chan' = [chan EXCEPT ![q] = Tail(@)]
    BY <1>5 DEF Stream!DropOldest
  <2>2. chan'[q] = Tail(chan[q]) /\ \A r \in Readers \ {q} : chan'[r] = chan[r]
    BY <2>1 DEF StreamInv, StreamKinds
  <2>3. ReaderOrdered(q)'
    BY <1>0, <1>2, <2>1, <2>2, TailIsLater DEF StreamBounds, ReaderOrdered
  <2> QED
    BY <1>1, <1>3, <2>2, <2>3 DEF Ordered
<1>6. ASSUME NEW q \in Readers, Stream!Deliver(q) PROVE Ordered'
  <2>1. chan' = [chan EXCEPT ![q] = Append(@, progress)]
    BY <1>6 DEF Stream!Deliver
  <2>2. chan'[q] = Append(chan[q], progress) /\ \A r \in Readers \ {q} : chan'[r] = chan[r]
    BY <2>1 DEF StreamInv, StreamKinds
  <2> DEFINE n == Len(chan[q]) + 1
  <2>3. /\ Len(chan'[q]) = n /\ n \in Nat /\ chan'[q][n] = progress
        /\ \A i \in 1..n : i # n => i \in 1..Len(chan[q]) /\ chan'[q][i] = chan[q][i]
    BY <1>2, <2>2
  <2>4. \A i \in 1..n : /\ chan'[q][i].step <= progress.step /\ sent[q].step <= chan'[q][i].step
                        /\ reader[q] = "opening" => current[q].step <= chan'[q][i].step
    BY <1>2, <2>3 DEF ReaderOrdered
  <2>5. \A i \in 1..n : \A j \in 1..i : chan'[q][j].step <= chan'[q][i].step
    <3> TAKE i \in 1..n
    <3> TAKE j \in 1..i
    <3>1. CASE i = n
      BY <2>3, <2>4, <3>1
    <3>2. CASE i # n
      <4>1. j \in 1..n /\ j # n
        BY <2>3, <3>2
      <4>2. /\ i \in 1..Len(chan[q]) /\ chan'[q][i] = chan[q][i] /\ chan'[q][j] = chan[q][j]
        BY <2>3, <3>2, <4>1
      <4> QED
        BY <1>2, <4>2 DEF ReaderOrdered
    <3> QED
      BY <3>1, <3>2
  <2> HIDE DEF n
  <2>6. ReaderOrdered(q)'
    BY <1>0, <1>2, <2>3, <2>4, <2>5 DEF ReaderOrdered
  <2> QED
    BY <1>1, <1>3, <2>2, <2>6 DEF Ordered
<1> QED
  BY <1>4, <1>5, <1>6 DEF Stream!Broadcasting

(* A reader is sent what it subscribed with, then what waits, first first. *)
LEMMA OrderReads ==
  ASSUME StreamBounds, StreamInv, Ordered, NEW q \in Readers,
         Stream!Reading(q) \/ Stream!StoreUnread(q) \/ Stream!ClientLeaves(q)
  PROVE  Ordered' /\ \A r \in Readers : sent'[r].step >= sent[r].step
<1>0. UNCHANGED <<progress, row, run, draft>>
  BY DEF Stream!Reading, Stream!StoreUnread, Stream!ClientLeaves, Stream!Find, Stream!Register, Stream!SendStored, Stream!SendCurrent,
         Stream!SendNext, Stream!StreamEnds, Stream!Unsubscribe, Stream!producer
<1>1. RunOrdered'
  BY <1>0 DEF Ordered, RunOrdered
<1>2. progress.step \in Nat /\ \A r \in Readers : /\ chan[r] \in Seq(Events) /\ ReaderOrdered(r)
                                                  /\ sent[r].step \in Nat /\ current[r].step \in Nat
  BY DEF StreamInv, StreamKinds, Ordered, Events
<1>3. ASSUME \A r \in Readers \ {q} : UNCHANGED <<reader[r], chan[r], current[r], sent[r]>>,
             ReaderOrdered(q)', sent'[q].step >= sent[q].step
      PROVE  Ordered' /\ \A r \in Readers : sent'[r].step >= sent[r].step
  <2>1. ASSUME NEW r \in Readers \ {q} PROVE ReaderOrdered(r)' /\ sent'[r].step >= sent[r].step
    <3>1. ReaderOrdered(r) /\ UNCHANGED <<reader[r], chan[r], current[r], sent[r], progress>> /\ sent[r].step \in Nat
      BY <1>0, <1>2, <1>3
    <3> QED
      BY <3>1 DEF ReaderOrdered
  <2> QED
    BY <1>1, <1>3, <2>1 DEF Ordered
<1>4. CASE Stream!Find(q) \/ Stream!StoreUnread(q) \/ Stream!StreamEnds(q) \/ Stream!ClientLeaves(q)
           \/ Stream!Unsubscribe(q)
  <2>1. /\ UNCHANGED <<chan, current, sent>>
        /\ \A r \in Readers \ {q} : reader'[r] = reader[r]
        /\ reader'[q] \in {"found", "ended"} => reader[q] = "away"
        /\ reader'[q] \in {"found", "ended", "refused", "leaving", "done"}
    BY <1>4 DEF StreamInv, StreamKinds, Stream!Find, Stream!StoreUnread, Stream!StreamEnds, Stream!ClientLeaves, Stream!Unsubscribe
  <2>2. ReaderOrdered(q)'
    BY <1>0, <1>2, <2>1 DEF ReaderOrdered
  <2> QED
    BY <1>2, <1>3, <2>1, <2>2
<1>5. CASE Stream!Register(q)
  <2>1. /\ reader[q] = "found" /\ UNCHANGED <<chan, sent>>
        /\ current' = [current EXCEPT ![q] = progress] /\ reader' = [reader EXCEPT ![q] = "opening"]
    BY <1>5 DEF Stream!Register
  <2>2. /\ current'[q] = progress /\ reader'[q] = "opening" /\ chan[q] = << >>
        /\ \A r \in Readers \ {q} : UNCHANGED <<reader[r], current[r]>>
    BY <2>1 DEF StreamInv, StreamKinds, Subscribed, Unsubscribed
  <2>3. ReaderOrdered(q)'
    BY <1>0, <1>2, <2>1, <2>2 DEF ReaderOrdered
  <2> QED
    BY <1>2, <1>3, <2>1, <2>2, <2>3
<1>6. CASE Stream!SendStored(q)
  <2>1. /\ reader[q] = "ended" /\ UNCHANGED <<chan, current>>
        /\ sent' = [sent EXCEPT ![q] = row]
        /\ reader' = [reader EXCEPT ![q] = "told"]
    BY <1>6 DEF Stream!SendStored
  <2>2. /\ sent'[q] = row /\ reader'[q] = "told" /\ chan[q] = << >>
        /\ row.step \in Nat /\ row.step <= progress.step
        /\ \A r \in Readers \ {q} : UNCHANGED <<reader[r], sent[r]>>
    BY <2>1 DEF StreamInv, StreamKinds, Subscribed, Unsubscribed, Ordered, RunOrdered, Events
  <2>3. ReaderOrdered(q)' /\ sent'[q].step >= sent[q].step
    BY <1>0, <1>2, <2>1, <2>2 DEF ReaderOrdered
  <2> QED
    BY <1>3, <2>1, <2>2, <2>3
<1>7. CASE Stream!SendCurrent(q)
  <2>1. /\ reader[q] = "opening" /\ UNCHANGED chan
        /\ current' = [current EXCEPT ![q] = Stream!First]
        /\ sent' = [sent EXCEPT ![q] = current[q]] /\ reader' = [reader EXCEPT ![q] = "following"]
    BY <1>7 DEF Stream!SendCurrent
  <2>2. /\ sent'[q] = current[q] /\ reader'[q] = "following" /\ current'[q].step = 0
        /\ \A r \in Readers \ {q} : UNCHANGED <<reader[r], sent[r], current[r]>>
    BY <2>1 DEF StreamInv, StreamKinds, Stream!First
  <2>3. ReaderOrdered(q)' /\ sent'[q].step >= sent[q].step
    BY <1>0, <1>2, <2>1, <2>2 DEF ReaderOrdered
  <2> QED
    BY <1>3, <2>1, <2>2, <2>3
<1>8. CASE Stream!SendNext(q)
  <2>1. /\ reader[q] = "following" /\ chan[q] # << >> /\ UNCHANGED <<reader, current>>
        /\ sent' = [sent EXCEPT ![q] = Head(chan[q])] /\ chan' = [chan EXCEPT ![q] = Tail(@)]
    BY <1>8 DEF Stream!SendNext
  <2>2. /\ sent'[q] = chan[q][1] /\ chan'[q] = Tail(chan[q])
        /\ \A r \in Readers \ {q} : UNCHANGED <<chan[r], sent[r]>>
    BY <1>2, <2>1 DEF StreamInv, StreamKinds
  <2>3. 1 \in 1..Len(chan[q])
    BY <1>2, <2>1
  <2>4. sent'[q].step >= sent[q].step /\ sent'[q].step <= progress.step
    BY <1>2, <2>2, <2>3 DEF ReaderOrdered
  <2>5. \A i \in 1..Len(Tail(chan[q])) :
          i + 1 \in 1..Len(chan[q]) /\ 1 \in 1..(i + 1) /\ Tail(chan[q])[i] = chan[q][i + 1]
    BY <1>2, <2>1, TailIsLater
  <2>6. chan[q] \in Seq(Events) /\ Len(chan[q]) > 0 /\ ReaderOrdered(q)
    BY <1>2, <2>1
  <2>7. \A i \in 1..Len(Tail(chan[q])) :
          /\ Tail(chan[q])[i].step <= progress.step /\ sent'[q].step <= Tail(chan[q])[i].step
          /\ \A j \in 1..i : Tail(chan[q])[j].step <= Tail(chan[q])[i].step
    BY <2>2, <2>5, <2>6, TailIsLater DEF ReaderOrdered
  <2>8. ReaderOrdered(q)'
    BY <1>0, <2>1, <2>2, <2>4, <2>6, <2>7 DEF ReaderOrdered
  <2> QED
    BY <1>3, <2>1, <2>2, <2>4, <2>8
<1> QED
  BY <1>4, <1>5, <1>6, <1>7, <1>8 DEF Stream!Reading

-----------------------------------------------------------------------------
(* The screen.                                                             *)
TestOrNone == Screen!Tests \cup {0}

ScreenKinds ==
  /\ testAt \in [Screen!Tests -> 0..Screen!Ended]
  /\ es \in [Screen!Tests -> {"none", "open", "closed"}]
  /\ quiet \in [Screen!Tests -> BOOLEAN] /\ polling \in [Screen!Tests -> BOOLEAN]
  /\ stopped \in [Screen!Tests -> BOOLEAN]
  /\ pollsAsked \in [Screen!Tests -> SUBSET Nat]
  /\ reading \in [Screen!Tests -> Nat] /\ brought \in [Screen!Tests -> Nat]
  /\ lastFollowed \in TestOrNone /\ starting \in TestOrNone /\ cancelling \in TestOrNone
  /\ following \in TestOrNone /\ shown \in TestOrNone

(* A test that is not followed has been stopped, or not been followed yet  *)
(* and has no callbacks; of a stopped one, only answers are still to come. *)
Idle(i) == es[i] = "none" /\ ~quiet[i] /\ ~polling[i] /\ pollsAsked[i] = {} /\ reading[i] = 0
Followed ==
  \A i \in Screen!Tests :
    /\ stopped[i] => ~polling[i] /\ ~quiet[i] /\ es[i] # "open"
    /\ i # lastFollowed /\ ~stopped[i] => Idle(i)
    /\ testAt[i] = 0 \/ starting = i => i # lastFollowed /\ ~stopped[i]
    /\ reading[i] # 0 => stopped[i]

(* The buttons; and the screen lets go of a test whose callbacks still     *)
(* come only when it has strayed.                                          *)
Pressed ==
  /\ starting # 0 => testAt[starting] # 0 /\ following = 0 /\ cancelling = 0
  /\ cancelling # 0 => stopped[cancelling] /\ (lastFollowed # 0 => stopped[lastFollowed])
  /\ following # 0 => following = lastFollowed
  /\ following = 0 /\ lastFollowed # 0 /\ ~stopped[lastFollowed] => strayed

Showing ==
  /\ testProgress # Screen!NoProgress =>
       /\ testProgress.test \in Screen!Tests /\ testProgress.test # shown
       /\ testProgress.test = lastFollowed \/ (strayed /\ stopped[testProgress.test])
       /\ starting # 0 => strayed
  /\ shown # 0 => (testAt[shown] = Screen!Ended \/ shown \in outwaited) /\ stopped[shown]

ScreenInv == ScreenKinds /\ Followed /\ Pressed /\ Showing

ScreenBounds == MaxTests \in Nat /\ Steps \in Nat

LEMMA ScreenStarts == ASSUME ScreenBounds PROVE Screen!Init => ScreenInv
  BY DEF Screen!Init, ScreenInv, ScreenKinds, TestOrNone, Followed, Idle, Pressed, Showing, Screen!Tests, Screen!Ended,
         ScreenBounds

LEMMA TestsAreNumbers ==
  ASSUME ScreenBounds
  PROVE  Screen!Tests \subseteq Nat \ {0} /\ Screen!Ended \in Nat \ {0} /\ 0 \notin Screen!Tests
  BY DEF Screen!Tests, Screen!Ended, ScreenBounds

(* An answer is delivered for the test that is followed, or dropped.       *)
LEMMA ScreenDelivers ==
  ASSUME ScreenBounds, ScreenInv, NEW i \in Screen!Tests, NEW v \in Nat, v <= testAt[i],
         Screen!Deliver(i, v), stopped[i] \/ i = lastFollowed,
         pollsAsked' \in [Screen!Tests -> SUBSET Nat], brought' \in [Screen!Tests -> Nat],
         \A j \in Screen!Tests \ {i} : pollsAsked'[j] = pollsAsked[j],
         UNCHANGED <<testAt, reading, lastFollowed, starting, cancelling, outwaited, strayed>>
  PROVE  ScreenInv'
<1> USE TestsAreNumbers
<1>1. CASE stopped[i]
  <2>1. UNCHANGED <<following, testProgress, shown, stopped, es, quiet, polling>>
    BY <1>1 DEF Screen!Deliver, Screen!screen, Screen!NoStop
  <2>2. Followed'
    BY <1>1, <2>1 DEF ScreenInv, Followed, Idle
  <2> QED
    BY <2>1, <2>2 DEF ScreenInv, ScreenKinds, Pressed, Showing
<1>2. CASE ~stopped[i] /\ v = Screen!Ended
  <2>1. /\ i = lastFollowed /\ testAt[i] = Screen!Ended
        /\ testProgress' = Screen!NoProgress /\ following' = 0 /\ shown' = i
        /\ stopped' = [stopped EXCEPT ![i] = TRUE] /\ es' = [es EXCEPT ![i] = "closed"]
        /\ quiet' = [quiet EXCEPT ![i] = FALSE] /\ polling' = [polling EXCEPT ![i] = FALSE]
    BY <1>2 DEF Screen!Deliver, Screen!End, Screen!Stop, ScreenInv, ScreenKinds
  <2>2. ScreenKinds'
    BY <2>1 DEF ScreenInv, ScreenKinds, TestOrNone
  <2>3. Followed'
    BY <2>1 DEF ScreenInv, ScreenKinds, Followed, Idle
  <2>4. Pressed' /\ Showing'
    BY <2>1 DEF ScreenInv, ScreenKinds, TestOrNone, Followed, Pressed, Showing
  <2> QED
    BY <2>2, <2>3, <2>4 DEF ScreenInv
<1>3. CASE ~stopped[i] /\ v # Screen!Ended
  <2>1. /\ i = lastFollowed /\ testProgress' = [test |-> i, at |-> v]
        /\ UNCHANGED <<following, shown, stopped, es, quiet, polling>>
    BY <1>3 DEF Screen!Deliver, Screen!NoStop
  <2>2. testProgress'.test = i /\ testProgress' # Screen!NoProgress
    BY <2>1 DEF Screen!NoProgress
  <2>3. ScreenKinds' /\ Pressed'
    BY <2>1 DEF ScreenInv, ScreenKinds, Pressed
  <2>4. Followed'
    BY <1>3, <2>1 DEF ScreenInv, Followed, Idle
  <2>5. i # shown /\ (starting # 0 => strayed)
    BY <1>3, <2>1 DEF ScreenInv, Pressed, Showing
  <2>6. Showing'
    BY <2>1, <2>2, <2>5 DEF ScreenInv, Showing
  <2> QED
    BY <2>3, <2>4, <2>6 DEF ScreenInv
<1> QED
  BY <1>1, <1>2, <1>3

(* A callback that is still there is of the test that is followed.         *)
LEMMA CallsAreOfTheLatest ==
  ASSUME ScreenInv, NEW i \in Screen!Tests, es[i] = "open" \/ quiet[i] \/ polling[i] \/ pollsAsked[i] # {}
  PROVE  (stopped[i] \/ i = lastFollowed) /\ (pollsAsked[i] = {} => i = lastFollowed /\ ~stopped[i])
  BY DEF ScreenInv, Followed, Idle

(* The daemon's test goes on, and what a callback does without an answer.  *)
LEMMA ScreenCallsBack ==
  ASSUME ScreenBounds, ScreenInv, NEW i \in Screen!Tests,
         \/ Screen!RunGoesOn(i) \/ Screen!TestEnds(i) \/ Screen!StreamBreaks(i) \/ Screen!QuietPasses(i) \/ Screen!Tick(i)
  PROVE  ScreenInv'
<1> USE TestsAreNumbers
<1>1. CASE Screen!RunGoesOn(i) \/ Screen!TestEnds(i)
  <2>1. /\ testAt[i] \in 1..Steps
        /\ UNCHANGED <<es, brought, quiet, polling, pollsAsked, stopped, reading, lastFollowed, starting, cancelling,
                       following, testProgress, shown, outwaited, strayed>>
    BY <1>1 DEF ScreenInv, ScreenKinds, ScreenBounds, Screen!RunGoesOn, Screen!TestEnds, Screen!follows, Screen!screen,
                Screen!Ended
  <2>5. testAt' = [testAt EXCEPT ![i] = @ + 1]
    BY <1>1 DEF ScreenInv, ScreenKinds, Screen!RunGoesOn, Screen!TestEnds, Screen!EndsAt, Screen!Ended
  <2>2. ScreenKinds'
    BY <2>1, <2>5 DEF ScreenInv, ScreenKinds, Screen!Ended, ScreenBounds
  <2>3. Followed' /\ Pressed'
    BY <2>1, <2>5 DEF ScreenInv, ScreenKinds, Followed, Idle, Pressed, TestOrNone, ScreenBounds
  <2>4. Showing'
    BY <2>1, <2>5 DEF ScreenInv, ScreenKinds, Showing, TestOrNone, Screen!Ended, ScreenBounds
  <2> QED
    BY <2>2, <2>3, <2>4 DEF ScreenInv
<1>2. CASE Screen!StreamBreaks(i) \/ Screen!QuietPasses(i) \/ Screen!Tick(i)
  <2>1. UNCHANGED <<testAt, brought, stopped, reading, lastFollowed, starting, cancelling, following, testProgress, shown,
                    outwaited, strayed>>
    BY <1>2 DEF Screen!StreamBreaks, Screen!QuietPasses, Screen!Tick, Screen!screen, Screen!daemon
  <2>2. stopped[i] \/ i = lastFollowed
    BY <1>2, CallsAreOfTheLatest DEF Screen!StreamBreaks, Screen!QuietPasses, Screen!Tick
  <2>3. /\ es' = es \/ es' = [es EXCEPT ![i] = "closed"]
        /\ quiet' = quiet \/ quiet' = [quiet EXCEPT ![i] = FALSE]
        /\ polling' = polling \/ (polling' = [polling EXCEPT ![i] = TRUE] /\ ~stopped[i])
        /\ pollsAsked' = pollsAsked \/ pollsAsked' = [pollsAsked EXCEPT ![i] = @ \cup {testAt[i]}]
    BY <1>2 DEF Screen!StreamBreaks, Screen!QuietPasses, Screen!Tick, Screen!StartPolling
  <2>4. ScreenKinds'
    <3>1. testAt[i] \in Nat
      BY DEF ScreenInv, ScreenKinds
    <3>2. pollsAsked' \in [Screen!Tests -> SUBSET Nat]
      BY <2>3, <3>1 DEF ScreenInv, ScreenKinds
    <3> QED
      BY <2>1, <2>3, <3>2 DEF ScreenInv, ScreenKinds
  <2>5. ASSUME NEW j \in Screen!Tests
        PROVE  /\ j # i => es'[j] = es[j] /\ quiet'[j] = quiet[j] /\ polling'[j] = polling[j] /\ pollsAsked'[j] = pollsAsked[j]
               /\ stopped[j] => ~polling'[j] /\ ~quiet'[j] /\ es'[j] # "open"
    BY <2>3 DEF ScreenInv, ScreenKinds, Followed
  <2>6. Followed'
    BY <2>1, <2>2, <2>5 DEF ScreenInv, Followed, Idle
  <2>7. Pressed' /\ Showing'
    BY <2>1 DEF ScreenInv, Pressed, Showing
  <2> QED
    BY <2>4, <2>6, <2>7 DEF ScreenInv
<1> QED
  BY <1>1, <1>2

(* The answers, of the stream and of a poll.                               *)
LEMMA ScreenIsAnswered ==
  ASSUME ScreenBounds, ScreenInv, NEW i \in Screen!Tests, Screen!StreamBrings(i) \/ Screen!PollAnswered(i)
  PROVE  ScreenInv'
<1> USE TestsAreNumbers
<1>0. testAt[i] \in Nat
  BY DEF ScreenInv, ScreenKinds
<1>1. CASE Screen!StreamBrings(i)
  <2>1. PICK v \in (brought[i] + 1)..testAt[i] : Screen!Deliver(i, v)
    BY <1>1 DEF Screen!StreamBrings
  <2>2. es[i] = "open" /\ UNCHANGED <<testAt, pollsAsked, reading, lastFollowed, starting, cancelling, outwaited, strayed>>
    BY <1>1 DEF Screen!StreamBrings, Screen!daemon
  <2>3. stopped[i] \/ i = lastFollowed
    BY <2>2, CallsAreOfTheLatest
  <2>4. brought[i] \in Nat
    BY DEF ScreenInv, ScreenKinds
  <2>5. v \in Nat /\ v <= testAt[i]
    BY <2>1, <2>4, <1>0
  <2>6. PICK u \in (brought[i] + 1)..testAt[i] : brought' = [brought EXCEPT ![i] = u]
    BY <1>1 DEF Screen!StreamBrings
  <2>7. u \in Nat
    BY <2>6, <2>4, <1>0
  <2>8. pollsAsked' \in [Screen!Tests -> SUBSET Nat] /\ brought' \in [Screen!Tests -> Nat]
    BY <2>2, <2>6, <2>7 DEF ScreenInv, ScreenKinds
  <2> QED
    BY <2>1, <2>2, <2>3, <2>5, <2>8, ScreenDelivers
<1>2. CASE Screen!PollAnswered(i)
  <2>1. PICK w \in pollsAsked[i] : \E v \in (IF i \in lost THEN 1 ELSE w)..testAt[i] :
          pollsAsked' = [pollsAsked EXCEPT ![i] = @ \ {w}] /\ Screen!Deliver(i, v)
    BY <1>2 DEF Screen!PollAnswered
  <2>2. w \in Nat
    BY <2>1 DEF ScreenInv, ScreenKinds
  <2>3. PICK v \in (IF i \in lost THEN 1 ELSE w)..testAt[i] : pollsAsked' = [pollsAsked EXCEPT ![i] = @ \ {w}] /\ Screen!Deliver(i, v)
    BY <2>1
  <2>4. v \in Nat /\ v <= testAt[i]
    BY <2>2, <2>3, <1>0
  <2>5. stopped[i] \/ i = lastFollowed
    BY <2>1, CallsAreOfTheLatest
  <2>6. UNCHANGED <<testAt, brought, reading, lastFollowed, starting, cancelling, outwaited, strayed>>
    BY <1>2 DEF Screen!PollAnswered, Screen!daemon
  <2>7. brought' \in [Screen!Tests -> Nat] /\ pollsAsked' \in [Screen!Tests -> SUBSET Nat] /\ \A j \in Screen!Tests \ {i} : pollsAsked'[j] = pollsAsked[j]
    BY <2>3, <2>6 DEF ScreenInv, ScreenKinds
  <2> QED
    BY <2>3, <2>4, <2>5, <2>6, <2>7, ScreenDelivers
<1> QED
  BY <1>1, <1>2

(* A poll that fails, and the run that is read after it.                   *)
LEMMA ScreenFails ==
  ASSUME ScreenBounds, ScreenInv, NEW i \in Screen!Tests, Screen!PollFails(i) \/ Screen!RunRead(i)
  PROVE  ScreenInv'
<1> USE TestsAreNumbers
<1>1. CASE Screen!PollFails(i)
  <2>1. PICK w \in pollsAsked[i] : pollsAsked' = [pollsAsked EXCEPT ![i] = @ \ {w}]
    BY <1>1 DEF Screen!PollFails
  <2>2. /\ stopped' = [stopped EXCEPT ![i] = TRUE] /\ es' = [es EXCEPT ![i] = "closed"]
        /\ quiet' = [quiet EXCEPT ![i] = FALSE] /\ polling' = [polling EXCEPT ![i] = FALSE]
        /\ reading' = [reading EXCEPT ![i] = testAt[i]]
        /\ UNCHANGED <<testAt, brought, lastFollowed, starting, cancelling, following, testProgress, shown, outwaited, strayed>>
    BY <1>1 DEF Screen!PollFails, Screen!Stop, Screen!screen, Screen!daemon
  <2>3. stopped[i] \/ i = lastFollowed
    BY <2>1, CallsAreOfTheLatest
  <2>4. ScreenKinds'
    BY <2>1, <2>2 DEF ScreenInv, ScreenKinds
  <2>5. Followed'
    BY <2>1, <2>2, <2>3 DEF ScreenInv, ScreenKinds, Followed, Idle
  <2>6. Pressed'
    BY <2>2 DEF ScreenInv, ScreenKinds, TestOrNone, Pressed
  <2>7. Showing'
    BY <2>2 DEF ScreenInv, ScreenKinds, TestOrNone, Showing
  <2> QED
    BY <2>4, <2>5, <2>6, <2>7 DEF ScreenInv
<1>2. CASE Screen!RunRead(i)
  <2>1. /\ reading[i] # 0 /\ reading' = [reading EXCEPT ![i] = 0]
        /\ UNCHANGED <<testAt, es, brought, quiet, polling, pollsAsked, stopped, lastFollowed, starting, cancelling, outwaited>>
    BY <1>2 DEF Screen!RunRead, Screen!follows, Screen!daemon
  <2>2. stopped[i] /\ (starting = 0 \/ starting # i)
    BY <2>1 DEF ScreenInv, Followed
  <2>3. \/ UNCHANGED <<following, testProgress, shown, strayed>>
        \/ /\ testAt[i] = Screen!Ended /\ strayed' = (strayed \/ i # lastFollowed)
           /\ testProgress' = Screen!NoProgress /\ following' = 0 /\ shown' = i
    BY <1>2 DEF Screen!RunRead, Screen!End, Screen!screen
  <2>4. ScreenKinds'
    BY <2>1, <2>3 DEF ScreenInv, ScreenKinds, TestOrNone
  <2>5. Followed'
    BY <2>1 DEF ScreenInv, ScreenKinds, Followed, Idle
  <2>6. Pressed'
    BY <2>1, <2>2, <2>3 DEF ScreenInv, ScreenKinds, TestOrNone, Pressed
  <2>7. Showing'
    BY <2>1, <2>2, <2>3 DEF ScreenInv, Showing
  <2> QED
    BY <2>4, <2>5, <2>6, <2>7 DEF ScreenInv
<1> QED
  BY <1>1, <1>2

(* The buttons.                                                            *)
LEMMA ScreenIsPressed ==
  ASSUME ScreenBounds, ScreenInv,
         \/ Screen!Started \/ Screen!StartRefused \/ Screen!PressCancel \/ Screen!Cancelled
         \/ \E i \in Screen!Tests : Screen!PressStart(i)
  PROVE  ScreenInv'
<1> USE TestsAreNumbers
<1>1. CASE Screen!Started
  <2>1. /\ starting # 0 /\ starting' = 0 /\ following' = starting /\ lastFollowed' = starting
        /\ es' = [j \in Screen!Tests |-> IF j = starting THEN "open" ELSE IF j = lastFollowed THEN "closed" ELSE es[j]]
        /\ quiet' = [j \in Screen!Tests |-> j = starting \/ (quiet[j] /\ ~(j = lastFollowed))]
        /\ stopped' = [j \in Screen!Tests |-> stopped[j] \/ j = lastFollowed]
        /\ polling' = [j \in Screen!Tests |-> polling[j] /\ ~(j = lastFollowed)]
        /\ UNCHANGED <<testAt, brought, pollsAsked, reading, cancelling, testProgress, shown, outwaited, strayed>>
    BY <1>1 DEF Screen!Started, Screen!Follow, Screen!daemon
  <2>2. starting \in Screen!Tests /\ starting # lastFollowed /\ ~stopped[starting] /\ testAt[starting] # 0
        /\ cancelling = 0 /\ Idle(starting)
    BY <2>1 DEF ScreenInv, ScreenKinds, TestOrNone, Followed, Pressed
  <2>3. ScreenKinds'
    BY <2>1, <2>2 DEF ScreenInv, ScreenKinds, TestOrNone
  <2>4. Followed'
    BY <2>1, <2>2 DEF ScreenInv, ScreenKinds, Followed, Idle
  <2>5. Pressed'
    BY <2>1, <2>2 DEF ScreenInv, ScreenKinds, Pressed
  <2>6. Showing'
    BY <2>1, <2>2 DEF ScreenInv, ScreenKinds, TestOrNone, Showing
  <2> QED
    BY <2>3, <2>4, <2>5, <2>6 DEF ScreenInv
<1>2. CASE Screen!StartRefused
  <2>1. /\ shown' = 0
        /\ UNCHANGED <<testAt, es, brought, quiet, polling, pollsAsked, stopped, reading, lastFollowed, starting, cancelling,
                       following, testProgress, outwaited, strayed>>
        /\ testProgress = Screen!NoProgress
    BY <1>2 DEF Screen!StartRefused, Screen!Testing, Screen!follows, Screen!daemon
  <2> QED
    BY <2>1 DEF ScreenInv, ScreenKinds, TestOrNone, Followed, Idle, Pressed, Showing
<1>3. CASE Screen!PressCancel
  <2>1. /\ cancelling' = IF testProgress # Screen!NoProgress THEN testProgress.test ELSE following
        /\ testProgress = Screen!NoProgress => following # 0
        /\ starting = 0
        /\ stopped' = [stopped EXCEPT ![lastFollowed] = TRUE] /\ es' = [es EXCEPT ![lastFollowed] = "closed"]
        /\ quiet' = [quiet EXCEPT ![lastFollowed] = FALSE] /\ polling' = [polling EXCEPT ![lastFollowed] = FALSE]
        /\ UNCHANGED <<testAt, brought, pollsAsked, reading, lastFollowed, starting, following, testProgress, shown,
                       outwaited, strayed>>
    BY <1>3 DEF Screen!PressCancel, Screen!Testing, Screen!Stop, Screen!screen, Screen!daemon
  <2>2. cancelling' \in Screen!Tests /\ (cancelling' = lastFollowed \/ stopped[cancelling'])
    BY <2>1 DEF ScreenInv, ScreenKinds, TestOrNone, Pressed, Showing
  <2>3. ScreenKinds'
    BY <2>1, <2>2 DEF ScreenInv, ScreenKinds, TestOrNone
  <2>4. Followed'
    BY <2>1 DEF ScreenInv, ScreenKinds, Followed, Idle
  <2>5. \A j \in Screen!Tests : stopped'[j] = (stopped[j] \/ j = lastFollowed)
    BY <2>1 DEF ScreenInv, ScreenKinds
  <2>6. Pressed'
    BY <2>1, <2>2, <2>5 DEF ScreenInv, ScreenKinds, TestOrNone, Pressed
  <2>7. Showing'
    BY <2>1, <2>5 DEF ScreenInv, ScreenKinds, TestOrNone, Showing
  <2> QED
    BY <2>3, <2>4, <2>6, <2>7 DEF ScreenInv
<1>4. CASE Screen!Cancelled
  <2>1. /\ cancelling # 0 /\ cancelling' = 0
        /\ UNCHANGED <<es, brought, quiet, polling, pollsAsked, stopped, reading, lastFollowed, starting, strayed>>
        /\ \/ UNCHANGED <<testAt, following, testProgress, shown, outwaited>>
           \/ /\ \/ testAt' = [testAt EXCEPT ![cancelling] = Screen!Ended] /\ outwaited' = outwaited
                 \/ testAt' = testAt /\ outwaited' = outwaited \cup {cancelling}
              /\ testProgress' = Screen!NoProgress /\ following' = 0 /\ shown' = cancelling
    BY <1>4 DEF Screen!Cancelled, Screen!EndsAt, Screen!End, Screen!follows, Screen!screen, Screen!daemon
  <2>2. cancelling \in Screen!Tests /\ stopped[cancelling] /\ starting = 0 /\ (lastFollowed # 0 => stopped[lastFollowed])
    BY <2>1 DEF ScreenInv, ScreenKinds, TestOrNone, Pressed
  <2>3. ScreenKinds'
    BY <2>1, <2>2 DEF ScreenInv, ScreenKinds, TestOrNone
  <2>4. Followed'
    BY <2>1, <2>2 DEF ScreenInv, ScreenKinds, Followed, Idle
  <2>5. Pressed'
    BY <2>1, <2>2 DEF ScreenInv, Pressed
  <2>6. Showing'
    BY <2>1, <2>2 DEF ScreenInv, ScreenKinds, TestOrNone, Showing
  <2> QED
    BY <2>3, <2>4, <2>5, <2>6 DEF ScreenInv
<1>5. CASE \E i \in Screen!Tests : Screen!PressStart(i)
  <2>1. PICK i \in Screen!Tests : Screen!PressStart(i)
    BY <1>5
  <2>2. /\ testAt[i] = 0 /\ testAt' = [testAt EXCEPT ![i] = 1] /\ shown' = 0 /\ starting' = i
        /\ testProgress = Screen!NoProgress /\ following = 0 /\ cancelling = 0
        /\ UNCHANGED <<es, brought, quiet, polling, pollsAsked, stopped, reading, lastFollowed, cancelling,
                       following, testProgress, outwaited, strayed>>
    BY <2>1 DEF Screen!PressStart, Screen!Testing, Screen!follows
  <2>3. ScreenKinds'
    BY <2>2 DEF ScreenInv, ScreenKinds, TestOrNone
  <2>4. Followed'
    BY <2>2 DEF ScreenInv, ScreenKinds, Followed, Idle
  <2>5. Pressed' /\ Showing'
    BY <2>2 DEF ScreenInv, ScreenKinds, Pressed, Showing
  <2> QED
    BY <2>3, <2>4, <2>5 DEF ScreenInv
<1> QED
  BY <1>1, <1>2, <1>3, <1>4, <1>5

LEMMA ScreenNext ==
  ASSUME ScreenBounds, ScreenInv, [Screen!Next]_(Screen!scrVars)
  PROVE  ScreenInv'
<1>1. CASE UNCHANGED Screen!scrVars
  BY <1>1 DEF Screen!scrVars, Screen!daemon, Screen!follows, Screen!screen, ScreenInv, ScreenKinds, Followed, Idle, Pressed, Showing
<1>2. CASE Screen!Next
  BY <1>2, ScreenCallsBack, ScreenIsAnswered, ScreenFails, ScreenIsPressed DEF Screen!Next
<1> QED
  BY <1>1, <1>2

(* Nothing is sent on a closed channel, a client whose stream ended was    *)
(* sent the run as it ended, and no late answer puts the progress of       *)
(* another test on the screen, or of one that has ended: for any number of *)
(* clients, events, ticks and tests, and any buffer, and any number of     *)
(* polls and failures (internal/bench/harness.go: Subscribe, broadcast,    *)
(* unsubscribe; ui/src/api/client.ts, followBench).                        *)
THEOREM StreamsAlwaysKeepTheEnd ==
  ASSUME StreamBounds, ScreenBounds
  PROVE  Stream!Spec /\ Screen!Init /\ [][Screen!Next]_(Screen!scrVars) => []StreamsKeepTheEnd
<1>1. Stream!Init => StreamInv
  BY StreamStarts
<1>2. StreamInv /\ [Stream!Next]_(Stream!vars) => StreamInv'
  BY StreamNext
<1>3. Screen!Init => ScreenInv
  BY ScreenStarts
<1>4. ScreenInv /\ [Screen!Next]_(Screen!scrVars) => ScreenInv'
  BY ScreenNext
<1>5. StreamInv => Stream!LastEventIsSent /\ Stream!OpenWhileSubscribed
  BY DEF StreamInv, Subscribed, LastIsFinal, Stream!LastEventIsSent
<1>6. ScreenInv => Screen!ProgressIsOfTheLatest
  BY TestsAreNumbers DEF ScreenInv, ScreenKinds, TestOrNone, Followed, Idle, Showing, Screen!ProgressIsOfTheLatest
<1> QED
  BY <1>1, <1>2, <1>3, <1>4, <1>5, <1>6, PTL DEF Stream!Spec, StreamsKeepTheEnd

(* No event a client is sent shows fewer steps of the run than the one     *)
(* before, however the run's publications, the sampler's and the dropping  *)
(* of events interleave: for any number of clients, events and ticks, and  *)
(* any buffer (internal/bench/harness.go: publish, update, tick,           *)
(* broadcast; internal/server/bench.go: streamBench).                      *)
THEOREM EventsAlwaysGoForward == ASSUME StreamBounds PROVE Stream!Spec => EventsGoForward
<1>1. Stream!Init => StreamInv /\ Ordered
  BY StreamStarts, OrderStarts
<1>2. ASSUME StreamInv /\ Ordered, [Stream!Next]_(Stream!vars)
      PROVE  (StreamInv /\ Ordered)' /\ [\A r \in Readers : sent'[r].step >= sent[r].step]_sent
  <2>1. StreamInv'
    BY <1>2, StreamNext
  <2>2. CASE UNCHANGED Stream!vars
    BY <1>2, <2>1, <2>2 DEF Stream!vars, Ordered, RunOrdered, ReaderOrdered
  <2>3. CASE Stream!Running \/ Stream!Sampling
    <3>1. sent' = sent
      BY <2>3 DEF Stream!Running, Stream!Sampling, Stream!ComposeProgress, Stream!ShowProgress, Stream!Publish,
         Stream!StopSampling, Stream!SamplerJoined, Stream!SaveRow, Stream!PublishEnd, Stream!ClearActive,
         Stream!Sample, Stream!TickLooks, Stream!TickUpdates, Stream!SamplerStops
    <3> QED
      BY <1>2, <2>1, <2>3, <3>1, OrderProduces
  <2>4. CASE Stream!Broadcasting
    <3>1. sent' = sent
      BY <2>4 DEF Stream!Broadcasting, Stream!Unlock, Stream!Deliver, Stream!DropOldest
    <3> QED
      BY <1>2, <2>1, <2>4, <3>1, OrderBroadcasts
  <2>5. ASSUME NEW r \in Readers, Stream!Reading(r) \/ Stream!StoreUnread(r) \/ Stream!ClientLeaves(r)
        PROVE  (StreamInv /\ Ordered)' /\ [\A q \in Readers : sent'[q].step >= sent[q].step]_sent
    BY <1>2, <2>1, <2>5, OrderReads
  <2> QED
    BY <1>2, <2>2, <2>3, <2>4, <2>5 DEF Stream!Next
<1> QED
  BY <1>1, <1>2, PTL DEF Stream!Spec, EventsGoForward, Stream!SeenInOrder
=============================================================================
