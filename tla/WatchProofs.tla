---------------------------- MODULE WatchProofs ----------------------------
(***************************************************************************)
(* For any catalogue, any number of repositories, faults, stops and        *)
(* changes of the settings: nothing watch_state has is shown again.        *)
(*                                                                         *)
(* A run asks what it read at its start, not the table.  The invariant is  *)
(* what makes that as good: a run holds the lock from its start to its     *)
(* end, so nobody else writes; before its loop it writes rows of           *)
(* repositories only; and what its loop writes it has done with.           *)
(***************************************************************************)
EXTENDS ModelWatch, TLAPS

Kinds ==
  /\ published \subseteq Repos
  /\ running \in Callers \cup {"free"}
  /\ pc \in [Callers -> Inside \cup {"idle"}]
  /\ popups \in [Models -> 0..2]

(* Whoever is in RunWatch holds the lock.                                  *)
Sole == \A c \in Callers : pc[c] # "idle" => running = c

(* What a run read of the table stands for it.                             *)
ReadIsTable ==
  \A c \in Callers :
    /\ pc[c] = "flagging" => noted \cap Models \subseteq existing /\ todo \subseteq Repos
    /\ pc[c] \in {"checking", "noting"} => noted \cap todo \subseteq existing /\ todo \subseteq Models
    /\ pc[c] = "noting" => at \cap todo = {}

IInv == Kinds /\ Sole /\ ReadIsTable

LEMMA InitIInv == ASSUME Init PROVE IInv
<1> QED BY DEF Init, IInv, Kinds, Sole, ReadIsTable, Inside

(* The world, the settings and the daemon's start leave every run alone.   *)
LEMMA OutsideKeeps ==
  ASSUME IInv,
         Start \/ PutMode \/ PutFails \/ (\E r \in Repos : Publish(r)) \/ (\E e \in BOOLEAN, m \in Modes : Put(e, m))
  PROVE  IInv'
<1>1. UNCHANGED <<runVars, noted, popups>> BY DEF Start, PutMode, PutFails, Publish, Put
<1>2. published' \subseteq Repos BY DEF Start, PutMode, PutFails, Publish, Put, IInv, Kinds, envVars
<1>3. UNCHANGED <<running, pc, existing, todo, at, noted, popups>> BY <1>1 DEF runVars
<1> QED BY <1>2, <1>3 DEF IInv, Kinds, Sole, ReadIsTable

LEMMA StopKeeps == ASSUME IInv, Stop PROVE IInv'
<1>1. Kinds' BY DEF Stop, IInv, Kinds
<1>2. \A c \in Callers : pc'[c] = "idle" BY DEF Stop
<1> QED BY <1>1, <1>2 DEF IInv, Sole, ReadIsTable

(* A caller's own step: it had the lock, or takes it when it is free, so   *)
(* nobody else is in a run, before or after.                               *)
LEMMA OthersAreIdle ==
  ASSUME IInv, NEW c \in Callers, running \in {c, "free"}
  PROVE  \A d \in Callers \ {c} : pc[d] = "idle"
<1> QED BY DEF IInv, Sole, Callers

(* It is then enough to look at that caller.                               *)
LEMMA OwnStepKeeps ==
  ASSUME IInv, NEW c \in Callers, NEW where \in Inside \cup {"idle"}, Goto(c, where),
         running \in {c, "free"}, running' = IF where = "idle" THEN "free" ELSE c,
         published' = published, popups' \in [Models -> 0..2],
         where = "flagging" => noted' \cap Models \subseteq existing' /\ todo' \subseteq Repos,
         where \in {"checking", "noting"} => noted' \cap todo' \subseteq existing' /\ todo' \subseteq Models,
         where = "noting" => at' \cap todo' = {}
  PROVE  IInv'
<1>1. pc' = [pc EXCEPT ![c] = where] /\ pc \in [Callers -> Inside \cup {"idle"}] BY DEF Goto, IInv, Kinds
<1>2. pc'[c] = where /\ \A d \in Callers \ {c} : pc'[d] = "idle" BY <1>1, OthersAreIdle
<1>3. Kinds' BY <1>1 DEF IInv, Kinds
<1>4. Sole' BY <1>2 DEF Sole
<1>5. ReadIsTable' BY <1>2 DEF ReadIsTable
<1> QED BY <1>3, <1>4, <1>5 DEF IInv

(* A step after which the caller is where no part of the table matters.    *)
LEMMA ToElsewhereKeeps ==
  ASSUME IInv, NEW c \in Callers, NEW where \in {"enabled", "mode", "prepare", "states", "recommend", "unlock"},
         Goto(c, where), running \in {c, "free"}, running' = c, published' = published, popups' = popups
  PROVE  IInv'
<1>1. where \in Inside \cup {"idle"} /\ where # "idle" BY DEF Inside
<1>2. popups' \in [Models -> 0..2] BY DEF IInv, Kinds
<1> QED BY <1>1, <1>2, OwnStepKeeps

LEMMA InRunHoldsLock == ASSUME IInv, NEW c \in Callers, pc[c] # "idle" PROVE running = c
<1> QED BY DEF IInv, Sole

LEMMA BeforeTheLoopKeeps ==
  ASSUME IInv, NEW c \in Callers, Begin(c) \/ ReadEnabled(c) \/ ReadMode(c) \/ Prepare(c) PROVE IInv'
<1>1. CASE Begin(c)
  <2>1. published' = published BY <1>1 DEF Begin, envVars
  <2> QED BY <1>1, <2>1, ToElsewhereKeeps DEF Begin
<1>2. CASE ReadEnabled(c)
  <2>1. running = c BY <1>2, InRunHoldsLock DEF ReadEnabled
  <2>2. published' = published /\ running' = running BY <1>2 DEF ReadEnabled, envVars
  <2> QED BY <1>2, <2>1, <2>2, ToElsewhereKeeps DEF ReadEnabled
<1>3. CASE ReadMode(c)
  <2>1. running = c BY <1>3, InRunHoldsLock DEF ReadMode
  <2>2. published' = published /\ running' = running BY <1>3 DEF ReadMode, envVars
  <2> QED BY <1>3, <2>1, <2>2, ToElsewhereKeeps DEF ReadMode
<1>4. CASE Prepare(c)
  <2>1. running = c BY <1>4, InRunHoldsLock DEF Prepare
  <2>2. published' = published /\ running' = running BY <1>4 DEF Prepare, envVars
  <2> QED BY <1>4, <2>1, <2>2, ToElsewhereKeeps DEF Prepare
<1> QED BY <1>1, <1>2, <1>3, <1>4

(* The table is read, and the maintainers' repositories are flagged.       *)
LEMMA FlaggingKeeps ==
  ASSUME IInv, NEW c \in Callers, ReadStates(c) \/ (\E k \in Keys : Flag(c, k)) \/ Recommend(c) PROVE IInv'
<1>0. running = c BY InRunHoldsLock DEF ReadStates, Flag, Recommend
<1>1. running' = c /\ published' = published /\ popups' \in [Models -> 0..2]
  BY <1>0 DEF ReadStates, Flag, Recommend, envVars, IInv, Kinds
<1>2. CASE ReadStates(c)
  <2>1. noted' \cap Models \subseteq existing' /\ todo' \subseteq Repos BY <1>2 DEF ReadStates, IInv, Kinds
  <2> QED BY <1>0, <1>1, <1>2, <2>1, OwnStepKeeps DEF ReadStates, Inside
<1>3. CASE \E k \in Keys : Flag(c, k)
  <2>1. PICK k \in Keys : Flag(c, k) BY <1>3
  <2>2. noted \cap Models \subseteq existing /\ todo \subseteq Repos BY <2>1 DEF Flag, IInv, ReadIsTable
  <2>3. noted' \cap Models \subseteq existing' /\ todo' \subseteq Repos BY <2>1, <2>2, WatchAssumption DEF Flag
  <2>4. Goto(c, "flagging") BY <2>1 DEF Flag, Goto, IInv, Kinds
  <2> QED BY <1>0, <1>1, <2>3, <2>4, OwnStepKeeps DEF Inside
<1>4. CASE Recommend(c)
  <2>1. noted \cap Models \subseteq existing BY <1>4 DEF Recommend, IInv, ReadIsTable
  <2>2. noted' \cap todo' \subseteq existing' /\ todo' \subseteq Models BY <1>4, <2>1 DEF Recommend
  <2> QED BY <1>0, <1>1, <1>4, <2>2, OwnStepKeeps DEF Recommend, Inside
<1> QED BY <1>2, <1>3, <1>4

(* The loop: what it writes it has done with.                              *)
LEMMA CheckingKeeps ==
  ASSUME IInv, NEW c \in Callers,
         (\E m \in Models : AlreadySeen(c, m) \/ Suppress(c, m) \/ Notify(c, m)) \/ Note(c) \/ Record(c)
  PROVE  IInv'
<1>0. running = c BY InRunHoldsLock DEF AlreadySeen, Suppress, Notify, Note, Record
<1>1. running' = c /\ published' = published BY <1>0 DEF AlreadySeen, Suppress, Notify, Note, Record, envVars
<1>2. noted \cap todo \subseteq existing /\ todo \subseteq Models
  BY DEF AlreadySeen, Suppress, Notify, Note, Record, IInv, ReadIsTable
<1>3. ASSUME NEW m \in Models, AlreadySeen(c, m) \/ Suppress(c, m) PROVE IInv'
  <2>1. noted' \cap todo' \subseteq existing' /\ todo' \subseteq Models BY <1>2, <1>3 DEF AlreadySeen, Suppress
  <2>2. Goto(c, "checking") BY <1>3 DEF AlreadySeen, Suppress, Goto, IInv, Kinds
  <2>3. popups' \in [Models -> 0..2] BY <1>3 DEF AlreadySeen, Suppress, IInv, Kinds
  <2> QED BY <1>0, <1>1, <2>1, <2>2, <2>3, OwnStepKeeps DEF Inside
<1>4. ASSUME NEW m \in Models, Notify(c, m) PROVE IInv'
  <2>1. noted' \cap todo' \subseteq existing' /\ todo' \subseteq Models BY <1>2, <1>4 DEF Notify
  <2>2. at' \cap todo' = {} BY <1>4 DEF Notify
  <2>3. popups' \in [Models -> 0..2]
    <3>1. [popups EXCEPT ![m] = UpTo2(@)] \in [Models -> 0..2] BY DEF IInv, Kinds, UpTo2
    <3> QED BY <1>4, <3>1 DEF Notify, IInv, Kinds
  <2> QED BY <1>0, <1>1, <1>4, <2>1, <2>2, <2>3, OwnStepKeeps DEF Notify, Inside
<1>5. CASE Note(c)
  <2>1. at \cap todo = {} BY <1>5 DEF Note, IInv, ReadIsTable
  <2>2. noted' \cap todo' \subseteq existing' /\ todo' \subseteq Models BY <1>2, <1>5, <2>1 DEF Note
  <2>3. popups' \in [Models -> 0..2] BY <1>5 DEF Note, IInv, Kinds
  <2> QED BY <1>0, <1>1, <1>5, <2>2, <2>3, OwnStepKeeps DEF Note, Inside
<1>6. CASE Record(c)
  <2>1. popups' = popups BY <1>6 DEF Record
  <2> QED BY <1>0, <1>1, <1>6, <2>1, ToElsewhereKeeps DEF Record
<1> QED BY <1>3, <1>4, <1>5, <1>6

LEMMA EndingKeeps == ASSUME IInv, NEW c \in Callers, RunFails(c) \/ Unlock(c) PROVE IInv'
<1>0. running = c BY InRunHoldsLock DEF RunFails, Unlock, Inside
<1>1. CASE RunFails(c)
  <2>1. running' = running /\ published' = published /\ popups' = popups BY <1>1 DEF RunFails, envVars
  <2> QED BY <1>0, <1>1, <2>1, ToElsewhereKeeps DEF RunFails
<1>2. CASE Unlock(c)
  <2>1. published' = published /\ popups' \in [Models -> 0..2] BY <1>2 DEF Unlock, envVars, IInv, Kinds
  <2> QED BY <1>0, <1>2, <2>1, OwnStepKeeps DEF Unlock
<1> QED BY <1>1, <1>2

LEMMA StepIInv == ASSUME IInv, [Next]_vars PROVE IInv'
<1>1. CASE Stop BY <1>1, StopKeeps
<1>2. CASE Start \/ PutMode \/ PutFails \/ (\E r \in Repos : Publish(r)) \/ (\E e \in BOOLEAN, m \in Modes : Put(e, m))
  BY <1>2, OutsideKeeps
<1>3. ASSUME NEW c \in Callers, Begin(c) \/ Running(c) PROVE IInv'
  BY <1>3, BeforeTheLoopKeeps, FlaggingKeeps, CheckingKeeps, EndingKeeps DEF Running
<1>4. CASE UNCHANGED vars
  <2>1. UNCHANGED <<published, running, pc, existing, todo, at, noted, popups>> BY <1>4 DEF vars, envVars, runVars
  <2> QED BY <2>1 DEF IInv, Kinds, Sole, ReadIsTable
<1> QED BY <1>1, <1>2, <1>3, <1>4 DEF Next

LEMMA AlwaysIInv == Spec => []IInv
<1> QED BY InitIInv, StepIInv, PTL DEF Spec

(* Only checkOne shows anything, and only of a size the run's reading of   *)
(* the table, and so the table, does not have.                             *)
LEMMA ShownIsNew ==
  ASSUME IInv, [Next]_vars, NEW m \in Models, popups'[m] # popups[m] PROVE m \notin noted
<1>1. PICK c \in Callers, k \in Models : Notify(c, k)
  BY DEF Next, Running, Begin, ReadEnabled, ReadMode, Prepare, ReadStates, Recommend, Note, Record, RunFails, Unlock,
         Flag, AlreadySeen, Suppress, Stop, Start, Publish, Put, PutMode, PutFails, vars
<1>2. k = m BY <1>1 DEF Notify, IInv, Kinds
<1>3. m \in todo /\ m \notin existing /\ pc[c] = "checking" BY <1>1, <1>2 DEF Notify
<1> QED BY <1>3 DEF IInv, ReadIsTable

(* Nobody is shown a size that watch_state already has as notified: for    *)
(* any catalogue and however runs, settings, failures and stops fall       *)
(* (RunWatch's TryLock; Run, checkOne).                                    *)
THEOREM NothingIsShownAgain == Spec => NeverShownAgain
<1>1. IInv /\ [Next]_vars => [\A m \in Models : popups'[m] # popups[m] => m \notin noted]_popups BY ShownIsNew
<1> QED BY <1>1, AlwaysIInv, PTL DEF Spec, NeverShownAgain
=============================================================================
