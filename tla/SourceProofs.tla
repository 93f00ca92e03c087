---------------------------- MODULE SourceProofs ----------------------------
(***************************************************************************)
(* For any parts, revisions, configurations, failures and stops: a stored  *)
(* validator never vouches for rows that are older, and a part that could  *)
(* not be read keeps its source due.                                       *)
(*                                                                         *)
(* Of a repository the rows are simply never older than its validator.     *)
(* One validator vouches for all the boards or metrics of the other two    *)
(* sources, which are stored one by one, so the invariant says of each     *)
(* part what a run has read so far, and that what a run before it left is  *)
(* only relied on under the configuration it was left by.                  *)
(*                                                                         *)
(* And for any answers: the best of each is taken, what was read last of a *)
(* part stands, the places shown are those of the values, and what the     *)
(* engine makes of them is fair.  Of the curated list, the other data that *)
(* comes in editions: whatever was stored, a valid one can be used.        *)
(***************************************************************************)
EXTENDS PublicSources, Integers, Sequences, FiniteSetTheorems, FunctionTheorems, WellFoundedInduction, TLAPS

StateOf == [etag : Nat, error : BOOLEAN, ok : BOOLEAN]

Kinds ==
  /\ src \in {"hf_evals", "arena", "epoch"}
  /\ conf \in [ver : Nat, parts : SUBSET Parts]
  /\ rev \in [Keys -> Nat]
  /\ values \in [Parts -> [rev : Nat, ver : Nat]]
  /\ state \in [Keys -> StateOf]
  /\ last \in [ok : {"never", "fresh", "stale"}, error : BOOLEAN, ver : Nat]
  /\ got \in [part : Keys, rev : Nat] /\ listed \in Nat
  /\ cond \in BOOLEAN /\ failed \in BOOLEAN

(* Where each source's run can be, and what it has still to do there.      *)
Places ==
  /\ pc \in {"idle", "repo", "list", "download", "fail_all", "zip", "files", "replace", "note", "finish"}
  /\ pc = "repo" => src = "hf_evals"
  /\ pc \in {"list", "download", "fail_all"} => src = "arena"
  /\ pc = "zip" => src = "epoch"
  /\ pc = "files" => src # "hf_evals"
  /\ pc = "note" => src # "epoch"
  /\ pc \in {"replace", "note"} => got.part \in todo
  /\ todo \subseteq conf.parts
  /\ pc \in {"list", "download", "zip"} => todo = conf.parts
  /\ pc = "finish" /\ ~failed => todo = {}
  /\ pc = "idle" => ~cond /\ todo = {}

(* Nothing is trusted of an earlier configuration.                         *)
Versions == last.ver <= conf.ver /\ (cond => last.ver = conf.ver)

(* What is being stored is not older than what its validator says.         *)
Newer ==
  /\ \A k \in Keys : state[k].etag <= rev[k]
  /\ pc = "download" => listed <= rev[File]
  /\ pc \in {"files", "replace", "note"} /\ src # "hf_evals" =>
       state[File].etag <= got.rev /\ got.rev <= rev[File] /\ (src = "arena" => listed <= got.rev)
  /\ pc \in {"replace", "note"} /\ src = "hf_evals" => state[got.part].etag <= got.rev /\ got.rev <= rev[got.part]
  /\ pc = "note" => values[got.part].rev = got.rev

(* A validator e says no more of part p than its rows hold: it is as new,  *)
(* or was unreadable, or is known to have failed.                          *)
Sound(p, e) ==
  \/ e <= values[p].rev
  \/ src = "epoch" /\ <<p, e>> \in bad
  \/ src = "arena" /\ (state[p].error \/ ~state[p].ok)

Vouched ==
  /\ src = "hf_evals" => \A p \in Parts : state[p].etag <= values[p].rev
  /\ src # "hf_evals" /\ last.ver = conf.ver => \A p \in conf.parts : Sound(p, state[File].etag)

ReadSoFar ==
  /\ src # "hf_evals" /\ pc \in {"files", "replace", "note"} => \A p \in conf.parts \ todo : Sound(p, got.rev)
  /\ pc = "fail_all" => \A p \in conf.parts \ todo : state[p].error
  /\ src # "hf_evals" /\ pc = "finish" /\ ~failed => \A p \in conf.parts : Sound(p, state[File].etag)

IInv == Kinds /\ Places /\ Versions /\ Newer /\ Vouched /\ ReadSoFar

USE DEF Keys

LEMMA InitKinds == ASSUME Init PROVE Kinds
<1>1. src \in {"hf_evals", "arena", "epoch"} BY SourcesAssumption DEF Init
<1>2. conf \in [ver : Nat, parts : SUBSET Parts] BY DEF Init
<1>3. values \in [Parts -> [rev : Nat, ver : Nat]] /\ rev \in [Keys -> Nat] BY DEF Init
<1>4. state \in [Keys -> StateOf] BY DEF Init, StateOf
<1>5. last \in [ok : {"never", "fresh", "stale"}, error : BOOLEAN, ver : Nat] BY DEF Init
<1>6. got \in [part : Keys, rev : Nat] /\ listed \in Nat BY DEF Init
<1>7. cond \in BOOLEAN /\ failed \in BOOLEAN BY DEF Init
<1> QED BY <1>1, <1>2, <1>3, <1>4, <1>5, <1>6, <1>7 DEF Kinds

LEMMA InitIInv == ASSUME Init PROVE IInv
<1>1. Kinds BY InitKinds
<1>2. pc = "idle" /\ todo = {} /\ ~cond BY DEF Init
<1>3. Places BY <1>2 DEF Places
<1>4. last.ver = 0 /\ conf.ver = 1 BY DEF Init
<1>5. \A k \in Keys : state[k].etag = 0 /\ rev[k] = 1 BY DEF Init
<1>6. \A p \in Parts : values[p].rev = 0 BY DEF Init
<1>7. Versions BY <1>2, <1>4 DEF Versions
<1>8. Newer BY <1>2, <1>5 DEF Newer
<1>9. Vouched BY <1>4, <1>5, <1>6 DEF Vouched
<1>10. ReadSoFar BY <1>2 DEF ReadSoFar
<1> QED BY <1>1, <1>3, <1>7, <1>8, <1>9, <1>10 DEF IInv

-----------------------------------------------------------------------------
(* The writes of external_state.                                           *)

LEMMA PutErrorIs ==
  ASSUME state \in [Keys -> StateOf], NEW k \in Keys, PutError(k)
  PROVE  /\ state' \in [Keys -> StateOf] /\ state'[k].error
         /\ \A j \in Keys : state'[j].etag = state[j].etag /\ state'[j].ok = state[j].ok
         /\ \A j \in Keys : state[j].error => state'[j].error
<1>1. [state[k] EXCEPT !.error = TRUE] \in StateOf BY DEF StateOf
<1>2. state' \in [Keys -> StateOf] BY <1>1 DEF PutError
<1>3. state'[k].error BY DEF PutError, StateOf
<1>4. \A j \in Keys : state'[j].etag = state[j].etag /\ state'[j].ok = state[j].ok BY DEF PutError, StateOf
<1>5. \A j \in Keys : state[j].error => state'[j].error BY DEF PutError, StateOf
<1> QED BY <1>2, <1>3, <1>4, <1>5

LEMMA PutOKIs ==
  ASSUME state \in [Keys -> StateOf], NEW k \in Keys, PutOK(k)
  PROVE  /\ state' \in [Keys -> StateOf]
         /\ \A j \in Keys : state'[j].etag = state[j].etag
         /\ \A j \in Keys \ {k} : state'[j] = state[j]
<1>1. state' \in [Keys -> StateOf] BY DEF PutOK, StateOf
<1>2. \A j \in Keys : state'[j].etag = state[j].etag BY DEF PutOK, StateOf
<1>3. \A j \in Keys \ {k} : state'[j] = state[j] BY DEF PutOK
<1> QED BY <1>1, <1>2, <1>3

LEMMA PutReadIs ==
  ASSUME state \in [Keys -> StateOf], NEW k \in Keys, NEW r \in Nat, PutRead(k, r)
  PROVE  /\ state' \in [Keys -> StateOf] /\ state'[k].etag = r
         /\ \A j \in Keys \ {k} : state'[j] = state[j]
<1>1. [etag |-> r, error |-> FALSE, ok |-> TRUE] \in StateOf BY DEF StateOf
<1>2. state' \in [Keys -> StateOf] BY <1>1 DEF PutRead
<1>3. state'[k].etag = r BY DEF PutRead
<1>4. \A j \in Keys \ {k} : state'[j] = state[j] BY DEF PutRead
<1> QED BY <1>2, <1>3, <1>4

LEMMA Kept ==
  ASSUME Kinds PROVE /\ state \in [Keys -> StateOf] /\ File \in Keys /\ got.part \in Keys /\ got.rev \in Nat
                     /\ rev \in [Keys -> Nat] /\ \A k \in Keys : state[k].etag \in Nat /\ rev[k] \in Nat
                     /\ conf.ver \in Nat /\ last.ver \in Nat /\ conf.parts \subseteq Parts
                     /\ \A p \in Parts : p \in Keys /\ p # File /\ values[p].rev \in Nat
<1>1. state \in [Keys -> StateOf] /\ rev \in [Keys -> Nat] BY DEF Kinds
<1>2. \A k \in Keys : state[k].etag \in Nat /\ rev[k] \in Nat BY <1>1 DEF StateOf
<1>3. File \in Keys /\ got.part \in Keys /\ got.rev \in Nat BY DEF Kinds
<1>4. conf.ver \in Nat /\ last.ver \in Nat /\ conf.parts \subseteq Parts BY DEF Kinds
<1>5. \A p \in Parts : p \in Keys /\ p # File /\ values[p].rev \in Nat BY SourcesAssumption DEF Kinds
<1> QED BY <1>1, <1>2, <1>3, <1>4, <1>5

(* What stands of a part as long as its rows do and its state does not     *)
(* come to say less.                                                       *)
LEMMA SoundStays ==
  ASSUME NEW p, NEW e, Sound(p, e), values'[p].rev = values[p].rev, UNCHANGED <<src, bad>>,
         state[p].error => state'[p].error, state'[p].ok = state[p].ok
  PROVE  Sound(p, e)'
<1> QED BY DEF Sound

LEMMA SoundOfLess ==
  ASSUME NEW p, NEW e \in Nat, NEW d \in Nat, values[p].rev \in Nat, Sound(p, e), d <= e, src = "arena" \/ d = e
  PROVE  Sound(p, d)
<1> QED BY DEF Sound

(* A step that says of no part less than before leaves the validators      *)
(* good.                                                                   *)
LEMMA VouchedStays ==
  ASSUME Kinds, Vouched, UNCHANGED <<src, bad, conf, values>>, last'.ver = last.ver,
         \A k \in Keys : state'[k].etag = state[k].etag,
         \A p \in Parts : (state[p].error => state'[p].error) /\ state'[p].ok = state[p].ok
  PROVE  Vouched'
<1>1. \A p \in Parts : p \in Keys /\ File \in Keys BY Kept
<1>2. src' = "hf_evals" => \A p \in Parts : state'[p].etag <= values'[p].rev BY <1>1 DEF Vouched
<1>3. ASSUME src' # "hf_evals", last'.ver = conf'.ver, NEW p \in conf'.parts PROVE Sound(p, state[File].etag)'
  <2>1. p \in Parts /\ Sound(p, state[File].etag) BY <1>3, Kept DEF Vouched
  <2>2. Sound(p, state[File].etag) /\ state'[File].etag = state[File].etag BY <1>1, <2>1
  <2> QED BY <2>1, <2>2 DEF Sound
<1> QED BY <1>2, <1>3 DEF Vouched

-----------------------------------------------------------------------------
(* The world.                                                              *)
LEMMA PublishKeeps == ASSUME IInv, NEW k \in Keys, Publish(k) PROVE IInv'
<1> USE DEF IInv
<1>1. UNCHANGED <<src, bad, conf, values, state, last, pc, todo, cond, got, listed, failed>>
  BY DEF Publish, storeVars, runVars
<1>2. rev' \in [Keys -> Nat] BY Kept DEF Publish
<1>3. \A j \in Keys : rev[j] <= rev'[j] BY Kept DEF Publish
<1>4. Kinds' BY <1>1, <1>2 DEF Kinds
<1>5. Places' /\ Versions' BY <1>1 DEF Places, Versions
<1>6. Newer'
  <2>1. \A a, b, c \in Nat : a <= b /\ b <= c => a <= c OBVIOUS
  <2>2. \A j \in Keys : rev[j] \in Nat /\ rev'[j] \in Nat /\ state[j].etag \in Nat BY <1>2, Kept
  <2>3. File \in Keys /\ got.part \in Keys /\ got.rev \in Nat /\ listed \in Nat BY Kept DEF Kinds
  <2>4. \A j \in Keys : state'[j].etag <= rev'[j] BY <1>1, <1>3, <2>1, <2>2 DEF Newer
  <2>5. pc' = "download" => listed' <= rev'[File] BY <1>1, <1>3, <2>1, <2>2, <2>3 DEF Newer
  <2>6. got.rev <= rev[File] => got.rev <= rev'[File] BY <1>3, <2>1, <2>2, <2>3
  <2>7. got.rev <= rev[got.part] => got.rev <= rev'[got.part] BY <1>3, <2>1, <2>2, <2>3
  <2> QED BY <1>1, <2>4, <2>5, <2>6, <2>7 DEF Newer
<1>7. Vouched' /\ ReadSoFar' BY <1>1 DEF Vouched, ReadSoFar, Sound
<1> QED BY <1>4, <1>5, <1>6, <1>7

LEMMA CadenceKeeps == ASSUME IInv, CadencePasses PROVE IInv'
<1> USE DEF IInv
<1>1. last' \in [ok : {"never", "fresh", "stale"}, error : BOOLEAN, ver : Nat] /\ last'.ver = last.ver
  BY DEF CadencePasses, Kinds
<1>2. UNCHANGED <<src, bad, conf, rev, values, state, pc, todo, cond, got, listed, failed>>
  BY DEF CadencePasses, worldVars, runVars
<1>3. Kinds' BY <1>1, <1>2 DEF Kinds
<1>4. Places' /\ Versions' /\ Newer' BY <1>1, <1>2 DEF Places, Versions, Newer
<1>5. Vouched' /\ ReadSoFar' BY <1>1, <1>2 DEF Vouched, ReadSoFar, Sound
<1> QED BY <1>3, <1>4, <1>5

LEMMA UpgradeKeeps == ASSUME IInv, Upgrade PROVE IInv'
<1> USE DEF IInv
<1>1. UNCHANGED <<src, bad, rev, values, state, last, pc, todo, cond, got, listed, failed>> /\ pc = "idle"
  BY DEF Upgrade, storeVars, runVars
<1>2. conf' \in [ver : Nat, parts : SUBSET Parts] BY Kept DEF Upgrade
<1>3. conf'.ver = conf.ver + 1 BY DEF Upgrade
<1>4. ~cond /\ todo = {} BY <1>1 DEF Places
<1>5. Kinds' BY <1>1, <1>2 DEF Kinds
<1>6. Places' BY <1>1, <1>4 DEF Places
<1>7. last.ver < conf'.ver BY <1>3, Kept DEF Versions
<1>8. Versions' BY <1>1, <1>2, <1>4, <1>7, Kept DEF Versions
<1>9. Newer' /\ ReadSoFar' BY <1>1 DEF Newer, ReadSoFar
<1>10. Vouched' BY <1>1, <1>2, <1>7, Kept DEF Vouched
<1> QED BY <1>5, <1>6, <1>8, <1>9, <1>10

-----------------------------------------------------------------------------
(* How a run starts and ends.                                              *)
LEMMA StartKeeps == ASSUME IInv, NEW force \in BOOLEAN, NEW only, Start(force, only) PROVE IInv'
<1> USE DEF IInv
<1>1. UNCHANGED <<src, bad, conf, rev, values, state, last, got, listed>> BY DEF Start, worldVars, storeVars
<1>2. /\ src = "hf_evals" => pc' = "repo"
      /\ src = "arena" => pc' = "list"
      /\ src = "epoch" => pc' = "zip"
  BY DEF Start
<1>3. src \in {"hf_evals", "arena", "epoch"} BY DEF Kinds
<1>4. cond' = (last.ver = conf.ver) /\ failed' = FALSE BY DEF Start
<1>5. todo' \subseteq conf.parts /\ (src # "hf_evals" => todo' = conf.parts) BY DEF Start
<1>6. Kinds' BY <1>1, <1>4 DEF Kinds
<1>7. Places' BY <1>1, <1>2, <1>3, <1>5 DEF Places
<1>8. Versions' BY <1>1, <1>4 DEF Versions
<1>9. Newer' /\ ReadSoFar' BY <1>1, <1>2, <1>3 DEF Newer, ReadSoFar
<1>10. Vouched' BY <1>1 DEF Vouched, Sound
<1> QED BY <1>6, <1>7, <1>8, <1>9, <1>10

LEMMA FinishKeeps == ASSUME IInv, Finish PROVE IInv'
<1> USE DEF IInv
<1>1. UNCHANGED <<src, bad, conf, rev, values, state>> /\ pc = "finish" BY DEF Finish, worldVars
<1>2. pc' = "idle" /\ todo' = {} /\ listed' = 0 /\ failed' = FALSE /\ cond' = FALSE BY DEF Finish
<1>3. got' \in [part : Keys, rev : Nat] BY Kept DEF Finish
<1>4. last' \in [ok : {"never", "fresh", "stale"}, error : BOOLEAN, ver : Nat]
  <2>1. [last EXCEPT !.error = TRUE] \in [ok : {"never", "fresh", "stale"}, error : BOOLEAN, ver : Nat] BY DEF Kinds
  <2>2. [ok |-> "fresh", error |-> FALSE, ver |-> conf.ver]
          \in [ok : {"never", "fresh", "stale"}, error : BOOLEAN, ver : Nat] BY Kept
  <2> QED BY <2>1, <2>2 DEF Finish
<1>5. last'.ver = IF failed THEN last.ver ELSE conf.ver BY DEF Finish, Kinds
<1>6. Kinds' BY <1>1, <1>2, <1>3, <1>4 DEF Kinds
<1>7. Places' BY <1>2 DEF Places
<1>8. Versions' BY <1>1, <1>2, <1>5, Kept DEF Versions
<1>9. Newer' /\ ReadSoFar' BY <1>1, <1>2 DEF Newer, ReadSoFar
<1>10. Vouched'
  <2>1. CASE failed BY <1>1, <1>5, <2>1 DEF Vouched, Sound
  <2>2. CASE ~failed
    <3>1. src # "hf_evals" => \A p \in conf.parts : Sound(p, state[File].etag) BY <1>1, <2>2 DEF ReadSoFar
    <3> QED BY <1>1, <3>1 DEF Vouched, Sound
  <2> QED BY <2>1, <2>2
<1> QED BY <1>6, <1>7, <1>8, <1>9, <1>10

LEMMA StopKeeps == ASSUME IInv, Stop PROVE IInv'
<1> USE DEF IInv
<1>1. UNCHANGED <<src, bad, conf, rev, values, state, last>> BY DEF Stop, worldVars, storeVars
<1>2. pc' = "idle" /\ todo' = {} /\ listed' = 0 /\ failed' = FALSE /\ cond' = FALSE BY DEF Stop
<1>3. got' \in [part : Keys, rev : Nat] BY Kept DEF Stop
<1>4. Kinds' BY <1>1, <1>2, <1>3 DEF Kinds
<1>5. Places' /\ Versions' BY <1>1, <1>2 DEF Places, Versions
<1>6. Newer' /\ ReadSoFar' BY <1>1, <1>2 DEF Newer, ReadSoFar
<1>7. Vouched' BY <1>1 DEF Vouched, Sound
<1> QED BY <1>4, <1>5, <1>6, <1>7

LEMMA GiveUpKeeps ==
  ASSUME IInv, GiveUp, UNCHANGED <<src, bad, conf, rev, values, state, last, cond, got, listed>> PROVE IInv'
<1> USE DEF IInv
<1>1. pc' = "finish" /\ failed' = TRUE /\ todo' = todo BY DEF GiveUp
<1>2. Kinds' BY <1>1 DEF Kinds
<1>3. Places' /\ Versions' BY <1>1 DEF Places, Versions
<1>4. Newer' /\ ReadSoFar' BY <1>1 DEF Newer, ReadSoFar
<1>5. Vouched' BY DEF Vouched, Sound
<1> QED BY <1>2, <1>3, <1>4, <1>5

LEMMA TimeoutKeeps == ASSUME IInv, Timeout PROVE IInv'
<1>1. UNCHANGED <<src, bad, conf, rev, values, state, last, cond, got, listed>> BY DEF Timeout, worldVars, storeVars
<1> QED BY <1>1, GiveUpKeeps DEF Timeout

-----------------------------------------------------------------------------
(* The repositories, one by one.                                           *)
LEMMA AskRepoKeeps == ASSUME IInv, NEW p \in Parts, NEW result, AskRepo(p, result) PROVE IInv'
<1> USE DEF IInv
<1>1. UNCHANGED <<src, bad, conf, rev, values, last, cond, listed>> /\ pc = "repo" /\ p \in todo
  BY DEF AskRepo, worldVars
<1>2. src = "hf_evals" /\ todo \subseteq conf.parts BY <1>1 DEF Places
<1>3. p \in Keys BY Kept
<1>4. CASE GiveUp /\ UNCHANGED <<state, got>> BY <1>1, <1>4, GiveUpKeeps
<1>5. CASE PutError(p) /\ Done(p, FALSE) /\ UNCHANGED <<pc, got, failed>>
  <2>1. todo' = todo \ {p} BY <1>5 DEF Done
  <2>2. Kinds' BY <1>1, <1>3, <1>5, PutErrorIs, Kept DEF Kinds
  <2>3. \A k \in Keys : state'[k].etag = state[k].etag BY <1>3, <1>5, PutErrorIs, Kept
  <2>4. Places' /\ Versions' BY <1>1, <1>2, <1>5, <2>1 DEF Places, Versions
  <2>5. Newer' BY <1>1, <1>5, <2>3 DEF Newer
  <2>6. Vouched' BY <1>1, <1>2, <2>3, Kept DEF Vouched
  <2>7. ReadSoFar' BY <1>1, <1>2, <1>5 DEF ReadSoFar
  <2> QED BY <2>2, <2>4, <2>5, <2>6, <2>7
<1>6. CASE PutOK(p) /\ Done(p, TRUE) /\ UNCHANGED <<pc, got, failed>>
  <2>1. todo' = todo \ {p} BY <1>6 DEF Done
  <2>2. Kinds' BY <1>1, <1>3, <1>6, PutOKIs, Kept DEF Kinds
  <2>3. \A k \in Keys : state'[k].etag = state[k].etag BY <1>3, <1>6, PutOKIs, Kept
  <2>4. Places' /\ Versions' BY <1>1, <1>2, <1>6, <2>1 DEF Places, Versions
  <2>5. Newer' BY <1>1, <1>6, <2>3 DEF Newer
  <2>6. Vouched' BY <1>1, <1>2, <2>3, Kept DEF Vouched
  <2>7. ReadSoFar' BY <1>1, <1>2, <1>6 DEF ReadSoFar
  <2> QED BY <2>2, <2>4, <2>5, <2>6, <2>7
<1>7. CASE got' = [part |-> p, rev |-> rev[p]] /\ pc' = "replace" /\ UNCHANGED <<state, todo, failed>>
  <2>1. got' \in [part : Keys, rev : Nat] BY <1>3, <1>7, Kept
  <2>2. got'.part = p /\ got'.rev = rev[p] BY <1>7
  <2>3. Kinds' BY <1>1, <1>7, <2>1 DEF Kinds
  <2>4. Places' BY <1>1, <1>2, <1>7, <2>2 DEF Places
  <2>5. Versions' BY <1>1 DEF Versions
  <2>6. state[p].etag <= rev[p] /\ rev[p] <= rev[p] BY <1>3, Kept DEF Newer
  <2>7. Newer' BY <1>1, <1>2, <1>7, <2>2, <2>6 DEF Newer
  <2>8. Vouched' /\ ReadSoFar' BY <1>1, <1>2, <1>7 DEF Vouched, ReadSoFar
  <2> QED BY <2>3, <2>4, <2>5, <2>7, <2>8
<1> QED BY <1>4, <1>5, <1>6, <1>7 DEF AskRepo

LEMMA ReposDoneKeeps == ASSUME IInv, ReposDone PROVE IInv'
<1> USE DEF IInv
<1>1. UNCHANGED <<src, bad, conf, rev, values, state, last, todo, cond, got, listed, failed>> /\ pc' = "finish"
  BY DEF ReposDone, worldVars, storeVars
<1>2. src = "hf_evals" /\ todo = {} BY DEF ReposDone, Places
<1>3. Kinds' BY <1>1 DEF Kinds
<1>4. Places' /\ Versions' BY <1>1, <1>2 DEF Places, Versions
<1>5. Newer' /\ ReadSoFar' BY <1>1, <1>2 DEF Newer, ReadSoFar
<1>6. Vouched' BY <1>1 DEF Vouched, Sound
<1> QED BY <1>3, <1>4, <1>5, <1>6

-----------------------------------------------------------------------------
(* The answer that holds every part: not modified, or read as a whole.     *)

(* Where nothing is stored, the rows and validators are as they were.      *)
LEMMA ArenaFailsKeeps ==
  ASSUME IInv, NEW result, ArenaFails(result), pc \in {"list", "download"},
         UNCHANGED <<src, bad, conf, rev, values, state, last, cond, got, listed>>
  PROVE  IInv'
<1> USE DEF IInv
<1>1. CASE GiveUp BY <1>1, GiveUpKeeps
<1>2. CASE pc' = "fail_all" /\ UNCHANGED <<todo, gap, failed>>
  <2>1. src = "arena" /\ todo = conf.parts BY DEF Places
  <2>2. Kinds' BY <1>2 DEF Kinds
  <2>3. Places' /\ Versions' BY <1>2, <2>1 DEF Places, Versions
  <2>4. Newer' /\ ReadSoFar' BY <1>2, <2>1 DEF Newer, ReadSoFar
  <2>5. Vouched' BY DEF Vouched, Sound
  <2> QED BY <2>2, <2>3, <2>4, <2>5
<1> QED BY <1>1, <1>2 DEF ArenaFails

(* A "not modified" is believed under the configuration the validator was  *)
(* stored with only, when it vouches for every part.                       *)
LEMMA NotModifiedKeeps ==
  ASSUME IInv, pc \in {"list", "zip"}, NotModified(File), PutOK(File), pc' = "finish", todo' = {},
         UNCHANGED <<src, bad, conf, rev, values, last, cond, got, listed, failed>>
  PROVE  IInv'
<1> USE DEF IInv
<1>1. src # "hf_evals" /\ last.ver = conf.ver BY DEF Places, NotModified, Versions
<1>2. state' \in [Keys -> StateOf] /\ \A k \in Keys : state'[k].etag = state[k].etag BY PutOKIs, Kept
<1>3. \A p \in Parts : p \in Keys /\ p # File BY Kept
<1>4. \A p \in Parts : state'[p] = state[p] BY <1>3, PutOKIs, Kept
<1>5. Kinds' BY <1>2 DEF Kinds
<1>6. Places' /\ Versions' BY DEF Places, Versions
<1>7. Newer' BY <1>2 DEF Newer
<1>8. Vouched' BY <1>2, <1>4, VouchedStays
<1>9. ReadSoFar' BY <1>1, <1>8 DEF ReadSoFar, Vouched
<1> QED BY <1>5, <1>6, <1>7, <1>8, <1>9

(* A new answer is read part by part.                                      *)
LEMMA NewAnswerKeeps ==
  ASSUME IInv, pc \in {"download", "zip"}, got' = [part |-> File, rev |-> rev[File]], pc' = "files",
         UNCHANGED <<src, bad, conf, rev, values, state, last, todo, cond, listed, failed>>
  PROVE  IInv'
<1> USE DEF IInv
<1>1. src # "hf_evals" /\ todo = conf.parts /\ (src = "arena" => pc = "download") BY DEF Places
<1>2. got' \in [part : Keys, rev : Nat] BY Kept
<1>3. got'.rev = rev[File] BY Kept
<1>4. Kinds' BY <1>2 DEF Kinds
<1>5. Places' /\ Versions' BY <1>1 DEF Places, Versions
<1>6. state[File].etag <= rev[File] /\ rev[File] <= rev[File] BY Kept DEF Newer
<1>7. src = "arena" => listed <= rev[File] BY <1>1 DEF Newer
<1>8. Newer' BY <1>1, <1>3, <1>6, <1>7 DEF Newer
<1>9. Vouched' BY DEF Vouched, Sound
<1>10. ReadSoFar' BY <1>1 DEF ReadSoFar
<1> QED BY <1>4, <1>5, <1>8, <1>9, <1>10

LEMMA ListKeeps == ASSUME IInv, NEW result, List(result) PROVE IInv'
<1> USE DEF IInv
<1>1. UNCHANGED <<src, bad, conf, rev, values, last, cond, got>> /\ pc = "list" BY DEF List, worldVars
<1>2. CASE ArenaFails(result) /\ UNCHANGED <<state, listed>> BY <1>1, <1>2, ArenaFailsKeeps
<1>3. CASE NotModified(File) /\ PutOK(File) /\ pc' = "finish" /\ todo' = {} /\ UNCHANGED <<listed, failed>>
  BY <1>1, <1>3, NotModifiedKeeps
<1>4. CASE listed' = rev[File] /\ pc' = "download" /\ UNCHANGED <<state, todo, gap, failed>>
  <2>1. src = "arena" /\ todo = conf.parts BY <1>1 DEF Places
  <2>2. rev[File] \in Nat BY Kept
  <2>3. Kinds' BY <1>1, <1>4, <2>2 DEF Kinds
  <2>4. Places' /\ Versions' BY <1>1, <1>4, <2>1 DEF Places, Versions
  <2>5. rev[File] <= rev[File] BY <2>2
  <2>6. Newer' BY <1>1, <1>4, <2>5 DEF Newer
  <2>7. Vouched' /\ ReadSoFar' BY <1>1, <1>4 DEF Vouched, ReadSoFar, Sound
  <2> QED BY <2>3, <2>4, <2>6, <2>7
<1> QED BY <1>2, <1>3, <1>4 DEF List

LEMMA DownloadKeeps == ASSUME IInv, NEW result, Download(result) PROVE IInv'
<1>1. UNCHANGED <<src, bad, conf, rev, values, state, last, cond, listed>> /\ pc = "download"
  BY DEF Download, worldVars, storeVars
<1>2. CASE ArenaFails(result) /\ UNCHANGED got BY <1>1, <1>2, ArenaFailsKeeps
<1>3. CASE got' = [part |-> File, rev |-> rev[File]] /\ pc' = "files" /\ UNCHANGED <<todo, gap, failed>>
  BY <1>1, <1>3, NewAnswerKeeps
<1> QED BY <1>2, <1>3 DEF Download

LEMMA GetZipKeeps == ASSUME IInv, NEW result, GetZip(result) PROVE IInv'
<1>1. UNCHANGED <<src, bad, conf, rev, values, last, cond, listed>> /\ pc = "zip" BY DEF GetZip, worldVars
<1>2. CASE GiveUp /\ UNCHANGED <<state, got>> BY <1>1, <1>2, GiveUpKeeps
<1>3. CASE NotModified(File) /\ PutOK(File) /\ pc' = "finish" /\ todo' = {} /\ UNCHANGED <<got, failed>>
  BY <1>1, <1>3, NotModifiedKeeps
<1>4. CASE got' = [part |-> File, rev |-> rev[File]] /\ pc' = "files" /\ UNCHANGED <<state, todo, gap, failed>>
  BY <1>1, <1>4, NewAnswerKeeps
<1> QED BY <1>2, <1>3, <1>4 DEF GetZip

(* Every board is marked as failed, one after the other.                   *)
LEMMA FailBoardKeeps == ASSUME IInv, FailBoard PROVE IInv'
<1> USE DEF IInv
<1>1. UNCHANGED <<src, bad, conf, rev, values, last, cond, got, listed, failed>> /\ pc = "fail_all"
  BY DEF FailBoard, worldVars
<1>2. src = "arena" /\ todo \subseteq conf.parts BY <1>1 DEF Places
<1>3. CASE todo = {} /\ pc' = "finish" /\ UNCHANGED <<state, todo, gap>>
  <2>1. Kinds' BY <1>1, <1>3 DEF Kinds
  <2>2. Places' /\ Versions' /\ Newer' BY <1>1, <1>3 DEF Places, Versions, Newer
  <2>3. Vouched' BY <1>1, <1>3 DEF Vouched, Sound
  <2>4. \A p \in conf.parts : state[p].error BY <1>1, <1>3 DEF ReadSoFar
  <2>5. ReadSoFar' BY <1>1, <1>2, <1>3, <2>4 DEF ReadSoFar, Sound
  <2> QED BY <2>1, <2>2, <2>3, <2>5
<1>4. ASSUME NEW p \in todo, PutError(p), Done(p, FALSE), UNCHANGED pc PROVE IInv'
  <2>1. p \in Parts /\ p \in Keys BY <1>2, Kept
  <2>2. todo' = todo \ {p} BY <1>4 DEF Done
  <2>3. state' \in [Keys -> StateOf] /\ state'[p].error BY <1>4, <2>1, PutErrorIs, Kept
  <2>4. \A k \in Keys : state'[k].etag = state[k].etag /\ state'[k].ok = state[k].ok /\ (state[k].error => state'[k].error)
    BY <1>4, <2>1, PutErrorIs, Kept
  <2>5. Kinds' BY <1>1, <2>3 DEF Kinds
  <2>6. Places' /\ Versions' BY <1>1, <1>2, <1>4, <2>2 DEF Places, Versions
  <2>7. Newer' BY <1>1, <1>4, <2>4 DEF Newer
  <2>8. Vouched' BY <1>1, <2>4, VouchedStays, Kept
  <2>9. \A q \in conf.parts \ todo' : state'[q].error BY <1>1, <2>2, <2>3, <2>4, Kept DEF ReadSoFar
  <2>10. ReadSoFar' BY <1>1, <1>4, <2>9 DEF ReadSoFar
  <2> QED BY <2>5, <2>6, <2>7, <2>8, <2>10
<1> QED BY <1>3, <1>4 DEF FailBoard

-----------------------------------------------------------------------------
(* Reading and storing one part.                                           *)
LEMMA ReadPartKeeps == ASSUME IInv, NEW p \in Parts, ReadPart(p) PROVE IInv'
<1> USE DEF IInv
<1>1. UNCHANGED <<src, bad, conf, rev, values, last, cond, listed, failed>> /\ pc = "files" /\ p \in todo
  BY DEF ReadPart, worldVars
<1>2. src \in {"arena", "epoch"} /\ todo \subseteq conf.parts BY <1>1 DEF Places, Kinds
<1>3. p \in Keys BY Kept
<1>4. CASE <<p, got.rev>> \in bad /\ src = "arena" /\ PutError(p) /\ Done(p, FALSE) /\ UNCHANGED <<pc, got>>
  <2>1. todo' = todo \ {p} BY <1>4 DEF Done
  <2>2. state' \in [Keys -> StateOf] /\ state'[p].error BY <1>3, <1>4, PutErrorIs, Kept
  <2>3. \A k \in Keys : state'[k].etag = state[k].etag /\ state'[k].ok = state[k].ok /\ (state[k].error => state'[k].error)
    BY <1>3, <1>4, PutErrorIs, Kept
  <2>4. Kinds' BY <1>1, <1>4, <2>2 DEF Kinds
  <2>5. Places' /\ Versions' BY <1>1, <1>2, <1>4, <2>1 DEF Places, Versions
  <2>6. Newer' BY <1>1, <1>4, <2>3, Kept DEF Newer
  <2>7. \A q \in Parts : (state[q].error => state'[q].error) /\ state'[q].ok = state[q].ok BY <2>3, Kept
  <2>8. Vouched' BY <1>1, <2>3, <2>7, VouchedStays
  <2>9. ASSUME NEW q \in conf.parts \ todo' PROVE Sound(q, got.rev)'
    <3>1. CASE q = p BY <1>1, <1>4, <2>2, <3>1 DEF Sound
    <3>2. CASE q # p
      <4>1. q \in Parts /\ Sound(q, got.rev) BY <1>1, <1>2, <2>1, <2>9, <3>2, Kept DEF ReadSoFar
      <4>2. got'.rev = got.rev BY <1>4
      <4> QED BY <1>1, <2>7, <4>1, <4>2 DEF Sound
    <3> QED BY <3>1, <3>2
  <2>10. ReadSoFar' BY <1>1, <1>4, <2>9 DEF ReadSoFar
  <2> QED BY <2>4, <2>5, <2>6, <2>8, <2>10
<1>5. CASE <<p, got.rev>> \in bad /\ src # "arena" /\ Done(p, TRUE) /\ UNCHANGED <<state, pc, got>>
  <2>1. todo' = todo \ {p} BY <1>5 DEF Done
  <2>2. Kinds' BY <1>1, <1>5 DEF Kinds
  <2>3. Places' /\ Versions' BY <1>1, <1>2, <1>5, <2>1 DEF Places, Versions
  <2>4. Newer' BY <1>1, <1>5 DEF Newer
  <2>5. Vouched' BY <1>1, <1>5 DEF Vouched, Sound
  <2>6. ASSUME NEW q \in conf.parts \ todo' PROVE Sound(q, got.rev)
    <3>1. CASE q = p BY <1>2, <1>5, <3>1 DEF Sound
    <3>2. CASE q # p BY <1>1, <1>2, <2>1, <2>6, <3>2 DEF ReadSoFar
    <3> QED BY <3>1, <3>2
  <2>7. ReadSoFar' BY <1>1, <1>5, <2>6 DEF ReadSoFar, Sound
  <2> QED BY <2>2, <2>3, <2>4, <2>5, <2>7
<1>6. CASE got' = [got EXCEPT !.part = p] /\ pc' = "replace" /\ UNCHANGED <<state, todo, gap>>
  <2>1. got'.part = p /\ got'.rev = got.rev /\ got' \in [part : Keys, rev : Nat] BY <1>3, <1>6 DEF Kinds
  <2>2. Kinds' BY <1>1, <1>6, <2>1 DEF Kinds
  <2>3. Places' BY <1>1, <1>2, <1>6, <2>1 DEF Places
  <2>4. Versions' BY <1>1 DEF Versions
  <2>5. Newer' BY <1>1, <1>2, <1>6, <2>1 DEF Newer
  <2>6. Vouched' BY <1>1, <1>6 DEF Vouched, Sound
  <2>7. ReadSoFar' BY <1>1, <1>2, <1>6, <2>1 DEF ReadSoFar, Sound
  <2> QED BY <2>2, <2>3, <2>4, <2>5, <2>6, <2>7
<1> QED BY <1>4, <1>5, <1>6 DEF ReadPart

(* The rows come first: whatever stops the run after them, the validator   *)
(* is of rows that are older at most.                                      *)
LEMMA ReplaceKeeps == ASSUME IInv, Replace PROVE IInv'
<1> USE DEF IInv
<1> DEFINE p == got.part
<1>1. UNCHANGED <<src, bad, conf, rev, state, last, cond, got, listed, failed>> /\ pc = "replace" /\ p \in todo
  BY DEF Replace, worldVars, Places
<1>2. p \in conf.parts /\ p \in Parts /\ src \in {"hf_evals", "arena", "epoch"} BY <1>1, Kept DEF Places, Kinds
<1>3. values' \in [Parts -> [rev : Nat, ver : Nat]]
  <2>1. [rev |-> got.rev, ver |-> conf.ver] \in [rev : Nat, ver : Nat] BY Kept
  <2> QED BY <2>1 DEF Replace, Kinds
<1>4. values'[p].rev = got.rev BY <1>2 DEF Replace, Kinds
<1>5. \A q \in Parts \ {p} : values'[q] = values[q] BY DEF Replace, Kinds
<1>6. IF src = "epoch" THEN pc' = "files" /\ todo' = todo \ {p} ELSE pc' = "note" /\ todo' = todo
  BY DEF Replace, Done
<1>7. Kinds' BY <1>1, <1>3 DEF Kinds
<1>8. Places' BY <1>1, <1>2, <1>6 DEF Places
<1>9. Versions' BY <1>1 DEF Versions
<1>10. Newer' BY <1>1, <1>2, <1>4, <1>6 DEF Newer
<1>11. state[p].etag \in Nat /\ state[File].etag \in Nat /\ got.rev \in Nat BY <1>2, Kept
<1>12. Vouched'
  <2>1. ASSUME src = "hf_evals", NEW q \in Parts PROVE state[q].etag <= values'[q].rev
    <3>1. CASE q = p BY <1>1, <1>4, <2>1, <3>1 DEF Newer
    <3>2. CASE q # p BY <1>5, <2>1, <3>2 DEF Vouched
    <3> QED BY <3>1, <3>2
  <2>2. ASSUME src # "hf_evals", last.ver = conf.ver, NEW q \in conf.parts PROVE Sound(q, state[File].etag)'
    <3>1. CASE q = p
      <4>1. state[File].etag <= values'[q].rev BY <1>1, <1>4, <2>2, <3>1 DEF Newer
      <4>2. state'[File].etag = state[File].etag BY <1>1
      <4> QED BY <4>1, <4>2 DEF Sound
    <3>2. CASE q # p
      <4>1. q \in Parts /\ Sound(q, state[File].etag) BY <2>2, Kept DEF Vouched
      <4>2. values'[q] = values[q] BY <1>5, <3>2, <4>1
      <4> QED BY <1>1, <4>1, <4>2 DEF Sound
    <3> QED BY <3>1, <3>2
  <2> QED BY <1>1, <2>1, <2>2 DEF Vouched
<1>13. ReadSoFar'
  <2>1. ASSUME src # "hf_evals", NEW q \in conf.parts \ todo' PROVE Sound(q, got.rev)'
    <3>1. CASE q = p
      <4>1. got.rev <= values'[q].rev /\ got'.rev = got.rev BY <1>1, <1>4, <1>11, <3>1
      <4> QED BY <4>1 DEF Sound
    <3>2. CASE q # p
      <4>1. q \notin todo BY <1>6, <2>1, <3>2
      <4>2. q \in Parts /\ Sound(q, got.rev) BY <1>1, <2>1, <4>1, Kept DEF ReadSoFar
      <4>3. values'[q] = values[q] BY <1>5, <3>2, <4>2
      <4> QED BY <1>1, <4>2, <4>3 DEF Sound
    <3> QED BY <3>1, <3>2
  <2> QED BY <1>1, <1>6, <2>1 DEF ReadSoFar
<1> QED BY <1>7, <1>8, <1>9, <1>10, <1>12, <1>13

LEMMA NoteKeeps == ASSUME IInv, Note PROVE IInv'
<1> USE DEF IInv
<1> DEFINE p == got.part
<1>1. UNCHANGED <<src, bad, conf, rev, values, last, cond, got, listed, failed>> /\ pc = "note" /\ p \in todo
  BY DEF Note, worldVars, Places
<1>2. p \in conf.parts /\ p \in Parts /\ p \in Keys /\ p # File /\ src \in {"hf_evals", "arena"}
  BY <1>1, Kept DEF Places, Kinds
<1>3. todo' = todo \ {p} BY DEF Note, Done
<1>4. values[p].rev = got.rev /\ got.rev \in Nat BY <1>1, Kept DEF Newer
<1>5. CASE src = "hf_evals"
  <2>1. PutRead(p, got.rev) /\ pc' = "repo" BY <1>5 DEF Note
  <2>2. state' \in [Keys -> StateOf] /\ state'[p].etag = got.rev /\ \A k \in Keys \ {p} : state'[k] = state[k]
    BY <1>2, <1>4, <2>1, PutReadIs, Kept
  <2>3. Kinds' BY <1>1, <2>2 DEF Kinds
  <2>4. Places' /\ Versions' BY <1>1, <1>3, <1>5, <2>1 DEF Places, Versions
  <2>5. got.rev <= rev[p] BY <1>1, <1>5 DEF Newer
  <2>6. \A k \in Keys : state'[k].etag <= rev'[k] BY <1>1, <2>2, <2>5 DEF Newer
  <2>7. Newer' BY <2>1, <2>6 DEF Newer
  <2>8. \A q \in Parts : state'[q].etag <= values'[q].rev
    BY <1>1, <1>4, <1>5, <2>2, Kept DEF Vouched
  <2>9. Vouched' /\ ReadSoFar' BY <1>1, <1>5, <2>1, <2>8 DEF Vouched, ReadSoFar
  <2> QED BY <2>3, <2>4, <2>7, <2>9
<1>6. CASE src = "arena"
  <2>1. PutOK(p) /\ pc' = "files" BY <1>6 DEF Note
  <2>2. state' \in [Keys -> StateOf] /\ \A k \in Keys : state'[k].etag = state[k].etag BY <1>2, <2>1, PutOKIs, Kept
  <2>3. \A k \in Keys \ {p} : state'[k] = state[k] BY <1>2, <2>1, PutOKIs, Kept
  <2>4. Kinds' BY <1>1, <2>2 DEF Kinds
  <2>5. Places' /\ Versions' BY <1>1, <1>3, <1>6, <2>1 DEF Places, Versions
  <2>6. Newer' BY <1>1, <1>6, <2>1, <2>2, Kept DEF Newer
  <2>7. ASSUME last.ver = conf.ver, NEW q \in conf.parts PROVE Sound(q, state[File].etag)'
    <3>1. CASE q = p
      <4>1. state[File].etag <= values[q].rev BY <1>1, <1>4, <1>6, <3>1 DEF Newer
      <4> QED BY <1>1, <2>2, <4>1, Kept DEF Sound
    <3>2. CASE q # p
      <4>1. Sound(q, state[File].etag) BY <1>6, <2>7 DEF Vouched
      <4>2. state'[q] = state[q] BY <2>3, <2>7, <3>2, Kept
      <4>3. state'[File].etag = state[File].etag BY <2>2, Kept
      <4> QED BY <1>1, <4>1, <4>2, <4>3 DEF Sound
    <3> QED BY <3>1, <3>2
  <2>8. Vouched' BY <1>1, <1>6, <2>7 DEF Vouched
  <2>9. ASSUME NEW q \in conf.parts \ todo' PROVE Sound(q, got.rev)'
    <3>1. CASE q = p
      <4>1. got.rev <= values[q].rev BY <1>4, <3>1
      <4> QED BY <1>1, <4>1 DEF Sound
    <3>2. CASE q # p
      <4>1. Sound(q, got.rev) BY <1>1, <1>3, <1>6, <2>9, <3>2 DEF ReadSoFar
      <4>2. state'[q] = state[q] BY <1>1, <2>3, <2>9, <3>2, Kept
      <4> QED BY <1>1, <4>1, <4>2 DEF Sound
    <3> QED BY <3>1, <3>2
  <2>10. ReadSoFar' BY <1>1, <2>1, <2>9 DEF ReadSoFar
  <2> QED BY <2>4, <2>5, <2>6, <2>8, <2>10
<1> QED BY <1>2, <1>5, <1>6

(* The validator comes last, when it vouches for every part.               *)
LEMMA NoteFileKeeps == ASSUME IInv, NoteFile PROVE IInv'
<1> USE DEF IInv
<1> DEFINE v == IF src = "arena" THEN listed ELSE got.rev
<1>1. UNCHANGED <<src, bad, conf, rev, values, last, cond, got, listed, failed, todo>> /\ pc = "files" /\ todo = {}
  BY DEF NoteFile, worldVars
<1>2. PutRead(File, v) /\ pc' = "finish" BY DEF NoteFile
<1>3. v \in Nat /\ got.rev \in Nat BY Kept DEF Kinds
<1>4. src \in {"arena", "epoch"} BY <1>1 DEF Places, Kinds
<1>5. v <= got.rev /\ got.rev <= rev[File] BY <1>1, <1>3, <1>4 DEF Newer
<1>6. HIDE DEF v
<1>7. state' \in [Keys -> StateOf] /\ state'[File].etag = v /\ \A k \in Keys \ {File} : state'[k] = state[k]
  BY <1>2, <1>3, PutReadIs, Kept
<1>8. Kinds' BY <1>1, <1>7 DEF Kinds
<1>9. Places' /\ Versions' BY <1>1, <1>2, <1>4 DEF Places, Versions
<1>10. v <= rev[File] BY <1>3, <1>5, Kept
<1>11. \A k \in Keys : state'[k].etag <= rev'[k] BY <1>1, <1>7, <1>10 DEF Newer
<1>12. Newer' BY <1>2, <1>11 DEF Newer
<1>13. ASSUME NEW q \in conf.parts PROVE Sound(q, state[File].etag)'
  <2>1. Sound(q, got.rev) BY <1>1, <1>4 DEF ReadSoFar
  <2>2. src = "arena" \/ v = got.rev BY DEF v
  <2>3. q \in Parts /\ q \in Keys \ {File} /\ values[q].rev \in Nat BY Kept
  <2>4. Sound(q, v) BY <1>3, <1>5, <2>1, <2>2, <2>3, SoundOfLess
  <2>5. state'[q] = state[q] BY <1>7, <2>3
  <2> QED BY <1>1, <1>7, <2>4, <2>5 DEF Sound
<1>14. Vouched' /\ ReadSoFar' BY <1>1, <1>2, <1>4, <1>13 DEF Vouched, ReadSoFar
<1> QED BY <1>8, <1>9, <1>12, <1>14

-----------------------------------------------------------------------------
LEMMA StepIInv == ASSUME IInv, [Next]_vars PROVE IInv'
<1>1. CASE UNCHANGED vars
  <2>1. UNCHANGED <<src, bad, conf, rev, values, state, last, pc, todo, cond, got, listed, failed>> BY <1>1 DEF vars
  <2> QED BY <2>1 DEF IInv, Kinds, Places, Versions, Newer, Vouched, ReadSoFar, Sound
<1>2. CASE (\E k \in Keys : Publish(k)) \/ CadencePasses \/ Upgrade \/ Timeout \/ Stop
  BY <1>2, PublishKeeps, CadenceKeeps, UpgradeKeeps, TimeoutKeeps, StopKeeps
<1>3. CASE \E force \in BOOLEAN, only \in Asked : Start(force, only) BY <1>3, StartKeeps
<1>4. CASE Step
  <2>1. CASE Finish \/ Replace \/ Note \/ ReposDone \/ FailBoard \/ NoteFile
    BY <2>1, FinishKeeps, ReplaceKeeps, NoteKeeps, ReposDoneKeeps, FailBoardKeeps, NoteFileKeeps
  <2>2. ASSUME NEW result, List(result) \/ Download(result) \/ GetZip(result) PROVE IInv'
    BY <2>2, ListKeeps, DownloadKeeps, GetZipKeeps
  <2>3. ASSUME NEW result, NEW p \in Parts, AskRepo(p, result) PROVE IInv' BY <2>3, AskRepoKeeps
  <2>4. ASSUME NEW p \in Parts, ReadPart(p) PROVE IInv' BY <2>4, ReadPartKeeps
  <2> QED BY <1>4, <2>1, <2>2, <2>3, <2>4 DEF Step
<1> QED BY <1>1, <1>2, <1>3, <1>4 DEF Next

LEMMA AlwaysIInv == Spec => []IInv
<1> QED BY InitIInv, StepIInv, PTL DEF Spec

LEMMA IInvIsEnough == ASSUME IInv PROVE ValidatorNeverAhead
<1> SUFFICES ASSUME NEW p \in Parts, Trusted(p)
             PROVE  values[p].rev >= state[Answer(p)].etag \/ (src = "epoch" /\ <<p, state[File].etag>> \in bad)
  BY DEF ValidatorNeverAhead
<1>1. p \in conf.parts /\ last.ver = conf.ver BY DEF Trusted
<1>2. values[p].rev \in Nat /\ state[p].etag \in Nat /\ state[File].etag \in Nat BY Kept DEF IInv
<1>3. CASE src = "hf_evals"
  <2>1. state[p].etag <= values[p].rev BY <1>3 DEF IInv, Vouched
  <2> QED BY <1>2, <1>3, <2>1 DEF Answer
<1>4. CASE src # "hf_evals"
  <2>1. Sound(p, state[File].etag) BY <1>1, <1>4 DEF IInv, Vouched
  <2>2. src = "arena" => state[p].ok /\ ~state[p].error BY <1>1 DEF Trusted, BoardsRead
  <2> QED BY <1>2, <1>4, <2>1, <2>2 DEF Sound, Answer
<1> QED BY <1>3, <1>4

(* A "not modified" is never believed of rows that are older, for any      *)
(* parts, revisions and configurations and whatever stops, fails or is     *)
(* late (hfEvals, arena, epoch: the rows are replaced before the validator *)
(* is stored; Run: a validator counts under its own configuration only).   *)
THEOREM ValidatorsAreBehind == Spec => []ValidatorNeverAhead
<1> QED BY AlwaysIInv, IInvIsEnough, PTL

-----------------------------------------------------------------------------
(* A part in the gap is marked, or its source is, or no read has gone      *)
(* through under this configuration; and the run that is going has it      *)
(* before it, or has marked it.                                            *)
GapInv ==
  \A p \in gap \cap conf.parts :
    /\ state[p].error \/ last.error \/ last.ver # conf.ver
    /\ pc # "idle" /\ ~failed => p \in todo \/ state[p].error

(* A step that marks what joins the gap, and takes a mark or leaves the    *)
(* rest of its work only of what leaves the gap.                           *)
LEMMA GapStays ==
  ASSUME GapInv, UNCHANGED <<conf, last>>, pc' # "idle" /\ ~failed' => pc # "idle" /\ ~failed,
         \A p \in gap' \cap conf.parts :
           \/ state'[p].error
           \/ p \in gap /\ state'[p].error = state[p].error /\ (pc' = "idle" \/ failed' \/ (p \in todo => p \in todo'))
  PROVE  GapInv'
<1> QED BY DEF GapInv

LEMMA GapInit == ASSUME Init PROVE GapInv
<1> QED BY DEF Init, GapInv

LEMMA GapOutside ==
  ASSUME IInv, GapInv, (\E k \in Keys : Publish(k)) \/ CadencePasses \/ Upgrade \/ Timeout \/ Stop PROVE GapInv'
<1>1. CASE \E k \in Keys : Publish(k)
  <2>1. UNCHANGED <<conf, state, last, pc, todo, failed, gap>> BY <1>1 DEF Publish, storeVars, runVars
  <2> QED BY <2>1 DEF GapInv
<1>2. CASE CadencePasses
  <2>1. UNCHANGED <<conf, state, pc, todo, failed, gap>> BY <1>2 DEF CadencePasses, worldVars, runVars
  <2>2. last'.error = last.error /\ last'.ver = last.ver BY <1>2 DEF CadencePasses, IInv, Kinds
  <2> QED BY <2>1, <2>2 DEF GapInv
<1>3. CASE Upgrade
  <2>1. pc' = "idle" /\ last' = last /\ conf'.ver = conf.ver + 1 BY <1>3 DEF Upgrade, storeVars, runVars
  <2>2. last'.ver # conf'.ver BY <2>1, Kept DEF IInv, Versions
  <2> QED BY <2>1, <2>2 DEF GapInv
<1>4. CASE Timeout
  <2>1. UNCHANGED <<conf, state, last, gap>> /\ failed' = TRUE BY <1>4 DEF Timeout, GiveUp, worldVars, storeVars
  <2> QED BY <2>1 DEF GapInv
<1>5. CASE Stop
  <2>1. UNCHANGED <<conf, state, last, gap>> /\ pc' = "idle" BY <1>5 DEF Stop, worldVars, storeVars
  <2> QED BY <2>1 DEF GapInv
<1> QED BY <1>1, <1>2, <1>3, <1>4, <1>5

(* A run that is not limited to some families has every part before it.    *)
LEMMA GapStart ==
  ASSUME GapInv, OnlyRuns = FALSE, NEW force \in BOOLEAN, NEW only \in Asked, Start(force, only) PROVE GapInv'
<1>1. only = conf.parts BY DEF Asked
<1>2. todo' = conf.parts BY <1>1 DEF Start
<1>3. UNCHANGED <<conf, state, last, gap>> BY DEF Start, worldVars, storeVars
<1> QED BY <1>2, <1>3 DEF GapInv

LEMMA GapFinish == ASSUME IInv, GapInv, Finish PROVE GapInv'
<1>1. UNCHANGED <<conf, state>> /\ pc = "finish" /\ pc' = "idle" /\ gap' = gap \cup todo BY DEF Finish, worldVars
<1>2. CASE failed
  <2>1. last'.error BY <1>2 DEF Finish, IInv, Kinds
  <2> QED BY <1>1, <2>1 DEF GapInv
<1>3. CASE ~failed
  <2>1. todo = {} BY <1>1, <1>3 DEF IInv, Places
  <2>2. \A p \in gap \cap conf.parts : state[p].error BY <1>1, <1>3, <2>1 DEF GapInv
  <2> QED BY <1>1, <2>1, <2>2 DEF GapInv
<1> QED BY <1>2, <1>3

LEMMA GapRequests ==
  ASSUME IInv, GapInv, NEW result,
         List(result) \/ Download(result) \/ GetZip(result) \/ (\E p \in Parts : AskRepo(p, result))
  PROVE  GapInv'
<1>1. UNCHANGED <<conf, last>> /\ pc # "idle" BY DEF List, Download, GetZip, AskRepo, worldVars, storeVars
<1>2. CASE GiveUp /\ UNCHANGED state BY <1>1, <1>2 DEF GiveUp, GapInv
<1>3. CASE UNCHANGED <<state, todo, gap, failed>> BY <1>1, <1>3, GapStays
<1>4. CASE gap' = gap \ conf.parts /\ failed' = failed
  <2>1. gap' \cap conf.parts = {} BY <1>4
  <2> QED BY <1>1, <1>4, <2>1, GapStays
<1>5. ASSUME NEW p \in Parts, (PutError(p) /\ Done(p, FALSE)) \/ (PutOK(p) /\ Done(p, TRUE)), failed' = failed PROVE GapInv'
  <2>1. p \in Keys /\ todo' = todo \ {p} BY <1>5 DEF Done
  <2>2. \A q \in Keys \ {p} : state'[q] = state[q] BY <1>5 DEF PutError, PutOK, IInv, Kinds
  <2>3. CASE PutError(p) /\ Done(p, FALSE)
    <3>1. state'[p].error BY <2>1, <2>3, PutErrorIs, Kept DEF IInv
    <3>2. gap' = gap \cup {p} BY <1>5, <2>3 DEF Done
    <3> QED BY <1>1, <1>5, <2>1, <2>2, <3>1, <3>2, GapStays, Kept DEF IInv
  <2>4. CASE PutOK(p) /\ Done(p, TRUE)
    <3>1. gap' = gap \ {p} BY <1>5, <2>4 DEF Done
    <3> QED BY <1>1, <1>5, <2>1, <2>2, <3>1, GapStays, Kept DEF IInv
  <2> QED BY <1>5, <2>3, <2>4
<1>6. CASE List(result) \/ Download(result) \/ GetZip(result)
  <2>1. ArenaFails(result) => GiveUp \/ UNCHANGED <<todo, gap, failed>> BY DEF ArenaFails
  <2>2. (GiveUp /\ UNCHANGED state) \/ UNCHANGED <<state, todo, gap, failed>> \/ (gap' = gap \ conf.parts /\ failed' = failed)
    BY <1>6, <2>1 DEF List, Download, GetZip, storeVars
  <2> QED BY <1>2, <1>3, <1>4, <2>2
<1>7. ASSUME NEW p \in Parts, AskRepo(p, result) PROVE GapInv'
  <2>1. \/ GiveUp /\ UNCHANGED state
        \/ PutError(p) /\ Done(p, FALSE) /\ failed' = failed
        \/ PutOK(p) /\ Done(p, TRUE) /\ failed' = failed
        \/ UNCHANGED <<state, todo, gap, failed>>
    BY <1>7 DEF AskRepo
  <2>2. CASE PutError(p) /\ Done(p, FALSE) /\ failed' = failed BY <1>5, <2>2
  <2>3. CASE PutOK(p) /\ Done(p, TRUE) /\ failed' = failed BY <1>5, <2>3
  <2>4. CASE GiveUp /\ UNCHANGED state BY <1>2, <2>4
  <2>5. CASE UNCHANGED <<state, todo, gap, failed>> BY <1>3, <2>5
  <2> QED BY <2>1, <2>2, <2>3, <2>4, <2>5
<1> QED BY <1>6, <1>7

LEMMA GapParts ==
  ASSUME IInv, GapInv, Replace \/ Note \/ ReposDone \/ FailBoard \/ NoteFile \/ (\E p \in Parts : ReadPart(p))
  PROVE  GapInv'
<1>1. UNCHANGED <<conf, last, failed>> /\ pc # "idle"
  BY DEF Replace, Note, ReposDone, FailBoard, NoteFile, ReadPart, worldVars, storeVars
<1>2. CASE UNCHANGED <<state, todo, gap>> BY <1>1, <1>2, GapStays
<1>3. ASSUME NEW p \in Parts, todo' = todo \ {p}, gap' = gap \ {p}, \A q \in Parts \ {p} : state'[q] = state[q] PROVE GapInv'
  BY <1>1, <1>3, GapStays, Kept DEF IInv
<1>4. ASSUME NEW p \in Parts, PutError(p), Done(p, FALSE) PROVE GapInv'
  <2>1. state'[p].error /\ (\A q \in Keys \ {p} : state'[q] = state[q]) BY <1>4, PutErrorIs, Kept DEF PutError, IInv
  <2>2. todo' = todo \ {p} /\ gap' = gap \cup {p} BY <1>4 DEF Done
  <2> QED BY <1>1, <2>1, <2>2, GapStays, Kept DEF IInv
<1>5. CASE Replace
  <2>1. got.part \in Parts /\ state' = state BY <1>5, Kept DEF Replace, IInv, Places
  <2>2. (todo' = todo \ {got.part} /\ gap' = gap \ {got.part}) \/ UNCHANGED <<todo, gap>> BY <1>5 DEF Replace, Done
  <2> QED BY <1>2, <1>3, <2>1, <2>2
<1>6. CASE Note
  <2>1. got.part \in Parts BY <1>6, Kept DEF Note, IInv, Places
  <2>2. \A q \in Parts \ {got.part} : state'[q] = state[q]
    BY <1>6, <2>1, Kept DEF Note, PutOK, PutRead, IInv
  <2> QED BY <1>3, <1>6, <2>1, <2>2 DEF Note, Done
<1>7. CASE ReposDone BY <1>2, <1>7 DEF ReposDone, storeVars
<1>8. CASE FailBoard
  <2>1. todo \subseteq Parts BY Kept DEF IInv, Places
  <2> QED BY <1>2, <1>4, <1>8, <2>1 DEF FailBoard
<1>9. CASE NoteFile
  <2>1. UNCHANGED <<todo, gap>> BY <1>9 DEF NoteFile
  <2>2. \A q \in Parts : state'[q] = state[q] BY <1>9, Kept DEF NoteFile, PutRead, IInv
  <2> QED BY <1>1, <2>1, <2>2, GapStays, Kept DEF IInv
<1>10. ASSUME NEW p \in Parts, ReadPart(p) PROVE GapInv'
  <2>1. \/ PutError(p) /\ Done(p, FALSE)
        \/ Done(p, TRUE) /\ state' = state
        \/ UNCHANGED <<state, todo, gap>>
    BY <1>10 DEF ReadPart
  <2>2. Done(p, TRUE) => todo' = todo \ {p} /\ gap' = gap \ {p} BY DEF Done
  <2> QED BY <1>2, <1>3, <1>4, <2>1, <2>2
<1> QED BY <1>5, <1>6, <1>7, <1>8, <1>9, <1>10

LEMMA StepGap == ASSUME OnlyRuns = FALSE, IInv, GapInv, [Next]_vars PROVE GapInv'
<1>1. CASE UNCHANGED vars
  <2>1. UNCHANGED <<conf, state, last, pc, todo, failed, gap>> BY <1>1 DEF vars
  <2> QED BY <2>1 DEF GapInv
<1>2. CASE (\E k \in Keys : Publish(k)) \/ CadencePasses \/ Upgrade \/ Timeout \/ Stop BY <1>2, GapOutside
<1>3. CASE \E force \in BOOLEAN, only \in Asked : Start(force, only) BY <1>3, GapStart
<1>4. CASE Step
  <2>1. CASE Finish BY <2>1, GapFinish
  <2>2. CASE Replace \/ Note \/ ReposDone \/ FailBoard \/ NoteFile \/ (\E p \in Parts : ReadPart(p)) BY <2>2, GapParts
  <2>3. ASSUME NEW result, List(result) \/ Download(result) \/ GetZip(result) \/ (\E p \in Parts : AskRepo(p, result))
        PROVE  GapInv'
    BY <2>3, GapRequests
  <2> QED BY <1>4, <2>1, <2>2, <2>3 DEF Step
<1> QED BY <1>1, <1>2, <1>3, <1>4 DEF Next

LEMMA GapInvIsEnough == ASSUME IInv, GapInv PROVE GapIsDue
<1> SUFFICES ASSUME NEW p \in gap \cap conf.parts PROVE Due BY DEF GapIsDue
<1>1. state[p].error \/ last.error \/ last.ver # conf.ver BY DEF GapInv
<1>2. p \in Keys BY Kept DEF IInv
<1> QED BY <1>1, <1>2 DEF Due

(* A part that could not be read keeps its source due until a later read   *)
(* answers for it, as long as no refresh is limited to some families       *)
(* (Run: "a source read only in part is due again at once").               *)
THEOREM PartsAreDue == ASSUME OnlyRuns = FALSE PROVE Spec => []GapIsDue
<1>1. Init => IInv /\ GapInv BY InitIInv, GapInit
<1>2. (IInv /\ GapInv) /\ [Next]_vars => (IInv /\ GapInv)' BY StepIInv, StepGap
<1>3. IInv /\ GapInv => GapIsDue BY GapInvIsEnough
<1> QED BY <1>1, <1>2, <1>3, PTL DEF Spec
-----------------------------------------------------------------------------
(* What is shown of the values stored.                                     *)
CONSTANTS Metrics, Excluded, Alias, MinCovered, Sway, Whole
Pv == INSTANCE PublicValues

ValuesOK(vals) == IsFiniteSet(vals) /\ \A x \in vals : x.row.value \in Int

LEMMA PvCount == ASSUME NEW S PROVE Pv!Cardinality(S) = Cardinality(S)
BY DEF Pv!Cardinality, Cardinality

LEMMA ViewIsFinite ==
    ASSUME NEW vals, ValuesOK(vals), NEW enabled, NEW sizes
    PROVE  /\ IsFiniteSet(Pv!View(vals, enabled, sizes))
           /\ \A v \in Pv!View(vals, enabled, sizes) : v.value \in Int
<1> DEFINE S == {x \in vals : x.present /\ x.row.source \in enabled /\ x.row.size \in sizes /\ Pv!Listed(x.row.source, x.row.metric)}
           T == Pv!View(vals, enabled, sizes)
           row == [x \in S |-> x.row]
<1>1. T = {x.row : x \in S} /\ S \subseteq vals
  BY DEF Pv!View
<1>2. IsFiniteSet(S)
  BY <1>1, FS_Subset DEF ValuesOK
<1>3. \A v \in T : v.value \in Int
  BY <1>1 DEF ValuesOK
<1> HIDE DEF S, T
<1>4. row \in [S -> T] /\ \A v \in T : \E x \in S : row[x] = v
  BY <1>1
<1> HIDE DEF row
<1>5. row \in Surjection(S, T)
  BY <1>4 DEF Surjection
<1>6. IsFiniteSet(T)
  BY <1>2, <1>5, FS_Surjection
<1> QED
  BY <1>3, <1>6 DEF T

(* Those better than a value: fewer, the better it is.                     *)
Ahead(view, m, v) == {p \in Pv!Of(view, m) : Pv!Better(m, p.value, v.value)}
LEMMA RankCounts ==
    ASSUME NEW view, IsFiniteSet(view), \A v \in view : v.value \in Int, NEW m,
           NEW v \in Pv!Of(view, m)
    PROVE  LET n == Cardinality(Pv!Of(view, m))
               k == Pv!Rank(view, m, v)
           IN  n \in Nat /\ k \in 1..n /\ Cardinality(Ahead(view, m, v)) \in Nat
               /\ k = 1 + Cardinality(Ahead(view, m, v)) /\ IsFiniteSet(Ahead(view, m, v))
<1> DEFINE S == Pv!Of(view, m)
           A == Ahead(view, m, v)
<1>1. IsFiniteSet(S) /\ \A p \in S : p.value \in Int
  <2>1. S \subseteq view
    BY DEF Pv!Of
  <2> QED
    BY <2>1, FS_Subset
<1>2. ~Pv!Better(m, v.value, v.value)
  BY <1>1 DEF Pv!Better, Pv!Comparable
<1>3. A \subseteq S \ {v}
  BY <1>2 DEF Ahead
<1> HIDE DEF A, S
<1>4. v \in S
  BY DEF S
<1>5. IsFiniteSet(S \ {v}) /\ Cardinality(S \ {v}) = Cardinality(S) - 1 /\ Cardinality(S) \in Nat
  BY <1>1, <1>4, FS_RemoveElement, FS_CardinalityType
<1>6. IsFiniteSet(A) /\ Cardinality(A) <= Cardinality(S) - 1
  BY <1>3, <1>5, FS_Subset
<1>7. Cardinality(A) \in Nat
  BY <1>6, FS_CardinalityType
<1>8. Pv!Rank(view, m, v) = 1 + Cardinality(A)
  BY PvCount DEF Pv!Rank, A, Ahead
<1> QED
  BY <1>5, <1>6, <1>7, <1>8 DEF A, S

LEMMA BetterRanks ==
    ASSUME NEW view, IsFiniteSet(view), \A v \in view : v.value \in Int, NEW m,
           NEW v \in Pv!Of(view, m), NEW w \in Pv!Of(view, m)
    PROVE  Pv!Better(m, v.value, w.value) <=> Pv!Rank(view, m, v) < Pv!Rank(view, m, w)
<1> DEFINE S == Pv!Of(view, m)
           A == Ahead(view, m, v)
           B == Ahead(view, m, w)
           c(p) == Pv!Comparable(m, p.value)
<1>1. \A p \in S : p.value \in Int /\ c(p) \in Int
  BY DEF Pv!Of, Pv!Comparable
<1>2. \A p, q \in S : Pv!Better(m, p.value, q.value) <=> IF m.higher THEN c(p) > c(q) ELSE c(p) < c(q)
  BY DEF Pv!Better
<1>3. /\ IsFiniteSet(A) /\ IsFiniteSet(B) /\ Cardinality(A) \in Nat /\ Cardinality(B) \in Nat
      /\ Pv!Rank(view, m, v) = 1 + Cardinality(A) /\ Pv!Rank(view, m, w) = 1 + Cardinality(B)
  BY RankCounts
<1>4. ASSUME Pv!Better(m, v.value, w.value) PROVE Cardinality(A) < Cardinality(B)
  <2> HIDE DEF c
  <2>1. v \in B /\ v \notin A
    BY <1>1, <1>2, <1>4 DEF Ahead
  <2>2. \A p \in S : Pv!Better(m, p.value, v.value) => Pv!Better(m, p.value, w.value)
    BY <1>1, <1>2, <1>4
  <2>3. A \subseteq B
    BY <2>2 DEF Ahead
  <2> HIDE DEF A, B
  <2>4. Cardinality(A) <= Cardinality(B) /\ Cardinality(A) # Cardinality(B)
    BY <1>3, <2>1, <2>3, FS_Subset
  <2> QED
    BY <1>3, <2>4
<1>5. ASSUME ~Pv!Better(m, v.value, w.value) PROVE Cardinality(B) <= Cardinality(A)
  <2> HIDE DEF c
  <2>1. \A p \in S : Pv!Better(m, p.value, w.value) => Pv!Better(m, p.value, v.value)
    BY <1>1, <1>2, <1>5
  <2>2. B \subseteq A
    BY <2>1 DEF Ahead
  <2> HIDE DEF A, B
  <2> QED
    BY <1>3, <2>2, FS_Subset
<1> HIDE DEF A, B
<1> QED
  BY <1>3, <1>4, <1>5

(* The word of a place never speaks better of a worse one.                 *)
LEMMA WordsFollow ==
    ASSUME NEW n \in Nat, NEW k \in 1..n, NEW l \in 1..n
    PROVE  /\ Pv!Position(k, n) \in Pv!ToSet(Pv!Words) <=> n >= 6
           /\ n >= 6 /\ k <= l => Pv!WorstOf(Pv!Position(k, n)) <= Pv!WorstOf(Pv!Position(l, n))
<1> DEFINE third == Pv!Ceiling(n, 3)
           most == Pv!Ceiling(2 * n, 3)
<1>1. Pv!ToSet(Pv!Words) = {"strongest", "middle", "weaker"}
  BY DEF Pv!ToSet, Pv!Words
<1>2. Pv!WorstOf("strongest") = 1 /\ Pv!WorstOf("middle") = 2 /\ Pv!WorstOf("weaker") = 3
  BY DEF Pv!WorstOf, Pv!Words
<1>3. third \in Nat /\ most \in Nat /\ third <= most
  BY DEF Pv!Ceiling
<1> HIDE DEF third, most
<1>4. \A r \in 1..n : n >= 6 => Pv!Position(r, n) = IF r <= third THEN "strongest" ELSE IF r <= most THEN "middle" ELSE "weaker"
  BY <1>3 DEF Pv!Position, third, most
<1>5. \A r \in 1..n : ~(n >= 6) => Pv!Position(r, n) \in {"alone", "place"}
  BY DEF Pv!Position
<1> QED
  BY <1>1, <1>2, <1>3, <1>4, <1>5

(* Of whatever is stored, the places shown are those of the values: a      *)
(* better value is placed before a worse one, places are within those      *)
(* rated, and a word is never better for a worse place (NewView, rank and  *)
(* Position of internal/catalog/external/public.go).                       *)
THEOREM PlacesAreOfTheValues ==
    \A vals, enabled, sizes, m : ValuesOK(vals) => Pv!PlacesFollow(Pv!View(vals, enabled, sizes), m)
<1> SUFFICES ASSUME NEW vals, NEW enabled, NEW sizes, NEW m, ValuesOK(vals)
             PROVE  Pv!PlacesFollow(Pv!View(vals, enabled, sizes), m)
  OBVIOUS
<1> DEFINE view == Pv!View(vals, enabled, sizes)
           S == Pv!Of(view, m)
           n == Cardinality(S)
<1>1. IsFiniteSet(view) /\ \A v \in view : v.value \in Int
  BY ViewIsFinite
<1> HIDE DEF view
<1>2. ASSUME NEW v \in S
      PROVE  /\ n \in Nat /\ Pv!Rank(view, m, v) \in 1..n
             /\ Pv!Entry(view, m, v).rank = Pv!Rank(view, m, v) /\ Pv!Entry(view, m, v).rated = n
             /\ Pv!Entry(view, m, v).position = Pv!Position(Pv!Rank(view, m, v), n)
  <2>1. n \in Nat /\ Pv!Rank(view, m, v) \in 1..n
    BY <1>1, RankCounts
  <2>2. /\ Pv!Entry(view, m, v).rank = Pv!Rank(view, m, v) /\ Pv!Entry(view, m, v).rated = n
        /\ Pv!Entry(view, m, v).position = Pv!Position(Pv!Rank(view, m, v), n)
    BY PvCount DEF Pv!Entry
  <2> QED
    BY <2>1, <2>2
<1>3. ASSUME NEW v \in S, NEW w \in S
      PROVE  LET a == Pv!Entry(view, m, v)
                 b == Pv!Entry(view, m, w)
             IN  /\ Pv!Better(m, v.value, w.value) <=> a.rank < b.rank
                 /\ a.rank \in 1..a.rated /\ (a.position \in Pv!ToSet(Pv!Words) <=> a.rated >= 6)
                 /\ (a.rated >= 6 /\ a.rank <= b.rank) => Pv!WorstOf(a.position) <= Pv!WorstOf(b.position)
  <2> DEFINE k == Pv!Rank(view, m, v)
             l == Pv!Rank(view, m, w)
  <2>1. Pv!Better(m, v.value, w.value) <=> k < l
    BY <1>1, BetterRanks
  <2>2. n \in Nat /\ k \in 1..n /\ l \in 1..n
    BY <1>2
  <2> HIDE DEF S, n, k, l
  <2>3. /\ Pv!Position(k, n) \in Pv!ToSet(Pv!Words) <=> n >= 6
        /\ n >= 6 /\ k <= l => Pv!WorstOf(Pv!Position(k, n)) <= Pv!WorstOf(Pv!Position(l, n))
    BY <2>2, WordsFollow
  <2> QED
    BY <1>2, <2>1, <2>2, <2>3 DEF k, l
<1> QED
  BY <1>3 DEF Pv!PlacesFollow, view

-----------------------------------------------------------------------------
(* What is stored of the answers: folds over their results.               *)

(* Every set of natural numbers but the empty one has a least.             *)
LEMMA LeastNatural ==
    ASSUME NEW S, S \subseteq Nat, S # {}
    PROVE  \E n \in S : \A k \in S : n <= k
<1>1. PICK x \in S : \A y \in S : ~(<<y, x>> \in OpToRel(<, Nat))
  BY NatLessThanWellFounded, WFMin
<1>2. \A y \in S : x <= y
  <2> SUFFICES ASSUME NEW y \in S, y < x PROVE FALSE
    OBVIOUS
  <2>1. <<y, x>> \in Nat \X Nat
    OBVIOUS
  <2> QED
    BY <1>1, <2>1 DEF OpToRel
<1> QED
  BY <1>2

(* Finite sets, if there are any, have a smallest one among them.          *)
LEMMA SmallestSet ==
    ASSUME NEW C, C # {}, \A s \in C : IsFiniteSet(s)
    PROVE  \E s \in C : \A t \in C : Cardinality(s) <= Cardinality(t)
<1> DEFINE sizes == {Cardinality(s) : s \in C}
<1>1. sizes \subseteq Nat /\ sizes # {}
  BY FS_CardinalityType
<1>2. PICK n \in sizes : \A k \in sizes : n <= k
  <2> HIDE DEF sizes
  <2> QED
    BY <1>1, LeastNatural
<1>3. PICK s \in C : n = Cardinality(s)
  BY <1>2
<1> QED
  BY <1>2, <1>3

(* A fold chooses the function that its recursion over the subsets of a    *)
(* finite set defines.  That there is one: it is built on the subsets of   *)
(* one element more at a time.                                             *)
UpTo(S, n) == {s \in SUBSET S : Cardinality(s) <= n}
Recurs(h, base, pick, step, D) ==
    \A s \in D : h[s] = IF s = {} THEN base ELSE step[<<s, h[s \ {pick[s]}]>>]

(* Taking an element out of a subset leaves a smaller one.                 *)
LEMMA SmallerSubset ==
    ASSUME NEW S, IsFiniteSet(S), NEW n \in Nat, NEW s \in SUBSET S, NEW x \in s
    PROVE  /\ Cardinality(s) \in Nat /\ Cardinality(s \ {x}) = Cardinality(s) - 1
           /\ s \ {x} \in SUBSET S
           /\ Cardinality(s) <= n + 1 => s \ {x} \in UpTo(S, n)
<1>1. IsFiniteSet(s)
  BY FS_Subset
<1>2. Cardinality(s) \in Nat /\ Cardinality(s \ {x}) = Cardinality(s) - 1
  BY <1>1, FS_CardinalityType, FS_RemoveElement
<1> QED
  BY <1>2 DEF UpTo

(* The function that a recursion over subsets defines exists.              *)
LEMMA RecursionExists ==
    ASSUME NEW S, IsFiniteSet(S), NEW V, NEW base \in V,
           NEW pick, \A s \in SUBSET S : s # {} => pick[s] \in s,
           NEW step \in [(SUBSET S) \X V -> V]
    PROVE  \E h \in [SUBSET S -> V] : Recurs(h, base, pick, step, SUBSET S)
<1> DEFINE Has(n) == \E h \in [UpTo(S, n) -> V] : Recurs(h, base, pick, step, UpTo(S, n))
           Wrong == {n \in Nat : ~Has(n)}
<1>1. Wrong = {}
  <2> SUFFICES ASSUME Wrong # {} PROVE FALSE
    OBVIOUS
  <2>1. PICK n \in Wrong : \A k \in Wrong : n <= k
    <3>1. Wrong \subseteq Nat
      OBVIOUS
    <3> HIDE DEF Wrong
    <3> QED
      BY <3>1, LeastNatural
  <2>2. CASE n = 0
    <3>1. UpTo(S, 0) = {{}}
      <4>1. \A s \in SUBSET S : Cardinality(s) \in Nat /\ (Cardinality(s) = 0 <=> s = {})
        BY FS_Subset, FS_EmptySet, FS_CardinalityType
      <4> QED
        BY <4>1, FS_EmptySet DEF UpTo
    <3> DEFINE g == [s \in {{}} |-> base]
    <3>2. Recurs(g, base, pick, step, {{}}) /\ g \in [{{}} -> V]
      BY DEF Recurs
    <3> HIDE DEF g
    <3>3. \E h \in [{{}} -> V] : Recurs(h, base, pick, step, {{}})
      BY <3>2
    <3>4. UpTo(S, n) = {{}}
      BY <2>2, <3>1
    <3>5. Has(n)
      BY <3>3, <3>4
    <3> QED
      BY <2>1, <3>5
  <2>3. CASE n # 0
    <3>1. n - 1 \in Nat /\ n - 1 \notin Wrong /\ n = (n - 1) + 1
      BY <2>1, <2>3
    <3>2. PICK h \in [UpTo(S, n - 1) -> V] : Recurs(h, base, pick, step, UpTo(S, n - 1))
      BY <3>1
    <3> DEFINE g == [s \in UpTo(S, n) |-> IF s = {} THEN base ELSE step[<<s, h[s \ {pick[s]}]>>]]
    <3>3. ASSUME NEW s \in UpTo(S, n), s # {}
          PROVE  g[s \ {pick[s]}] = h[s \ {pick[s]}] /\ h[s \ {pick[s]}] \in V
      <4>1. s \in SUBSET S /\ pick[s] \in s
        BY <3>3 DEF UpTo
      <4>2. s \ {pick[s]} \in UpTo(S, n - 1)
        BY <3>1, <4>1, SmallerSubset DEF UpTo
      <4> DEFINE t == s \ {pick[s]}
      <4>3. t \in UpTo(S, n)
        BY <3>1, <4>1, <4>2, SmallerSubset DEF UpTo
      <4> HIDE DEF t
      <4>4. h[t] = IF t = {} THEN base ELSE step[<<t, h[t \ {pick[t]}]>>]
        BY <3>2, <4>2 DEF Recurs, t
      <4>5. g[t] = h[t]
        BY <4>3, <4>4
      <4> QED
        BY <3>2, <4>2, <4>5 DEF t
    <3>4. Recurs(g, base, pick, step, UpTo(S, n))
      BY <3>3 DEF Recurs
    <3>5. g \in [UpTo(S, n) -> V]
      <4>1. ASSUME NEW s \in UpTo(S, n), s # {} PROVE step[<<s, h[s \ {pick[s]}]>>] \in V
        <5>1. <<s, h[s \ {pick[s]}]>> \in (SUBSET S) \X V
          BY <3>3, <4>1 DEF UpTo
        <5> QED
          BY <5>1
      <4> QED
        BY <4>1
    <3> HIDE DEF g
    <3> QED
      BY <2>1, <3>4, <3>5
  <2> QED
    BY <2>2, <2>3
<1>2. Cardinality(S) \in Nat /\ UpTo(S, Cardinality(S)) = SUBSET S
  BY FS_Subset, FS_CardinalityType DEF UpTo
<1>3. Has(Cardinality(S))
  BY <1>1, <1>2
<1> QED
  BY <1>2, <1>3

LEMMA MostIsOne ==
    ASSUME NEW S, S \subseteq Nat, S # {}, IsFiniteSet(S)
    PROVE  Max(S) \in S /\ \A n \in S : n <= Max(S)
<1> DEFINE HasMost(T) == \E m \in T : \A n \in T : n <= m
           C == {T \in SUBSET S : T # {} /\ ~HasMost(T)}
<1>1. C = {}
  <2> SUFFICES ASSUME C # {} PROVE FALSE
    OBVIOUS
  <2>1. \A T \in C : IsFiniteSet(T)
    BY FS_Subset
  <2>2. PICK T \in C : \A U \in C : Cardinality(T) <= Cardinality(U)
    <3> HIDE DEF C
    <3> QED
      BY <2>1, SmallestSet
  <2>3. PICK x \in T : TRUE
    BY <2>2
  <2>4. Cardinality(T \ {x}) < Cardinality(T)
    <3>1. Cardinality(T \ {x}) = Cardinality(T) - 1 /\ Cardinality(T) \in Nat
      BY <2>1, <2>2, <2>3, FS_RemoveElement, FS_CardinalityType
    <3> QED
      BY <3>1
  <2>5. T \ {x} \notin C
    <3>1. IsFiniteSet(T \ {x}) /\ IsFiniteSet(T)
      BY <2>1, <2>2, FS_Subset
    <3>2. Cardinality(T \ {x}) \in Nat /\ Cardinality(T) \in Nat
      BY <3>1, FS_CardinalityType
    <3> HIDE DEF C
    <3> QED
      BY <2>2, <2>4, <3>2
  <2>6. CASE T \ {x} = {}
    BY <2>2, <2>3, <2>6
  <2>7. CASE T \ {x} # {}
    <3>1. PICK m \in T \ {x} : \A n \in T \ {x} : n <= m
      BY <2>2, <2>5, <2>7
    <3>2. x \in Nat /\ m \in Nat /\ T \subseteq Nat
      BY <2>2, <2>3, <3>1
    <3>3. HasMost(T)
      <4>1. CASE m <= x
        BY <2>3, <3>1, <3>2, <4>1
      <4>2. CASE x <= m
        BY <2>3, <3>1, <3>2, <4>2
      <4> QED
        BY <3>2, <4>1, <4>2
    <3> QED
      BY <2>2, <3>3
  <2> QED
    BY <2>6, <2>7
<1>2. PICK m \in S : \A n \in S : n <= m
  BY <1>1
<1>3. \A n \in S : m >= n
  BY <1>2
<1>4. Max(S) \in S /\ \A n \in S : Max(S) >= n
  BY <1>3 DEF Max
<1> QED
  BY <1>4

LEMMA MaxOfFirst ==
    ASSUME NEW n \in Nat, NEW i \in 1..n
    PROVE  /\ Max(1..i) = i /\ (1..i) \ {i} = 1..(i - 1)
           /\ 1..i # {} /\ 1..i \in SUBSET (1..n) /\ 1..(i - 1) \in SUBSET (1..n)
<1>1. IsFiniteSet(1..i)
  BY FS_Interval
<1>2. /\ 1..i \subseteq Nat /\ i \in 1..i
      /\ (1..i) \ {i} = 1..(i - 1)
      /\ 1..i \in SUBSET (1..n) /\ 1..(i - 1) \in SUBSET (1..n)
  OBVIOUS
<1>3. Max(1..i) \in 1..i /\ i <= Max(1..i)
  BY <1>1, <1>2, MostIsOne
<1>4. Max(1..i) = i
  BY <1>3
<1> QED
  BY <1>2, <1>4

(* A fold over a sequence of n goes through its beginnings.                *)
FoldsBy(it, base, step, n) ==
    it = [s \in SUBSET (1..n) |-> IF s = {} THEN base ELSE step[<<Max(s), it[s \ {Max(s)}]>>]]

LEMMA LastIsIn ==
    ASSUME NEW n \in Nat, NEW s \in SUBSET (1..n), s # {}
    PROVE  Max(s) \in s
<1>1. s \subseteq Nat
  OBVIOUS
<1>2. IsFiniteSet(s)
  <2>1. IsFiniteSet(1..n) /\ s \subseteq 1..n
    BY FS_Interval
  <2> HIDE DEF Max
  <2> QED
    BY <2>1, FS_Subset
<1> QED
  BY <1>1, <1>2, MostIsOne

LEMMA FoldExists ==
    ASSUME NEW n \in Nat, NEW V, NEW base \in V, NEW step \in [(1..n) \X V -> V]
    PROVE  \E it \in [SUBSET (1..n) -> V] : FoldsBy(it, base, step, n)
<1> DEFINE S == 1..n
           pick == [s \in SUBSET S |-> Max(s)]
           to == [sv \in (SUBSET S) \X V |-> IF sv[1] = {} THEN base ELSE step[<<Max(sv[1]), sv[2]>>]]
<1>1. IsFiniteSet(S)
  BY FS_Interval
<1>2. \A s \in SUBSET S : s # {} => Max(s) \in s
  BY LastIsIn
<1> HIDE DEF S
<1>3. \A s \in SUBSET S : s # {} => pick[s] \in s
  BY <1>2
<1>4. to \in [(SUBSET S) \X V -> V]
  <2>1. ASSUME NEW s \in SUBSET S, NEW v \in V
        PROVE  (IF s = {} THEN base ELSE step[<<Max(s), v>>]) \in V
    <3>1. s # {} => <<Max(s), v>> \in (1..n) \X V
      BY <1>2 DEF S
    <3> QED
      BY <3>1
  <2>2. \A sv \in (SUBSET S) \X V : (IF sv[1] = {} THEN base ELSE step[<<Max(sv[1]), sv[2]>>]) \in V
    BY <2>1
  <2> QED
    BY <2>2
<1> HIDE DEF to
<1>5. PICK it \in [SUBSET S -> V] : Recurs(it, base, pick, to, SUBSET S)
  <2> HIDE DEF pick
  <2> QED
    BY <1>1, <1>3, <1>4, RecursionExists
<1>6. ASSUME NEW s \in SUBSET S
      PROVE  it[s] = IF s = {} THEN base ELSE step[<<Max(s), it[s \ {Max(s)}]>>]
  <2>1. it[s] = IF s = {} THEN base ELSE to[<<s, it[s \ {Max(s)}]>>]
    BY <1>5 DEF Recurs
  <2>2. it[s \ {Max(s)}] \in V
    BY <1>5
  <2> QED
    BY <2>1, <2>2 DEF to
<1>7. it = [s \in SUBSET S |-> IF s = {} THEN base ELSE step[<<Max(s), it[s \ {Max(s)}]>>]]
  BY <1>5, <1>6
<1> QED
  BY <1>5, <1>7 DEF FoldsBy, S

(* What holds of the fold's base and is kept by each step holds throughout. *)
LEMMA StaysThroughout ==
    ASSUME NEW n \in Nat, NEW Wrong, 0 \notin Wrong, \A i \in 1..n : i \in Wrong => i - 1 \in Wrong
    PROVE  \A i \in 0..n : i \notin Wrong
<1> DEFINE W == {i \in 0..n : i \in Wrong}
<1> SUFFICES ASSUME W # {} PROVE FALSE
  OBVIOUS
<1>1. PICK i \in W : \A k \in W : i <= k
  <2>1. W \subseteq Nat
    OBVIOUS
  <2> HIDE DEF W
  <2> QED
    BY <2>1, LeastNatural
<1>2. i \in 1..n
  BY <1>1
<1>3. i - 1 \in W /\ i - 1 < i
  BY <1>1, <1>2
<1> QED
  BY <1>1, <1>3
-----------------------------------------------------------------------------
(* What the values of an answer are put together by: each result taken is  *)
(* put in its place, where the kind of source says which of two stays.     *)
Keep(source, prev, row) ==
    IF source = "hf_evals" THEN Pv!VerifiedThenLater(prev, row)
    ELSE IF source = "arena" THEN Pv!First(prev, row) ELSE Pv!Latest(prev, row)
SameOf(a, b) == a.metric = b.metric /\ a.size = b.size
PutIn(best, row, source) ==
    IF Pv!Has(best, row) THEN [i \in DOMAIN best |-> IF SameOf(best[i], row) THEN Keep(source, best[i], row) ELSE best[i]]
    ELSE Append(best, row)
AddTo(best, i, take, row, source) == IF take[i] THEN PutIn(best, row[i], source) ELSE best
BuildsBy(it, take, row, source, n) ==
    it = [s \in SUBSET (1..n) |-> IF s = {} THEN << >> ELSE AddTo(it[s \ {Max(s)}], Max(s), take, row, source)]

LEMMA PutIsSeq ==
    ASSUME NEW R, NEW best \in Seq(R), NEW r \in R, NEW source
    PROVE  PutIn(best, r, source) \in Seq(R)
<1>1. \A k \in DOMAIN best : best[k] \in R /\ Keep(source, best[k], r) \in R
  BY DEF Keep, Pv!VerifiedThenLater, Pv!First, Pv!Latest
<1> DEFINE put == [i \in DOMAIN best |-> IF SameOf(best[i], r) THEN Keep(source, best[i], r) ELSE best[i]]
<1>2. put \in Seq(R)
  <2>1. put \in [1..Len(best) -> R] /\ Len(best) \in Nat
    BY <1>1
  <2> HIDE DEF put
  <2> QED
    BY <2>1
<1> QED
  BY <1>2 DEF PutIn

LEMMA BuildExists ==
    ASSUME NEW n \in Nat, NEW R, NEW row \in [1..n -> R], NEW take, NEW source
    PROVE  \E it \in [SUBSET (1..n) -> Seq(R)] : BuildsBy(it, take, row, source, n)
<1> DEFINE V == Seq(R)
           step == [ib \in (1..n) \X V |-> AddTo(ib[2], ib[1], take, row, source)]
<1>1. \A i \in 1..n, b \in V : AddTo(b, i, take, row, source) \in V
  BY PutIsSeq DEF AddTo
<1>2. << >> \in V
  OBVIOUS
<1> HIDE DEF V
<1>3. step \in [(1..n) \X V -> V]
  BY <1>1
<1>4. PICK it \in [SUBSET (1..n) -> V] : FoldsBy(it, << >>, step, n)
  <2> HIDE DEF step
  <2> QED
    BY <1>2, <1>3, FoldExists
<1>5. ASSUME NEW s \in SUBSET (1..n), s # {}
      PROVE  step[<<Max(s), it[s \ {Max(s)}]>>] = AddTo(it[s \ {Max(s)}], Max(s), take, row, source)
  <2>1. Max(s) \in s
    BY <1>5, LastIsIn
  <2>2. it[s \ {Max(s)}] \in V
    BY <1>4
  <2> QED
    BY <2>1, <2>2
<1> HIDE DEF step
<1>6. BuildsBy(it, take, row, source, n)
  BY <1>4, <1>5 DEF FoldsBy, BuildsBy
<1> QED
  BY <1>4, <1>6 DEF V

(* Of two results of one key, the one that stays is one of them, and       *)
(* nothing beats it that did not beat the one there before.                *)
KeepsTheBest(source, take, row, beats, n) ==
    /\ \A j \in 1..n : <<j, j>> \notin beats
    /\ \A i \in 1..n, j \in 1..n :
         (j < i /\ take[i] /\ take[j] /\ SameOf(row[j], row[i])) =>
           \E m \in {i, j} : /\ Keep(source, row[j], row[i]) = row[m]
                             /\ <<i, m>> \notin beats
                             /\ \A o \in 1..n : <<o, j>> \notin beats => <<o, m>> \notin beats

(* Of the first i results there is one of each key, which none of them     *)
(* beats.                                                                  *)
Unbeaten(r, i, take, row, beats) ==
    \E j \in 1..i : take[j] /\ r = row[j] /\ \A l \in 1..i : take[l] /\ SameOf(row[l], row[j]) => <<l, j>> \notin beats
OneOfEachKey(best) == \A k, l \in DOMAIN best : SameOf(best[k], best[l]) => k = l
Stands(best, i, take, row, beats) ==
    /\ OneOfEachKey(best)
    /\ \A k \in DOMAIN best : Unbeaten(best[k], i, take, row, beats)
    /\ \A l \in 1..i : take[l] => Pv!Has(best, row[l])

LEMMA HasIs ==
    ASSUME NEW best, NEW r
    PROVE  Pv!Has(best, r) <=> \E k \in DOMAIN best : SameOf(best[k], r)
BY DEF Pv!Has, Pv!ToSet, SameOf

LEMMA AddStands ==
    ASSUME NEW n \in Nat, NEW R, NEW row \in [1..n -> R], NEW take, NEW source, NEW beats,
           KeepsTheBest(source, take, row, beats, n),
           NEW i \in 1..n, NEW best \in Seq(R), Stands(best, i - 1, take, row, beats)
    PROVE  Stands(AddTo(best, i, take, row, source), i, take, row, beats)
<1> DEFINE next == AddTo(best, i, take, row, source)
<1>0. /\ i - 1 \in Nat /\ 1..i = (1..(i - 1)) \cup {i} /\ i \notin 1..(i - 1) /\ 1..(i - 1) \subseteq 1..n
      /\ \A j \in 1..(i - 1) : j < i
  OBVIOUS
<1>1. CASE ~take[i]
  <2>1. next = best
    BY <1>1 DEF AddTo
  <2>2. \A r : Unbeaten(r, i - 1, take, row, beats) => Unbeaten(r, i, take, row, beats)
    BY <1>0, <1>1 DEF Unbeaten
  <2> HIDE DEF next
  <2> QED
    BY <1>0, <1>1, <2>1, <2>2 DEF Stands, next
<1>2. CASE take[i] /\ ~Pv!Has(best, row[i])
  <2>1. next = Append(best, row[i])
    BY <1>2 DEF AddTo, PutIn
  <2>2. /\ DOMAIN next = (DOMAIN best) \cup {Len(best) + 1} /\ Len(best) + 1 \notin DOMAIN best
        /\ next[Len(best) + 1] = row[i] /\ \A k \in DOMAIN best : next[k] = best[k]
    BY <2>1
  <2> HIDE DEF next
  <2>3. \A k \in DOMAIN best : ~SameOf(best[k], row[i]) /\ ~SameOf(row[i], best[k])
    BY <1>2, HasIs DEF SameOf
  <2>4. OneOfEachKey(next)
    BY <2>2, <2>3 DEF Stands, OneOfEachKey
  <2>5. \A l \in 1..(i - 1) : take[l] => ~SameOf(row[l], row[i])
    <3> SUFFICES ASSUME NEW l \in 1..(i - 1), take[l], SameOf(row[l], row[i]) PROVE FALSE
      OBVIOUS
    <3>1. PICK k \in DOMAIN best : SameOf(best[k], row[l])
      BY HasIs DEF Stands
    <3>2. SameOf(best[k], row[i])
      BY <3>1 DEF SameOf
    <3> QED
      BY <2>3, <3>2
  <2>6. Unbeaten(row[i], i, take, row, beats)
    <3>1. \A l \in 1..i : take[l] /\ SameOf(row[l], row[i]) => <<l, i>> \notin beats
      BY <1>0, <2>5 DEF KeepsTheBest
    <3> QED
      BY <1>2, <3>1 DEF Unbeaten
  <2>7. ASSUME NEW k \in DOMAIN best PROVE Unbeaten(best[k], i, take, row, beats)
    <3>1. PICK j \in 1..(i - 1) : /\ take[j] /\ best[k] = row[j]
                                  /\ \A l \in 1..(i - 1) : take[l] /\ SameOf(row[l], row[j]) => <<l, j>> \notin beats
      BY DEF Stands, Unbeaten
    <3>2. ~SameOf(row[i], row[j])
      BY <2>3, <3>1
    <3> QED
      BY <1>0, <3>1, <3>2 DEF Unbeaten
  <2>8. ASSUME NEW l \in 1..i, take[l] PROVE Pv!Has(next, row[l])
    <3>1. CASE l = i
      <4>1. SameOf(next[Len(best) + 1], row[i])
        BY <2>2 DEF SameOf
      <4> QED
        BY <2>2, <3>1, <4>1, HasIs
    <3>2. CASE l # i
      <4>1. l \in 1..(i - 1)
        BY <1>0, <3>2
      <4>2. PICK k \in DOMAIN best : SameOf(best[k], row[l])
        BY <2>8, <4>1, HasIs DEF Stands
      <4> QED
        BY <2>2, <4>2, HasIs
    <3> QED
      BY <3>1, <3>2
  <2>9. \A k \in DOMAIN next : Unbeaten(next[k], i, take, row, beats)
    BY <2>2, <2>6, <2>7
  <2> QED
    BY <2>4, <2>8, <2>9 DEF Stands, next
<1>3. CASE take[i] /\ Pv!Has(best, row[i])
  <2>1. next = [k \in DOMAIN best |-> IF SameOf(best[k], row[i]) THEN Keep(source, best[k], row[i]) ELSE best[k]]
    BY <1>3 DEF AddTo, PutIn
  <2>2. DOMAIN next = DOMAIN best
    BY <2>1
  <2>3. ASSUME NEW k \in DOMAIN best
        PROVE  SameOf(next[k], best[k]) /\ SameOf(best[k], next[k]) /\ Unbeaten(next[k], i, take, row, beats)
    <3>1. PICK j \in 1..(i - 1) : /\ take[j] /\ best[k] = row[j]
                                  /\ \A l \in 1..(i - 1) : take[l] /\ SameOf(row[l], row[j]) => <<l, j>> \notin beats
      BY DEF Stands, Unbeaten
    <3>2. j \in 1..n /\ j < i
      BY <1>0
    <3> HIDE DEF next
    <3>3. CASE SameOf(best[k], row[i])
      <4>1. SameOf(row[j], row[i]) /\ next[k] = Keep(source, row[j], row[i])
        BY <2>1, <3>1, <3>3
      <4>2. PICK m \in {i, j} : /\ Keep(source, row[j], row[i]) = row[m]
                                /\ <<i, m>> \notin beats
                                /\ \A o \in 1..n : <<o, j>> \notin beats => <<o, m>> \notin beats
        BY <1>3, <3>1, <3>2, <4>1 DEF KeepsTheBest
      <4>3. m \in 1..i /\ take[m] /\ next[k] = row[m] /\ SameOf(row[m], row[j]) /\ SameOf(row[j], row[m])
        BY <1>0, <1>3, <3>1, <4>1, <4>2 DEF SameOf
      <4>4. \A l \in 1..i : take[l] /\ SameOf(row[l], row[m]) => <<l, m>> \notin beats
        <5> SUFFICES ASSUME NEW l \in 1..i, take[l], SameOf(row[l], row[m]) PROVE <<l, m>> \notin beats
          OBVIOUS
        <5>1. CASE l = i
          BY <4>2, <5>1
        <5>2. CASE l # i
          <6>1. l \in 1..(i - 1) /\ l \in 1..n
            BY <1>0, <5>2
          <6>2. SameOf(row[l], row[j])
            BY <4>3 DEF SameOf
          <6> QED
            BY <3>1, <4>2, <6>1, <6>2
        <5> QED
          BY <5>1, <5>2
      <4>5. Unbeaten(next[k], i, take, row, beats)
        BY <4>3, <4>4 DEF Unbeaten
      <4> QED
        BY <3>1, <4>3, <4>5
    <3>4. CASE ~SameOf(best[k], row[i])
      <4>1. next[k] = best[k]
        BY <2>1, <3>4
      <4>2. ~SameOf(row[i], row[j])
        BY <3>1, <3>4 DEF SameOf
      <4>3. Unbeaten(next[k], i, take, row, beats)
        BY <1>0, <3>1, <4>1, <4>2 DEF Unbeaten
      <4> QED
        BY <4>1, <4>3 DEF SameOf
    <3> QED
      BY <3>3, <3>4
  <2> HIDE DEF next
  <2>4. OneOfEachKey(next)
    <3> SUFFICES ASSUME NEW k \in DOMAIN best, NEW l \in DOMAIN best, SameOf(next[k], next[l]) PROVE k = l
      BY <2>2 DEF OneOfEachKey
    <3>1. SameOf(best[k], best[l])
      <4>1. SameOf(best[k], next[k]) /\ SameOf(next[l], best[l])
        BY <2>3
      <4> QED
        BY <4>1 DEF SameOf
    <3> QED
      BY <3>1 DEF Stands, OneOfEachKey
  <2>5. ASSUME NEW l \in 1..i, take[l] PROVE Pv!Has(next, row[l])
    <3>1. PICK k \in DOMAIN best : SameOf(best[k], row[l])
      <4>1. CASE l = i
        BY <1>3, <4>1, HasIs
      <4>2. CASE l # i
        <5>1. l \in 1..(i - 1)
          BY <1>0, <4>2
        <5> QED
          BY <2>5, <5>1, HasIs DEF Stands
      <4> QED
        BY <4>1, <4>2
    <3>2. SameOf(next[k], row[l])
      <4>1. SameOf(next[k], best[k])
        BY <2>3
      <4> QED
        BY <3>1, <4>1 DEF SameOf
    <3> QED
      BY <2>2, <3>2, HasIs
  <2>6. \A k \in DOMAIN next : Unbeaten(next[k], i, take, row, beats)
    BY <2>2, <2>3
  <2> QED
    BY <2>4, <2>5, <2>6 DEF Stands, next
<1> QED
  BY <1>1, <1>2, <1>3

LEMMA BuildStands ==
    ASSUME NEW n \in Nat, NEW R, NEW row \in [1..n -> R], NEW take, NEW source, NEW beats,
           KeepsTheBest(source, take, row, beats, n), NEW it, BuildsBy(it, take, row, source, n)
    PROVE  it[1..n] \in Seq(R) /\ Stands(it[1..n], n, take, row, beats)
<1> DEFINE Fine(i) == it[1..i] \in Seq(R) /\ Stands(it[1..i], i, take, row, beats)
           Wrong == {i \in 0..n : ~Fine(i)}
<1>1. ASSUME NEW i \in 1..n PROVE it[1..i] = AddTo(it[1..(i - 1)], i, take, row, source)
  <2>1. Max(1..i) = i /\ (1..i) \ {i} = 1..(i - 1) /\ 1..i # {} /\ 1..i \in SUBSET (1..n)
    BY MaxOfFirst
  <2> QED
    BY <2>1 DEF BuildsBy
<1>2. Fine(0)
  <2>1. 1..0 = {} /\ it[{}] = << >>
    BY DEF BuildsBy
  <2>2. it[1..0] = << >>
    BY <2>1
  <2>3. Stands(<< >>, 0, take, row, beats)
    BY <2>1 DEF Stands, OneOfEachKey
  <2> QED
    BY <2>2, <2>3
<1>3. ASSUME NEW i \in 1..n, Fine(i - 1) PROVE Fine(i)
  <2> DEFINE best == it[1..(i - 1)]
  <2>1. best \in Seq(R) /\ Stands(best, i - 1, take, row, beats)
    BY <1>3
  <2>2. it[1..i] = AddTo(best, i, take, row, source)
    BY <1>1
  <2> HIDE DEF best
  <2>3. Stands(it[1..i], i, take, row, beats)
    BY <2>1, <2>2, AddStands
  <2>4. it[1..i] \in Seq(R)
    <3>1. row[i] \in R
      OBVIOUS
    <3> QED
      BY <2>1, <2>2, <3>1, PutIsSeq DEF AddTo
  <2> QED
    BY <2>3, <2>4
<1> HIDE DEF Fine
<1>4. 0 \notin Wrong /\ \A i \in 1..n : i \in Wrong => i - 1 \in Wrong
  BY <1>2, <1>3
<1>5. n \in 0..n
  OBVIOUS
<1>6. n \notin Wrong
  <2> HIDE DEF Wrong
  <2> QED
    BY <1>4, <1>5, StaysThroughout
<1> QED
  BY <1>5, <1>6 DEF Fine

-----------------------------------------------------------------------------
(* What is put together of each kind of answer.                            *)
(* A repository's results.                                                 *)
IsList(row, n) == row = [i \in 1..n |-> row[i]]
Builds(rows, take, row, source, n) == \E it : BuildsBy(it, take, row, source, n) /\ rows = it[1..n]
HFTakes(take, row, repo, size, items, changed, n) ==
    \A i \in 1..n : take[i] = Pv!Taken(items[i], changed) /\ row[i] = Pv!HFRow(repo, size, items[i], changed)

LEMMA HFBuilds ==
    ASSUME NEW items, NEW n \in Nat, DOMAIN items = 1..n, NEW repo, NEW size, NEW changed,
           NEW take, NEW row, IsList(row, n), HFTakes(take, row, repo, size, items, changed, n)
    PROVE  Builds(Pv!HFModel(repo, size, items, changed), take, row, "hf_evals", n)
<1> DEFINE P(it) == it = [s \in SUBSET (1..n) |->
                            IF s = {} THEN << >>
                            ELSE IF Pv!Taken(items[Pv!Max(s)], changed)
                                 THEN Pv!Put(it[s \ {Pv!Max(s)}], Pv!HFRow(repo, size, items[Pv!Max(s)], changed), Pv!VerifiedThenLater)
                                 ELSE it[s \ {Pv!Max(s)}]]
           loop == CHOOSE it : P(it)
<1>1. ASSUME NEW s \in SUBSET (1..n), s # {}
      PROVE  Max(s) \in 1..n /\ Max(s) = Pv!Max(s)
  BY <1>1, LastIsIn DEF Max, Pv!Max
<1>2. ASSUME NEW it, NEW s \in SUBSET (1..n), s # {}
      PROVE  AddTo(it[s \ {Max(s)}], Max(s), take, row, "hf_evals") =
               IF Pv!Taken(items[Pv!Max(s)], changed)
               THEN Pv!Put(it[s \ {Pv!Max(s)}], Pv!HFRow(repo, size, items[Pv!Max(s)], changed), Pv!VerifiedThenLater)
               ELSE it[s \ {Pv!Max(s)}]
  <2> SUFFICES ASSUME NEW m, m \in 1..n, NEW b
               PROVE  AddTo(b, m, take, row, "hf_evals") =
                        IF Pv!Taken(items[m], changed) THEN Pv!Put(b, Pv!HFRow(repo, size, items[m], changed), Pv!VerifiedThenLater) ELSE b
    BY <1>1, <1>2
  <2>1. take[m] = Pv!Taken(items[m], changed) /\ row[m] = Pv!HFRow(repo, size, items[m], changed)
    BY DEF HFTakes
  <2> QED
    BY <2>1 DEF AddTo, PutIn, Pv!Put, SameOf, Keep
<1>3. \A it : BuildsBy(it, take, row, "hf_evals", n) <=> P(it)
  BY <1>2 DEF BuildsBy
<1>4. row \in [1..n -> {row[i] : i \in 1..n}]
  <2>1. [i \in 1..n |-> row[i]] \in [1..n -> {row[i] : i \in 1..n}]
    OBVIOUS
  <2> QED
    BY <2>1 DEF IsList
<1> HIDE DEF P
<1>5. \E it : BuildsBy(it, take, row, "hf_evals", n)
  BY <1>4, BuildExists
<1>6. P(loop)
  BY <1>3, <1>5
<1>7. Pv!HFModel(repo, size, items, changed) = loop[1..n]
  BY DEF Pv!HFModel, Pv!FoldLeft, Pv!MapThenFoldSet, P
<1> QED
  BY <1>3, <1>6, <1>7 DEF Builds

(* The runs of a benchmark's file.                                         *)
EpochTakes(r, published) == Alias[r.name] # 0 /\ r.value # {} /\ Pv!DateOf(r, published) # 0
EpochRow(metric, r, published) ==
    Pv!Row("epoch", r.name, Alias[r.name], metric, Pv!Max(r.value), "independent", Pv!DateOf(r, published))

EpochTakesAll(take, row, metric, items, published, n) ==
    \A i \in 1..n : take[i] = EpochTakes(items[i], published) /\ row[i] = EpochRow(metric, items[i], published)

LEMMA EpochBuilds ==
    ASSUME NEW items, NEW n \in Nat, DOMAIN items = 1..n, NEW metric, NEW published,
           NEW take, NEW row, IsList(row, n), EpochTakesAll(take, row, metric, items, published, n)
    PROVE  Builds(Pv!EpochFile(metric, items, published), take, row, "epoch", n)
<1> DEFINE P(it) == it = [s \in SUBSET (1..n) |->
                            IF s = {} THEN << >>
                            ELSE IF EpochTakes(items[Pv!Max(s)], published)
                                 THEN Pv!Put(it[s \ {Pv!Max(s)}], EpochRow(metric, items[Pv!Max(s)], published), Pv!Latest)
                                 ELSE it[s \ {Pv!Max(s)}]]
           loop == CHOOSE it : P(it)
<1>1. ASSUME NEW s \in SUBSET (1..n), s # {}
      PROVE  Max(s) \in 1..n /\ Max(s) = Pv!Max(s)
  BY <1>1, LastIsIn DEF Max, Pv!Max
<1>2. ASSUME NEW it, NEW s \in SUBSET (1..n), s # {}
      PROVE  AddTo(it[s \ {Max(s)}], Max(s), take, row, "epoch") =
               IF EpochTakes(items[Pv!Max(s)], published)
               THEN Pv!Put(it[s \ {Pv!Max(s)}], EpochRow(metric, items[Pv!Max(s)], published), Pv!Latest)
               ELSE it[s \ {Pv!Max(s)}]
  <2> SUFFICES ASSUME NEW m, m \in 1..n, NEW b
               PROVE  AddTo(b, m, take, row, "epoch") =
                        IF EpochTakes(items[m], published) THEN Pv!Put(b, EpochRow(metric, items[m], published), Pv!Latest) ELSE b
    BY <1>1, <1>2
  <2>1. take[m] = EpochTakes(items[m], published) /\ row[m] = EpochRow(metric, items[m], published)
    BY DEF EpochTakesAll
  <2> QED
    BY <2>1 DEF AddTo, PutIn, Pv!Put, SameOf, Keep
<1>3. \A it : BuildsBy(it, take, row, "epoch", n) <=> P(it)
  BY <1>2 DEF BuildsBy
<1>4. row \in [1..n -> {row[i] : i \in 1..n}]
  <2>1. [i \in 1..n |-> row[i]] \in [1..n -> {row[i] : i \in 1..n}]
    OBVIOUS
  <2> QED
    BY <2>1 DEF IsList
<1> HIDE DEF P
<1>5. \E it : BuildsBy(it, take, row, "epoch", n)
  BY <1>4, BuildExists
<1>6. P(loop)
  BY <1>3, <1>5
<1>7. Pv!EpochFile(metric, items, published) = loop[1..n]
  BY DEF Pv!EpochFile, EpochTakes, EpochRow, Pv!FoldLeft, Pv!MapThenFoldSet, P
<1> QED
  BY <1>3, <1>6, <1>7 DEF Builds

(* The rows of a board, by their ranks.                                    *)
ArenaTakes(r) == Alias[r.name] # 0 /\ r.value # {} /\ r.date # 0
ArenaRow(metric, r) == Pv!Row("arena", r.name, Alias[r.name], metric, Pv!Max(r.value), "crowd", r.date)

ArenaTakesAll(take, row, metric, items, n) ==
    \A i \in 1..n : take[i] = ArenaTakes(items[i]) /\ row[i] = ArenaRow(metric, items[i])

LEMMA ArenaBuilds ==
    ASSUME NEW board, NEW items, items = Pv!ByRank(board), NEW n \in Nat, DOMAIN items = 1..n, NEW metric,
           NEW take, NEW row, IsList(row, n), ArenaTakesAll(take, row, metric, items, n)
    PROVE  Builds(Pv!ArenaBoard(metric, board), take, row, "arena", n)
<1> DEFINE P(it) == it = [s \in SUBSET (1..n) |->
                            IF s = {} THEN << >>
                            ELSE IF ArenaTakes(items[Pv!Max(s)])
                                 THEN Pv!Put(it[s \ {Pv!Max(s)}], ArenaRow(metric, items[Pv!Max(s)]), Pv!First)
                                 ELSE it[s \ {Pv!Max(s)}]]
           loop == CHOOSE it : P(it)
<1>1. ASSUME NEW s \in SUBSET (1..n), s # {}
      PROVE  Max(s) \in 1..n /\ Max(s) = Pv!Max(s)
  BY <1>1, LastIsIn DEF Max, Pv!Max
<1>2. ASSUME NEW it, NEW s \in SUBSET (1..n), s # {}
      PROVE  AddTo(it[s \ {Max(s)}], Max(s), take, row, "arena") =
               IF ArenaTakes(items[Pv!Max(s)])
               THEN Pv!Put(it[s \ {Pv!Max(s)}], ArenaRow(metric, items[Pv!Max(s)]), Pv!First)
               ELSE it[s \ {Pv!Max(s)}]
  <2> SUFFICES ASSUME NEW m, m \in 1..n, NEW b
               PROVE  AddTo(b, m, take, row, "arena") =
                        IF ArenaTakes(items[m]) THEN Pv!Put(b, ArenaRow(metric, items[m]), Pv!First) ELSE b
    BY <1>1, <1>2
  <2>1. take[m] = ArenaTakes(items[m]) /\ row[m] = ArenaRow(metric, items[m])
    BY DEF ArenaTakesAll
  <2> QED
    BY <2>1 DEF AddTo, PutIn, Pv!Put, SameOf, Keep
<1>3. \A it : BuildsBy(it, take, row, "arena", n) <=> P(it)
  BY <1>2 DEF BuildsBy
<1>4. row \in [1..n -> {row[i] : i \in 1..n}]
  <2>1. [i \in 1..n |-> row[i]] \in [1..n -> {row[i] : i \in 1..n}]
    OBVIOUS
  <2> QED
    BY <2>1 DEF IsList
<1> HIDE DEF P
<1>5. \E it : BuildsBy(it, take, row, "arena", n)
  BY <1>4, BuildExists
<1>6. P(loop)
  BY <1>3, <1>5
<1>7. Pv!ArenaBoard(metric, board) = loop[1..n]
  BY DEF Pv!ArenaBoard, ArenaTakes, ArenaRow, Pv!FoldLeft, Pv!MapThenFoldSet, P
<1> QED
  BY <1>3, <1>6, <1>7 DEF Builds

-----------------------------------------------------------------------------
(* What stays of an answer beats what it is compared with.                 *)
Beats(source, cand, n) == {ij \in (1..n) \X (1..n) : Pv!Outranks(source, cand[ij[1]], cand[ij[2]])}
Speaking(a, n, take, row, cand) ==
    \A j \in 1..n : take[j] =>
        /\ cand[j] \in Pv!OfRow(a, row[j])
        /\ \A d \in Pv!Candidates(a, row[j]) : \E l \in 1..n : take[l] /\ SameOf(row[l], row[j]) /\ d = cand[l]

LEMMA BestOfRows ==
    ASSUME NEW a, NEW n \in Nat, NEW take, NEW row, NEW cand, Speaking(a, n, take, row, cand),
           NEW rows, rows = Pv!Rows(a), Stands(rows, n, take, row, Beats(a.source, cand, n))
    PROVE  Pv!TheBestStands(a)
<1>1. \A i, j \in DOMAIN rows : (rows[i].metric = rows[j].metric /\ rows[i].size = rows[j].size) => i = j
  BY DEF Stands, OneOfEachKey, SameOf
<1>2. ASSUME NEW i \in DOMAIN rows
      PROVE  \E c \in Pv!OfRow(a, rows[i]) : \A d \in Pv!Candidates(a, rows[i]) : ~Pv!Outranks(a.source, d, c)
  <2>1. PICK j \in 1..n : /\ take[j] /\ rows[i] = row[j]
                          /\ \A l \in 1..n : take[l] /\ SameOf(row[l], row[j]) => <<l, j>> \notin Beats(a.source, cand, n)
    BY DEF Stands, Unbeaten
  <2>2. cand[j] \in Pv!OfRow(a, row[j])
    BY <2>1 DEF Speaking
  <2>3. ASSUME NEW d \in Pv!Candidates(a, row[j]) PROVE ~Pv!Outranks(a.source, d, cand[j])
    <3>1. PICK l \in 1..n : take[l] /\ SameOf(row[l], row[j]) /\ d = cand[l]
      BY <2>1 DEF Speaking
    <3>2. <<l, j>> \notin Beats(a.source, cand, n)
      BY <2>1, <3>1
    <3> QED
      BY <3>1, <3>2 DEF Beats
  <2> QED
    BY <2>1, <2>2, <2>3
<1> QED
  BY <1>1, <1>2 DEF Pv!TheBestStands

LEMMA HFKeeps ==
    ASSUME NEW n \in Nat, NEW take, NEW row, NEW cand,
           \A i \in 1..n : /\ cand[i].date \in Nat /\ cand[i].verified \in BOOLEAN
                           /\ row[i].date = cand[i].date /\ (row[i].provenance = "verified") = cand[i].verified
    PROVE  KeepsTheBest("hf_evals", take, row, Beats("hf_evals", cand, n), n)
<1> DEFINE B == Beats("hf_evals", cand, n)
           Over(x, y) == (x.verified /\ ~y.verified) \/ (x.verified = y.verified /\ x.date > y.date)
<1>1. \A i, j \in 1..n : <<i, j>> \in B <=> Over(cand[i], cand[j])
  BY DEF Beats, Pv!Outranks
<1>2. \A i, j \in 1..n : Keep("hf_evals", row[j], row[i]) = IF Over(cand[i], cand[j]) THEN row[i] ELSE row[j]
  BY DEF Keep, Pv!VerifiedThenLater
<1>3. \A i \in 1..n : ~Over(cand[i], cand[i])
  OBVIOUS
<1>4. \A i, j, o \in 1..n : Over(cand[i], cand[j]) /\ ~Over(cand[o], cand[j]) => ~Over(cand[o], cand[i])
  OBVIOUS
<1> HIDE DEF Over, B
<1>5. ASSUME NEW i \in 1..n, NEW j \in 1..n
      PROVE  \E m \in {i, j} : /\ Keep("hf_evals", row[j], row[i]) = row[m] /\ <<i, m>> \notin B
                               /\ \A o \in 1..n : <<o, j>> \notin B => <<o, m>> \notin B
  <2>1. CASE Over(cand[i], cand[j])
    BY <1>1, <1>2, <1>3, <1>4, <2>1
  <2>2. CASE ~Over(cand[i], cand[j])
    BY <1>1, <1>2, <2>2
  <2> QED
    BY <2>1, <2>2
<1>6. \A j \in 1..n : <<j, j>> \notin B
  BY <1>1, <1>3
<1> QED
  BY <1>5, <1>6 DEF KeepsTheBest, B

LEMMA EpochKeeps ==
    ASSUME NEW n \in Nat, NEW take, NEW row, NEW cand,
           \A i \in 1..n : cand[i].date \in Nat /\ cand[i].verified = FALSE /\ row[i].date = cand[i].date
    PROVE  KeepsTheBest("epoch", take, row, Beats("epoch", cand, n), n)
<1> DEFINE B == Beats("epoch", cand, n)
<1>1. \A i, j \in 1..n : <<i, j>> \in B <=> cand[i].date > cand[j].date
  BY DEF Beats, Pv!Outranks
<1>2. \A i, j \in 1..n : Keep("epoch", row[j], row[i]) = IF cand[i].date >= cand[j].date THEN row[i] ELSE row[j]
  BY DEF Keep, Pv!Latest
<1> HIDE DEF B
<1>5. ASSUME NEW i \in 1..n, NEW j \in 1..n
      PROVE  \E m \in {i, j} : /\ Keep("epoch", row[j], row[i]) = row[m] /\ <<i, m>> \notin B
                               /\ \A o \in 1..n : <<o, j>> \notin B => <<o, m>> \notin B
  <2>1. CASE cand[i].date >= cand[j].date
    BY <1>1, <1>2, <2>1
  <2>2. CASE ~(cand[i].date >= cand[j].date)
    BY <1>1, <1>2, <2>2
  <2> QED
    BY <2>1, <2>2
<1>6. \A j \in 1..n : <<j, j>> \notin B
  BY <1>1
<1> QED
  BY <1>5, <1>6 DEF KeepsTheBest, B

(* On a board the first stays, so its rows have to be in their order.      *)
LEMMA ArenaKeeps ==
    ASSUME NEW n \in Nat, NEW take, NEW row, NEW cand,
           \A j, i \in 1..n : j <= i => ~Pv!Ahead(cand[i], cand[j])
    PROVE  KeepsTheBest("arena", take, row, Beats("arena", cand, n), n)
<1> DEFINE B == Beats("arena", cand, n)
<1>1. \A i, j \in 1..n : j <= i => <<i, j>> \notin B
  BY DEF Beats, Pv!Outranks
<1>2. \A i, j \in 1..n : Keep("arena", row[j], row[i]) = row[j]
  BY DEF Keep, Pv!First
<1> HIDE DEF B
<1> QED
  BY <1>1, <1>2 DEF KeepsTheBest, B

-----------------------------------------------------------------------------
(* The rows of an answer: one of a metric and size, of what was asked.     *)
RowsOK(a, rows) ==
    /\ \E n \in Nat : DOMAIN rows = 1..n
    /\ OneOfEachKey(rows)
    /\ \A k \in DOMAIN rows : Pv!InScope(a, rows[k]) /\ rows[k].value \in Int /\ (a.source = "hf_evals" => rows[k].size = rows[k].name)

LEMMA OnlyOne ==
    ASSUME NEW S, S \subseteq Int, NEW found, Pv!Maybe(found, S), found # {}
    PROVE  Pv!Max(found) \in S /\ found = {Pv!Max(found)}
<1>1. PICK x \in found : x \in S /\ found = {x}
  BY DEF Pv!Maybe
<1> QED
  BY <1>1 DEF Pv!Max

RowsFit(a, take, row, n) ==
    \A j \in 1..n : take[j] => /\ Pv!InScope(a, row[j]) /\ row[j].value \in Int
                               /\ a.source = "hf_evals" => row[j].size = row[j].name

LEMMA RowsAreOK ==
    ASSUME NEW a, NEW n \in Nat, NEW R, NEW take, NEW row, NEW beats,
           NEW rows, rows \in Seq(R), Stands(rows, n, take, row, beats),
           RowsFit(a, take, row, n)
    PROVE  RowsOK(a, rows)
<1>1. DOMAIN rows = 1..Len(rows) /\ Len(rows) \in Nat
  OBVIOUS
<1>2. \A k \in DOMAIN rows : \E j \in 1..n : take[j] /\ rows[k] = row[j]
  BY DEF Stands, Unbeaten
<1> QED
  BY <1>1, <1>2 DEF Stands, RowsOK, RowsFit


LEMMA HFAnswer ==
    ASSUME NEW a, Pv!AnswerOK(a), a.source = "hf_evals"
    PROVE  Pv!TheBestStands(a) /\ RowsOK(a, Pv!Rows(a))
<1> DEFINE n == Len(a.items)
           take == [i \in 1..n |-> Pv!Taken(a.items[i], a.date)]
           row == [i \in 1..n |-> Pv!HFRow(a.name, a.name, a.items[i], a.date)]
           cand == [i \in 1..n |-> [verified |-> a.items[i].verified, date |-> Pv!DateOf(a.items[i], a.date), rank |-> {}]]
           R == {row[i] : i \in 1..n}
           beats == Beats("hf_evals", cand, n)
<1>1. /\ n \in Nat /\ DOMAIN a.items = 1..n /\ a.date \in Nat /\ a.name # 0 /\ a.metric = ""
      /\ \A i \in 1..n : a.items[i].date \in Nat /\ Pv!Maybe(a.items[i].value, Int) /\ a.items[i].verified \in BOOLEAN
  BY DEF Pv!AnswerOK
<1>2. \A i \in 1..n : /\ cand[i].date \in Nat /\ cand[i].verified \in BOOLEAN
                      /\ row[i].date = cand[i].date /\ (row[i].provenance = "verified") = cand[i].verified
  BY <1>1 DEF Pv!DateOf, Pv!HFRow, Pv!Row
<1>3. /\ n \in Nat /\ DOMAIN a.items = 1..n /\ row \in [1..n -> R]
      /\ \A i \in 1..n : take[i] = Pv!Taken(a.items[i], a.date) /\ row[i] = Pv!HFRow(a.name, a.name, a.items[i], a.date)
  BY <1>1
<1>4. Pv!Rows(a) = Pv!HFModel(a.name, a.name, a.items, a.date)
  BY DEF Pv!Rows
<1>5. PICK it : BuildsBy(it, take, row, "hf_evals", n) /\ Pv!Rows(a) = it[1..n]
  <2>1. HFTakes(take, row, a.name, a.name, a.items, a.date, n)
    BY <1>3 DEF HFTakes
  <2>2. IsList(row, n)
    BY DEF IsList
  <2> HIDE DEF take, row, n, R
  <2>3. Builds(Pv!HFModel(a.name, a.name, a.items, a.date), take, row, "hf_evals", n)
    BY <1>3, <2>1, <2>2, HFBuilds
  <2> QED
    BY <1>4, <2>3 DEF Builds
<1>6. KeepsTheBest("hf_evals", take, row, beats, n)
  <2> HIDE DEF take, row, cand, n
  <2> QED
    BY <1>1, <1>2, HFKeeps
<1>7. Pv!Rows(a) \in Seq(R) /\ Stands(Pv!Rows(a), n, take, row, beats)
  <2> HIDE DEF take, row, cand, n, R, beats
  <2>1. it[1..n] \in Seq(R) /\ Stands(it[1..n], n, take, row, beats)
    BY <1>1, <1>3, <1>5, <1>6, BuildStands
  <2> QED
    BY <1>5, <2>1
<1>8. Speaking(a, n, take, row, cand)
  <2>1. /\ \A j, l \in 1..n : SameOf(row[l], row[j]) <=> a.items[l].metric = row[j].metric
        /\ \A l \in 1..n : cand[l] = [verified |-> a.items[l].verified, date |-> Pv!DateOf(a.items[l], a.date), rank |-> {}]
    BY DEF SameOf, Pv!HFRow, Pv!Row
  <2>2. ASSUME NEW j \in 1..n
        PROVE  Pv!Candidates(a, row[j]) =
                 {[verified |-> r.verified, date |-> Pv!DateOf(r, a.date), rank |-> {}] :
                    r \in {x \in {a.items[i] : i \in 1..n} : x.metric = row[j].metric /\ Pv!Taken(x, a.date)}}
    BY <1>1 DEF Pv!Candidates
  <2> HIDE DEF take, row, cand, n
  <2>3. ASSUME NEW j \in 1..n, take[j] PROVE cand[j] \in Pv!OfRow(a, row[j])
    <3>1. a.items[j] \in {x \in {a.items[i] : i \in 1..n} : x.metric = row[j].metric /\ Pv!Taken(x, a.date)}
      <4>1. SameOf(row[j], row[j])
        BY DEF SameOf
      <4> QED
        BY <1>3, <2>1, <2>3, <4>1
    <3>2. cand[j] \in Pv!Candidates(a, row[j])
      <4>1. \A r \in {x \in {a.items[i] : i \in 1..n} : x.metric = row[j].metric /\ Pv!Taken(x, a.date)} :
              [verified |-> r.verified, date |-> Pv!DateOf(r, a.date), rank |-> {}] \in Pv!Candidates(a, row[j])
        BY <2>2
      <4> QED
        BY <2>1, <3>1, <4>1
    <3> QED
      BY <1>2, <3>2 DEF Pv!OfRow
  <2>4. ASSUME NEW j \in 1..n, NEW d \in Pv!Candidates(a, row[j])
        PROVE  \E l \in 1..n : take[l] /\ SameOf(row[l], row[j]) /\ d = cand[l]
    <3>1. PICK l \in 1..n : /\ a.items[l].metric = row[j].metric /\ Pv!Taken(a.items[l], a.date)
                            /\ d = [verified |-> a.items[l].verified, date |-> Pv!DateOf(a.items[l], a.date), rank |-> {}]
      BY <2>2
    <3> QED
      BY <1>3, <2>1, <3>1
  <2> QED
    BY <2>3, <2>4 DEF Speaking
<1>9. RowsFit(a, take, row, n)
  <2>1. \A j \in 1..n : take[j] => Pv!Max(a.items[j].value) \in Int
    BY <1>1, OnlyOne DEF Pv!Taken
  <2> QED
    BY <1>1, <2>1 DEF RowsFit, Pv!InScope, Pv!HFRow, Pv!Row
<1> HIDE DEF take, row, cand, n, R, beats
<1>10. Pv!TheBestStands(a)
  BY <1>1, <1>7, <1>8, BestOfRows DEF beats
<1>11. RowsOK(a, Pv!Rows(a))
  BY <1>1, <1>7, <1>9, RowsAreOK
<1> QED
  BY <1>10, <1>11

LEMMA EpochAnswer ==
    ASSUME NEW a, Pv!AnswerOK(a), a.source = "epoch"
    PROVE  Pv!TheBestStands(a) /\ RowsOK(a, Pv!Rows(a))
<1> DEFINE n == Len(a.items)
           take == [i \in 1..n |-> EpochTakes(a.items[i], a.date)]
           row == [i \in 1..n |-> EpochRow(a.metric, a.items[i], a.date)]
           cand == [i \in 1..n |-> [verified |-> FALSE, date |-> Pv!DateOf(a.items[i], a.date), rank |-> {}]]
           R == {row[i] : i \in 1..n}
           beats == Beats("epoch", cand, n)
<1>1. /\ n \in Nat /\ DOMAIN a.items = 1..n /\ a.date \in Nat /\ a.name = 0
      /\ \A i \in 1..n : a.items[i].date \in Nat /\ Pv!Maybe(a.items[i].value, Int)
  BY DEF Pv!AnswerOK
<1>2. \A i \in 1..n : /\ cand[i].date \in Nat /\ cand[i].verified = FALSE
                      /\ row[i].date = cand[i].date /\ row[i].provenance # "verified"
  BY <1>1 DEF Pv!DateOf, EpochRow, Pv!Row
<1>3. /\ n \in Nat /\ DOMAIN a.items = 1..n /\ row \in [1..n -> R]
      /\ \A i \in 1..n : take[i] = EpochTakes(a.items[i], a.date) /\ row[i] = EpochRow(a.metric, a.items[i], a.date)
  BY <1>1
<1>4. Pv!Rows(a) = Pv!EpochFile(a.metric, a.items, a.date)
  BY DEF Pv!Rows
<1>5. PICK it : BuildsBy(it, take, row, "epoch", n) /\ Pv!Rows(a) = it[1..n]
  <2>1. EpochTakesAll(take, row, a.metric, a.items, a.date, n)
    BY <1>3 DEF EpochTakesAll
  <2>2. IsList(row, n)
    BY DEF IsList
  <2> HIDE DEF take, row, n, R
  <2>3. Builds(Pv!EpochFile(a.metric, a.items, a.date), take, row, "epoch", n)
    BY <1>3, <2>1, <2>2, EpochBuilds
  <2> QED
    BY <1>4, <2>3 DEF Builds
<1>6. KeepsTheBest("epoch", take, row, beats, n)
  <2> HIDE DEF take, row, cand, n
  <2> QED
    BY <1>1, <1>2, EpochKeeps
<1>7. Pv!Rows(a) \in Seq(R) /\ Stands(Pv!Rows(a), n, take, row, beats)
  <2> HIDE DEF take, row, cand, n, R, beats
  <2>1. it[1..n] \in Seq(R) /\ Stands(it[1..n], n, take, row, beats)
    BY <1>1, <1>3, <1>5, <1>6, BuildStands
  <2> QED
    BY <1>5, <2>1
<1>8. Speaking(a, n, take, row, cand)
  <2>1. /\ \A j, l \in 1..n : SameOf(row[l], row[j]) <=> Alias[a.items[l].name] = row[j].size
        /\ \A l \in 1..n : cand[l] = [verified |-> FALSE, date |-> Pv!DateOf(a.items[l], a.date), rank |-> {}]
        /\ \A j \in 1..n : row[j].size # 0 <=> Alias[a.items[j].name] # 0
    BY DEF SameOf, EpochRow, Pv!Row
  <2>2. ASSUME NEW j \in 1..n
        PROVE  Pv!Candidates(a, row[j]) =
                 {[verified |-> FALSE, date |-> Pv!DateOf(r, a.date), rank |-> {}] :
                    r \in {x \in {a.items[i] : i \in 1..n} : Alias[x.name] = row[j].size /\ x.value # {} /\ Pv!DateOf(x, a.date) # 0}}
    BY <1>1 DEF Pv!Candidates
  <2> HIDE DEF take, row, cand, n
  <2>3. ASSUME NEW j \in 1..n, take[j] PROVE cand[j] \in Pv!OfRow(a, row[j])
    <3>1. a.items[j] \in {x \in {a.items[i] : i \in 1..n} : Alias[x.name] = row[j].size /\ x.value # {} /\ Pv!DateOf(x, a.date) # 0}
      <4>1. SameOf(row[j], row[j])
        BY DEF SameOf
      <4> QED
        BY <1>3, <2>1, <2>3, <4>1 DEF EpochTakes
    <3>2. cand[j] \in Pv!Candidates(a, row[j])
      <4>1. \A r \in {x \in {a.items[i] : i \in 1..n} : Alias[x.name] = row[j].size /\ x.value # {} /\ Pv!DateOf(x, a.date) # 0} :
              [verified |-> FALSE, date |-> Pv!DateOf(r, a.date), rank |-> {}] \in Pv!Candidates(a, row[j])
        BY <2>2
      <4> QED
        BY <2>1, <3>1, <4>1
    <3> QED
      BY <1>2, <3>2 DEF Pv!OfRow
  <2>4. ASSUME NEW j \in 1..n, take[j], NEW d \in Pv!Candidates(a, row[j])
        PROVE  \E l \in 1..n : take[l] /\ SameOf(row[l], row[j]) /\ d = cand[l]
    <3>1. PICK l \in 1..n : /\ Alias[a.items[l].name] = row[j].size /\ a.items[l].value # {} /\ Pv!DateOf(a.items[l], a.date) # 0
                            /\ d = [verified |-> FALSE, date |-> Pv!DateOf(a.items[l], a.date), rank |-> {}]
      BY <2>2
    <3>2. row[j].size # 0
      BY <1>3, <2>1, <2>4 DEF EpochTakes
    <3> QED
      BY <1>3, <2>1, <3>1, <3>2 DEF EpochTakes
  <2> QED
    BY <2>3, <2>4 DEF Speaking
<1>9. RowsFit(a, take, row, n)
  <2>1. \A j \in 1..n : take[j] => Pv!Max(a.items[j].value) \in Int
    BY <1>1, OnlyOne DEF EpochTakes
  <2> QED
    BY <1>1, <2>1 DEF RowsFit, Pv!InScope, EpochRow, Pv!Row
<1> HIDE DEF take, row, cand, n, R, beats
<1>10. Pv!TheBestStands(a)
  BY <1>1, <1>7, <1>8, BestOfRows DEF beats
<1>11. RowsOK(a, Pv!Rows(a))
  BY <1>1, <1>7, <1>9, RowsAreOK
<1> QED
  BY <1>10, <1>11

-----------------------------------------------------------------------------
(* A board by its ranks: ahead says of each position which are ahead of it, *)
(* and does so as an order of all of them; counting those ahead puts each  *)
(* at a place of its own, in order.                                        *)
Orders(ahead, n) ==
  /\ ahead \in [1..n -> SUBSET (1..n)]
  /\ \A i \in 1..n : i \notin ahead[i]
  /\ \A i, j \in 1..n : i # j => i \in ahead[j] \/ j \in ahead[i]
  /\ \A i, j \in 1..n : i \in ahead[j] => ahead[i] \subseteq ahead[j]
Standing(ahead, n) == [k \in 1..n |-> CHOOSE i \in 1..n : Cardinality(ahead[i]) = k - 1]

LEMMA CountsAhead ==
  ASSUME NEW n \in Nat, NEW ahead, Orders(ahead, n)
  PROVE  /\ \A i \in 1..n : Cardinality(ahead[i]) \in 0..(n - 1)
         /\ \A i, j \in 1..n : i \in ahead[j] => Cardinality(ahead[i]) < Cardinality(ahead[j])
<1>1. IsFiniteSet(1..n) /\ Cardinality(1..n) = n BY FS_Interval
<1>2. ASSUME NEW i \in 1..n PROVE IsFiniteSet(ahead[i]) /\ Cardinality(ahead[i]) \in 0..(n - 1)
  <2>1. ahead[i] \subseteq (1..n) \ {i} BY DEF Orders
  <2>2. IsFiniteSet((1..n) \ {i}) /\ Cardinality((1..n) \ {i}) = n - 1 BY <1>1, FS_RemoveElement
  <2>3. IsFiniteSet(ahead[i]) /\ Cardinality(ahead[i]) <= n - 1 BY <2>1, <2>2, FS_Subset
  <2>4. Cardinality(ahead[i]) \in Nat BY <2>3, FS_CardinalityType
  <2> QED BY <2>3, <2>4
<1>3. ASSUME NEW i \in 1..n, NEW j \in 1..n, i \in ahead[j] PROVE Cardinality(ahead[i]) < Cardinality(ahead[j])
  <2>1. ahead[i] \subseteq ahead[j] /\ ahead[i] # ahead[j] BY <1>3 DEF Orders
  <2>2. Cardinality(ahead[i]) <= Cardinality(ahead[j]) /\ Cardinality(ahead[i]) # Cardinality(ahead[j])
    BY <1>2, <2>1, FS_Subset
  <2>3. Cardinality(ahead[i]) \in Nat /\ Cardinality(ahead[j]) \in Nat BY <1>2
  <2> QED BY <2>2, <2>3
<1> QED BY <1>2, <1>3

(* Counting those ahead puts each at a place of its own, in order.         *)
LEMMA PlacesAreInOrder ==
  ASSUME NEW n \in Nat, NEW ahead, Orders(ahead, n)
  PROVE  /\ Standing(ahead, n) \in Bijection(1..n, 1..n)
         /\ \A k, l \in 1..n : k < l => Standing(ahead, n)[k] \in ahead[Standing(ahead, n)[l]]
         /\ \A k, i \in 1..n : Cardinality(ahead[i]) = k - 1 <=> i = Standing(ahead, n)[k]
<1> DEFINE count == [i \in 1..n |-> Cardinality(ahead[i]) + 1]
           place == Standing(ahead, n)
<1>1. \A i \in 1..n : Cardinality(ahead[i]) \in 0..(n - 1) /\ count[i] \in 1..n BY CountsAhead
<1>2. \A i, j \in 1..n : i \in ahead[j] => count[i] < count[j] BY <1>1, CountsAhead
<1>3. \A i, j \in 1..n : count[i] = count[j] => i = j
  <2> SUFFICES ASSUME NEW i \in 1..n, NEW j \in 1..n, count[i] = count[j], i # j PROVE FALSE OBVIOUS
  <2>1. i \in ahead[j] \/ j \in ahead[i] BY DEF Orders
  <2>2. count[i] < count[j] \/ count[j] < count[i] BY <1>2, <2>1
  <2>3. count[i] \in Nat /\ count[j] \in Nat BY <1>1
  <2> HIDE DEF count
  <2> QED BY <2>2, <2>3
<1>4. count \in Injection(1..n, 1..n) BY <1>1, <1>3 DEF Injection, IsInjective
<1>5. count \in Surjection(1..n, 1..n) 
  <2>1. IsFiniteSet(1..n) BY FS_Interval
  <2> QED BY <1>4, <2>1, FS_Injection
<1>6. ASSUME NEW k \in 1..n PROVE place[k] \in 1..n /\ count[place[k]] = k
  <2>1. PICK i \in 1..n : count[i] = k BY <1>5 DEF Surjection
  <2>2. Cardinality(ahead[i]) = k - 1
    <3>1. Cardinality(ahead[i]) + 1 = k BY <2>1
    <3>2. Cardinality(ahead[i]) \in 0..(n - 1) BY <1>1
    <3> QED BY <3>1, <3>2
  <2>3. place[k] = CHOOSE j \in 1..n : Cardinality(ahead[j]) = k - 1 BY DEF Standing
  <2>4. place[k] \in 1..n /\ Cardinality(ahead[place[k]]) = k - 1 BY <2>2, <2>3
  <2>5. count[place[k]] = (k - 1) + 1 BY <2>4
  <2> QED BY <2>4, <2>5
<1>7. place \in [1..n -> 1..n] BY <1>6 DEF Standing
<1>8. \A k, l \in 1..n : place[k] = place[l] => k = l BY <1>6
<1>9. ASSUME NEW i \in 1..n PROVE place[count[i]] = i
  <2>1. count[i] \in 1..n BY <1>1
  <2> HIDE DEF count, place
  <2>2. place[count[i]] \in 1..n /\ count[place[count[i]]] = count[i] BY <1>6, <2>1
  <2> QED BY <1>3, <2>2
<1>12. ASSUME NEW k \in 1..n, NEW i \in 1..n PROVE Cardinality(ahead[i]) = k - 1 <=> i = place[k]
  <2>1. Cardinality(ahead[i]) \in Int /\ count[i] = Cardinality(ahead[i]) + 1 BY <1>1
  <2>2. Cardinality(ahead[i]) = k - 1 <=> count[i] = k
    <3> HIDE DEF count
    <3> QED BY <2>1
  <2> HIDE DEF count, place
  <2> QED BY <1>3, <1>6, <2>2
<1> HIDE DEF count, place
<1>10. place \in Bijection(1..n, 1..n)
  <2>1. place \in Injection(1..n, 1..n) BY <1>7, <1>8 DEF Injection, IsInjective
  <2>2. place \in Surjection(1..n, 1..n) BY <1>1, <1>7, <1>9 DEF Surjection
  <2> QED BY <2>1, <2>2 DEF Bijection
<1>11. ASSUME NEW k \in 1..n, NEW l \in 1..n, k < l PROVE place[k] \in ahead[place[l]]
  <2>1. place[k] # place[l] BY <1>6, <1>11
  <2>2. place[l] \notin ahead[place[k]] BY <1>2, <1>6, <1>11
  <2> QED BY <1>6, <2>1, <2>2 DEF Orders
<1> QED BY <1>10, <1>11, <1>12 DEF place

LEMMA RanksOrder ==
    ASSUME NEW n \in Nat, NEW board, \A i \in 1..n : Pv!Maybe(board[i].rank, Nat),
           NEW ahead, ahead \in [1..n -> SUBSET (1..n)],
           \A i, j \in 1..n : i \in ahead[j] <=> Pv!Ahead(board[i], board[j]) \/ (~Pv!Ahead(board[j], board[i]) /\ i < j)
    PROVE  /\ Orders(ahead, n)
           /\ \A i, j \in 1..n : i \in ahead[j] => ~Pv!Ahead(board[j], board[i])
           /\ \A i \in 1..n : ~Pv!Ahead(board[i], board[i])
<1> DEFINE known == [i \in 1..n |-> board[i].rank # {}]
           rank == [i \in 1..n |-> IF known[i] THEN Pv!Max(board[i].rank) ELSE 0]
<1>1. ASSUME NEW i \in 1..n PROVE known[i] \in BOOLEAN /\ rank[i] \in Nat
  <2>1. known[i] => Pv!Max(board[i].rank) \in Nat
    <3>1. Pv!Maybe(board[i].rank, Nat) /\ Nat \subseteq Int
      OBVIOUS
    <3> QED
      BY <3>1, OnlyOne
  <2> QED
    BY <2>1
<1>2. \A i, j \in 1..n : Pv!Ahead(board[i], board[j]) <=> known[i] /\ (~known[j] \/ rank[i] < rank[j])
  BY DEF Pv!Ahead
<1> HIDE DEF known, rank
<1>3. \A i, j \in 1..n : i \in ahead[j] <=>
         (known[i] /\ (~known[j] \/ rank[i] < rank[j])) \/ (~(known[j] /\ (~known[i] \/ rank[j] < rank[i])) /\ i < j)
  BY <1>2
<1>4. \A i \in 1..n : i \notin ahead[i]
  BY <1>1, <1>3
<1>5. \A i, j \in 1..n : i # j => i \in ahead[j] \/ j \in ahead[i]
  BY <1>1, <1>3
<1>6. ASSUME NEW h \in 1..n, NEW i \in 1..n, NEW j \in 1..n, h \in ahead[i], i \in ahead[j]
      PROVE  h \in ahead[j]
  <2> DEFINE K(x, y) == known[x] /\ (~known[y] \/ rank[x] < rank[y])
  <2>1. \A x, y \in 1..n : x \in ahead[y] <=> K(x, y) \/ (~K(y, x) /\ x < y)
    BY <1>3
  <2>2. (K(h, i) \/ (~K(i, h) /\ h < i)) /\ (K(i, j) \/ (~K(j, i) /\ i < j))
    BY <1>6, <2>1
  <2>3. K(h, j) \/ (~K(j, h) /\ h < j)
    BY <1>1, <2>2
  <2> QED
    BY <2>1, <2>3
<1>7. \A i, j \in 1..n : i \in ahead[j] => ahead[i] \subseteq ahead[j]
  BY <1>6
<1>8. \A i, j \in 1..n : i \in ahead[j] => ~Pv!Ahead(board[j], board[i])
  BY <1>1, <1>2, <1>3
<1>9. \A i \in 1..n : ~Pv!Ahead(board[i], board[i])
  BY <1>1, <1>2
<1> QED
  BY <1>4, <1>5, <1>7, <1>8, <1>9 DEF Orders

LEMMA ByRankIs ==
    ASSUME NEW n \in Nat, NEW board, DOMAIN board = 1..n, \A i \in 1..n : Pv!Maybe(board[i].rank, Nat)
    PROVE  \E place \in Bijection(1..n, 1..n) :
             /\ Pv!ByRank(board) = [k \in 1..n |-> board[place[k]]]
             /\ \A k, l \in 1..n : k <= l => ~Pv!Ahead(board[place[l]], board[place[k]])
<1> DEFINE Before(i, j) == Pv!Ahead(board[i], board[j]) \/ (~Pv!Ahead(board[j], board[i]) /\ i < j)
           ahead == [j \in 1..n |-> {i \in 1..n : Before(i, j)}]
           place == Standing(ahead, n)
<1>1. ahead \in [1..n -> SUBSET (1..n)] /\ \A i, j \in 1..n : i \in ahead[j] <=> Before(i, j)
  OBVIOUS
<1> HIDE DEF ahead
<1>3. /\ Orders(ahead, n)
      /\ \A i, j \in 1..n : i \in ahead[j] => ~Pv!Ahead(board[j], board[i])
      /\ \A i \in 1..n : ~Pv!Ahead(board[i], board[i])
  BY <1>1, RanksOrder
<1>4. /\ place \in Bijection(1..n, 1..n)
      /\ \A k, l \in 1..n : k < l => place[k] \in ahead[place[l]]
      /\ \A k, i \in 1..n : Cardinality(ahead[i]) = k - 1 <=> i = place[k]
  BY <1>3, PlacesAreInOrder
<1> HIDE DEF place
<1>6. place \in [1..n -> 1..n]
  BY <1>4 DEF Bijection, Injection
<1>5. Pv!ByRank(board) = [k \in 1..n |-> board[place[k]]]
  <2> DEFINE counted(i) == Pv!Cardinality({j \in 1..n : Before(j, i)})
             nth(k) == CHOOSE i \in 1..n : counted(i) = k - 1
  <2>1. Pv!ByRank(board) = [k \in 1..n |-> board[nth(k)]]
    BY DEF Pv!ByRank
  <2>2. ASSUME NEW i \in 1..n PROVE counted(i) = Cardinality(ahead[i])
    <3>1. ahead[i] = {j \in 1..n : Before(j, i)}
      BY <1>1
    <3> HIDE DEF Before
    <3> QED
      BY <3>1, PvCount
  <2> HIDE DEF counted
  <2>3. ASSUME NEW k \in 1..n PROVE nth(k) = place[k]
    <3>1. place[k] \in 1..n /\ counted(place[k]) = k - 1
      BY <1>4, <1>6, <2>2
    <3>2. nth(k) \in 1..n /\ counted(nth(k)) = k - 1
      BY <3>1
    <3> HIDE DEF nth
    <3> QED
      BY <1>4, <2>2, <3>2
  <2> HIDE DEF nth
  <2> QED
    BY <2>1, <2>3
<1>7. ASSUME NEW k \in 1..n, NEW l \in 1..n, k <= l PROVE ~Pv!Ahead(board[place[l]], board[place[k]])
  <2>1. place[k] \in 1..n /\ place[l] \in 1..n
    BY <1>6
  <2>2. CASE k = l
    BY <1>3, <2>1, <2>2
  <2>3. CASE k < l
    BY <1>3, <1>4, <2>1, <2>3
  <2> QED
    BY <1>7, <2>2, <2>3
<1> QED
  BY <1>4, <1>5, <1>7

LEMMA ArenaAnswer ==
    ASSUME NEW a, Pv!AnswerOK(a), a.source = "arena"
    PROVE  Pv!TheBestStands(a) /\ RowsOK(a, Pv!Rows(a))
<1> DEFINE n == Len(a.items)
           items == Pv!ByRank(a.items)
           take == [i \in 1..n |-> ArenaTakes(items[i])]
           row == [i \in 1..n |-> ArenaRow(a.metric, items[i])]
           cand == [i \in 1..n |-> [verified |-> FALSE, date |-> items[i].date, rank |-> items[i].rank]]
           R == {row[i] : i \in 1..n}
           beats == Beats("arena", cand, n)
<1>1. /\ n \in Nat /\ DOMAIN a.items = 1..n /\ a.name = 0
      /\ \A i \in 1..n : Pv!Maybe(a.items[i].value, Int) /\ Pv!Maybe(a.items[i].rank, Nat)
  BY DEF Pv!AnswerOK
<1>2. /\ DOMAIN items = 1..n
      /\ \A k \in 1..n : \E i \in 1..n : items[k] = a.items[i]
      /\ \A i \in 1..n : \E k \in 1..n : items[k] = a.items[i]
      /\ \A k, l \in 1..n : k <= l => ~Pv!Ahead(items[l], items[k])
  <2> HIDE DEF n
  <2>1. PICK place \in Bijection(1..n, 1..n) :
             /\ items = [k \in 1..n |-> a.items[place[k]]]
             /\ \A k, l \in 1..n : k <= l => ~Pv!Ahead(a.items[place[l]], a.items[place[k]])
    BY <1>1, ByRankIs
  <2>2. place \in [1..n -> 1..n] /\ \A i \in 1..n : \E k \in 1..n : place[k] = i
    BY DEF Bijection, Injection, Surjection
  <2> HIDE DEF items
  <2> QED
    BY <2>1, <2>2
<1> HIDE DEF items
<1>3. /\ n \in Nat /\ DOMAIN items = 1..n /\ row \in [1..n -> R]
      /\ \A i \in 1..n : take[i] = ArenaTakes(items[i]) /\ row[i] = ArenaRow(a.metric, items[i])
      /\ \A i \in 1..n : cand[i] = [verified |-> FALSE, date |-> items[i].date, rank |-> items[i].rank]
  BY <1>1, <1>2
<1>4. Pv!Rows(a) = Pv!ArenaBoard(a.metric, a.items)
  BY DEF Pv!Rows
<1>5. PICK it : BuildsBy(it, take, row, "arena", n) /\ Pv!Rows(a) = it[1..n]
  <2>1. ArenaTakesAll(take, row, a.metric, items, n)
    BY <1>3 DEF ArenaTakesAll
  <2>2. IsList(row, n)
    BY DEF IsList
  <2>3. items = Pv!ByRank(a.items)
    BY DEF items
  <2> HIDE DEF take, row, n, R
  <2>4. Builds(Pv!ArenaBoard(a.metric, a.items), take, row, "arena", n)
    BY <1>3, <2>1, <2>2, <2>3, ArenaBuilds
  <2> QED
    BY <1>4, <2>4 DEF Builds
<1>6. KeepsTheBest("arena", take, row, beats, n)
  <2>1. \A j, i \in 1..n : Pv!Ahead(cand[i], cand[j]) <=> Pv!Ahead(items[i], items[j])
    BY <1>3 DEF Pv!Ahead
  <2>2. \A j, i \in 1..n : j <= i => ~Pv!Ahead(cand[i], cand[j])
    <3> HIDE DEF take, row, cand, n
    <3> QED
      BY <1>2, <2>1
  <2> HIDE DEF take, row, cand, n
  <2> QED
    BY <1>1, <2>2, ArenaKeeps
<1>7. Pv!Rows(a) \in Seq(R) /\ Stands(Pv!Rows(a), n, take, row, beats)
  <2> HIDE DEF take, row, cand, n, R, beats
  <2>1. it[1..n] \in Seq(R) /\ Stands(it[1..n], n, take, row, beats)
    BY <1>1, <1>3, <1>5, <1>6, BuildStands
  <2> QED
    BY <1>5, <2>1
<1>8. Speaking(a, n, take, row, cand)
  <2> DEFINE Of(j) == {x \in {a.items[i] : i \in 1..n} : Alias[x.name] = row[j].size /\ x.value # {} /\ x.date # 0}
             As(r) == [verified |-> FALSE, date |-> r.date, rank |-> r.rank]
  <2>1. /\ \A j, l \in 1..n : SameOf(row[l], row[j]) <=> Alias[items[l].name] = row[j].size
        /\ \A j \in 1..n : row[j].size = Alias[items[j].name] /\ row[j].date = items[j].date /\ row[j].provenance # "verified"
    BY DEF SameOf, ArenaRow, Pv!Row
  <2>2. ASSUME NEW j \in 1..n
        PROVE  Pv!Candidates(a, row[j]) = {As(r) : r \in Of(j)}
    BY <1>1 DEF Pv!Candidates
  <2> HIDE DEF take, row, cand, n
  <2>3. ASSUME NEW j \in 1..n, take[j] PROVE cand[j] \in Pv!OfRow(a, row[j])
    <3>1. items[j] \in Of(j)
      BY <1>2, <1>3, <2>1, <2>3 DEF ArenaTakes
    <3>2. cand[j] \in Pv!Candidates(a, row[j])
      <4>1. \A r \in Of(j) : As(r) \in Pv!Candidates(a, row[j])
        BY <2>2
      <4>2. As(items[j]) = cand[j]
        BY <1>3
      <4> QED
        BY <3>1, <4>1, <4>2
    <3>3. cand[j].date = row[j].date /\ cand[j].verified = FALSE
      <4>1. cand[j] = [verified |-> FALSE, date |-> items[j].date, rank |-> items[j].rank]
        BY <1>3
      <4> QED
        BY <2>1, <4>1
    <3> QED
      BY <2>1, <3>2, <3>3 DEF Pv!OfRow
  <2>4. ASSUME NEW j \in 1..n, take[j], NEW d \in Pv!Candidates(a, row[j])
        PROVE  \E l \in 1..n : take[l] /\ SameOf(row[l], row[j]) /\ d = cand[l]
    <3>1. PICK r \in Of(j) : d = As(r)
      BY <2>2
    <3>2. PICK l \in 1..n : items[l] = r
      <4>1. PICK i \in 1..n : r = a.items[i]
        OBVIOUS
      <4> QED
        BY <1>2, <4>1
    <3>3. take[l]
      BY <1>3, <2>1, <2>4, <3>1, <3>2 DEF ArenaTakes
    <3>4. SameOf(row[l], row[j]) /\ d = cand[l]
      BY <1>3, <2>1, <3>1, <3>2
    <3> QED
      BY <3>3, <3>4
  <2> QED
    BY <2>3, <2>4 DEF Speaking
<1>9. RowsFit(a, take, row, n)
  <2>1. ASSUME NEW j \in 1..n, take[j] PROVE Pv!Max(items[j].value) \in Int
    <3>1. Pv!Maybe(items[j].value, Int)
      BY <1>1, <1>2
    <3>2. items[j].value # {}
      BY <1>3, <2>1 DEF ArenaTakes
    <3> QED
      BY <3>1, <3>2, OnlyOne
  <2> QED
    BY <1>1, <2>1 DEF RowsFit, Pv!InScope, ArenaRow, Pv!Row
<1> HIDE DEF take, row, cand, n, R, beats
<1>10. Pv!TheBestStands(a)
  BY <1>1, <1>7, <1>8, BestOfRows DEF beats
<1>11. RowsOK(a, Pv!Rows(a))
  BY <1>1, <1>7, <1>9, RowsAreOK
<1> QED
  BY <1>10, <1>11

LEMMA AnswerStands ==
    ASSUME NEW a, Pv!AnswerOK(a)
    PROVE  Pv!TheBestStands(a) /\ RowsOK(a, Pv!Rows(a)) /\ a.source \in {"hf_evals", "arena", "epoch"}
<1>1. a.source \in {"hf_evals", "arena", "epoch"}
  BY DEF Pv!AnswerOK
<1> QED
  BY <1>1, HFAnswer, ArenaAnswer, EpochAnswer

-----------------------------------------------------------------------------
(* What is stored of one answer after another.                             *)
Replaced(vals, a) == Pv!ReplaceExternal(vals, [source |-> a.source, name |-> a.name, metric |-> a.metric], Pv!Rows(a))
StoredBy(it, answers, n) ==
    it = [s \in SUBSET (1..n) |-> IF s = {} THEN {} ELSE Replaced(it[s \ {Max(s)}], answers[Max(s)])]

(* A value stored is what one of the answers said, and what is left of the *)
(* others.                                                                 *)
LEMMA ReplacedIs ==
    ASSUME NEW vals, NEW a, NEW v
    PROVE  v \in Replaced(vals, a) <=>
             \/ \E r \in Pv!ToSet(Pv!Rows(a)) : v = [row |-> r, present |-> TRUE]
             \/ \E x \in vals : /\ \A r \in Pv!ToSet(Pv!Rows(a)) : ~Pv!SameKey(x.row, r)
                                /\ v = IF Pv!InScope(a, x.row) THEN [row |-> x.row, present |-> FALSE] ELSE x
<1>1. \A r : Pv!InScope([source |-> a.source, name |-> a.name, metric |-> a.metric], r) <=> Pv!InScope(a, r)
  BY DEF Pv!InScope
<1> QED
  BY <1>1 DEF Replaced, Pv!ReplaceExternal, Pv!Present

LEMMA StoredExists ==
    ASSUME NEW n \in Nat, NEW answers
    PROVE  \E it : StoredBy(it, answers, n)
<1> DEFINE R == UNION {Pv!ToSet(Pv!Rows(answers[i])) : i \in 1..n}
           U == {[row |-> r, present |-> p] : r \in R, p \in BOOLEAN}
           V == SUBSET U
           step == [iv \in (1..n) \X V |-> Replaced(iv[2], answers[iv[1]])]
<1>1. ASSUME NEW i \in 1..n, NEW vals \in V PROVE Replaced(vals, answers[i]) \in V
  <2> SUFFICES ASSUME NEW v \in Replaced(vals, answers[i]) PROVE v \in U
    OBVIOUS
  <2>1. Pv!ToSet(Pv!Rows(answers[i])) \subseteq R
    OBVIOUS
  <2>2. \A x \in vals : x \in U
    OBVIOUS
  <2>3. \A x \in U : x.row \in R
    OBVIOUS
  <2>4. ASSUME NEW r \in R, NEW p \in BOOLEAN PROVE [row |-> r, present |-> p] \in U
    <3> HIDE DEF R
    <3> QED
      OBVIOUS
  <2> HIDE DEF R, U
  <2>5. CASE \E r \in Pv!ToSet(Pv!Rows(answers[i])) : v = [row |-> r, present |-> TRUE]
    BY <2>1, <2>4, <2>5
  <2>6. CASE \E x \in vals : v = IF Pv!InScope(answers[i], x.row) THEN [row |-> x.row, present |-> FALSE] ELSE x
    BY <2>2, <2>3, <2>4, <2>6
  <2> QED
    BY <2>5, <2>6, ReplacedIs
<1>2. {} \in V
  OBVIOUS
<1> HIDE DEF V
<1>3. step \in [(1..n) \X V -> V]
  BY <1>1
<1>4. PICK it \in [SUBSET (1..n) -> V] : FoldsBy(it, {}, step, n)
  <2> HIDE DEF step
  <2> QED
    BY <1>2, <1>3, FoldExists
<1>5. ASSUME NEW s \in SUBSET (1..n), s # {}
      PROVE  step[<<Max(s), it[s \ {Max(s)}]>>] = Replaced(it[s \ {Max(s)}], answers[Max(s)])
  <2>1. Max(s) \in s
    BY <1>5, LastIsIn
  <2>2. it[s \ {Max(s)}] \in V
    BY <1>4
  <2> QED
    BY <2>1, <2>2
<1> HIDE DEF step
<1>6. StoredBy(it, answers, n)
  BY <1>4, <1>5 DEF FoldsBy, StoredBy
<1> QED
  BY <1>6

IsStored(vals, answers, n) == \E it : StoredBy(it, answers, n) /\ vals = it[1..n]
LEMMA StoredIs ==
    ASSUME NEW n \in Nat, NEW answers, DOMAIN answers = 1..n
    PROVE  IsStored(Pv!Stored(answers), answers, n)
<1> DEFINE P(it) == it = [s \in SUBSET (1..n) |->
                            IF s = {} THEN {}
                            ELSE Pv!ReplaceExternal(it[s \ {Pv!Max(s)}],
                                   [source |-> answers[Pv!Max(s)].source, name |-> answers[Pv!Max(s)].name, metric |-> answers[Pv!Max(s)].metric],
                                   Pv!Rows(answers[Pv!Max(s)]))]
           loop == CHOOSE it : P(it)
<1>1. \A s : Max(s) = Pv!Max(s)
  BY DEF Max, Pv!Max
<1>2. \A it : StoredBy(it, answers, n) <=> P(it)
  BY <1>1 DEF StoredBy, Replaced
<1> HIDE DEF P
<1>3. P(loop)
  BY <1>2, StoredExists
<1>4. Pv!Stored(answers) = loop[1..n]
  BY DEF Pv!Stored, Pv!FoldLeft, Pv!MapThenFoldSet, P
<1> QED
  BY <1>2, <1>3, <1>4 DEF IsStored

LEMMA StoredNext ==
    ASSUME NEW n \in Nat, NEW answers, NEW it, StoredBy(it, answers, n)
    PROVE  it[1..0] = {} /\ \A i \in 1..n : it[1..i] = Replaced(it[1..(i - 1)], answers[i])
<1>1. ASSUME NEW i \in 1..n PROVE it[1..i] = Replaced(it[1..(i - 1)], answers[i])
  <2>1. Max(1..i) = i /\ (1..i) \ {i} = 1..(i - 1) /\ 1..i # {} /\ 1..i \in SUBSET (1..n)
    BY MaxOfFirst
  <2> QED
    BY <2>1 DEF StoredBy
<1>2. 1..0 = {} /\ it[{}] = {}
  BY DEF StoredBy
<1> QED
  BY <1>1, <1>2

(* What is stored of some answers is what the last leaves of what was      *)
(* stored of the others.                                                   *)
LEMMA StoredOfLast ==
    ASSUME NEW n \in Nat, n # 0, NEW answers, NEW before, DOMAIN answers = 1..n, DOMAIN before = 1..(n - 1),
           \A i \in 1..(n - 1) : before[i] = answers[i]
    PROVE  Pv!Stored(answers) = Replaced(Pv!Stored(before), answers[n])
<1>1. PICK it : StoredBy(it, answers, n) /\ Pv!Stored(answers) = it[1..n]
  BY StoredIs DEF IsStored
<1>2. n - 1 \in Nat
  OBVIOUS
<1>3. PICK jt : StoredBy(jt, before, n - 1) /\ Pv!Stored(before) = jt[1..(n - 1)]
  BY <1>2, StoredIs DEF IsStored
<1>4. it[1..0] = {} /\ \A i \in 1..n : it[1..i] = Replaced(it[1..(i - 1)], answers[i])
  BY <1>1, StoredNext
<1>5. jt[1..0] = {} /\ \A i \in 1..(n - 1) : jt[1..i] = Replaced(jt[1..(i - 1)], before[i])
  BY <1>2, <1>3, StoredNext
<1> DEFINE Wrong == {i \in 0..(n - 1) : it[1..i] # jt[1..i]}
<1>6. 0 \notin Wrong /\ \A i \in 1..(n - 1) : i \in Wrong => i - 1 \in Wrong
  <2>1. ASSUME NEW i \in 1..(n - 1), it[1..(i - 1)] = jt[1..(i - 1)] PROVE it[1..i] = jt[1..i]
    <3>1. i \in 1..n /\ before[i] = answers[i]
      OBVIOUS
    <3> QED
      BY <1>4, <1>5, <2>1, <3>1
  <2>2. it[1..0] = jt[1..0]
    BY <1>4, <1>5
  <2>3. \A i \in 1..(n - 1) : i \in 0..(n - 1) /\ i - 1 \in 0..(n - 1)
    OBVIOUS
  <2> QED
    BY <2>1, <2>2, <2>3
<1>9. n - 1 \in 0..(n - 1)
  OBVIOUS
<1>7. n - 1 \notin Wrong
  <2> HIDE DEF Wrong
  <2> QED
    BY <1>2, <1>6, <1>9, StaysThroughout
<1>8. it[1..n] = Replaced(it[1..(n - 1)], answers[n])
  BY <1>4
<1> QED
  BY <1>1, <1>3, <1>7, <1>8, <1>9

(* What holds of whatever is stored: a value present is the only one of    *)
(* its metric and size from its source.                                    *)
OneIsPresent(vals) ==
    \A v, w \in vals :
      (/\ v.present /\ w.present /\ v.row.source = w.row.source
       /\ v.row.metric = w.row.metric /\ v.row.size = w.row.size) => v.row = w.row
OfItsModel(vals) == \A v \in vals : v.row.source = "hf_evals" => v.row.size = v.row.name
Sensible(vals) == ValuesOK(vals) /\ OfItsModel(vals) /\ OneIsPresent(vals)

LEMMA ImageIsFinite ==
    ASSUME NEW S, IsFiniteSet(S), NEW f, DOMAIN f = S
    PROVE  IsFiniteSet({f[x] : x \in S})
<1> DEFINE T == {f[x] : x \in S}
           g == [x \in S |-> f[x]]
<1>1. g \in Surjection(S, T)
  BY DEF Surjection
<1> QED
  BY <1>1, FS_Surjection

LEMMA ReplacedIsFinite ==
    ASSUME NEW vals, IsFiniteSet(vals), NEW a, NEW n \in Nat, DOMAIN Pv!Rows(a) = 1..n
    PROVE  IsFiniteSet(Replaced(vals, a))
<1> DEFINE rows == Pv!Rows(a)
           new == [i \in 1..n |-> [row |-> rows[i], present |-> TRUE]]
           left == {x \in vals : \A r \in Pv!ToSet(rows) : ~Pv!SameKey(x.row, r)}
           old == [x \in left |-> IF Pv!InScope(a, x.row) THEN [row |-> x.row, present |-> FALSE] ELSE x]
           A == {new[i] : i \in 1..n}
           B == {old[x] : x \in left}
<1>1. IsFiniteSet(1..n) /\ IsFiniteSet(left)
  BY FS_Interval, FS_Subset
<1>2. DOMAIN new = 1..n /\ DOMAIN old = left
  OBVIOUS
<1>3. IsFiniteSet(A) /\ IsFiniteSet(B)
  <2> HIDE DEF new, old, left
  <2> QED
    BY <1>1, <1>2, ImageIsFinite
<1>4. Replaced(vals, a) \subseteq A \cup B
  <2> SUFFICES ASSUME NEW v \in Replaced(vals, a) PROVE v \in A \/ v \in B
    OBVIOUS
  <2>1. CASE \E r \in Pv!ToSet(rows) : v = [row |-> r, present |-> TRUE]
    <3>1. PICK i \in 1..n : v = [row |-> rows[i], present |-> TRUE]
      BY <2>1 DEF Pv!ToSet
    <3>2. v = new[i]
      BY <3>1
    <3> QED
      BY <3>2
  <2>2. CASE \E x \in vals : /\ \A r \in Pv!ToSet(rows) : ~Pv!SameKey(x.row, r)
                             /\ v = IF Pv!InScope(a, x.row) THEN [row |-> x.row, present |-> FALSE] ELSE x
    <3>1. PICK x \in left : v = IF Pv!InScope(a, x.row) THEN [row |-> x.row, present |-> FALSE] ELSE x
      BY <2>2
    <3>2. v = old[x]
      BY <3>1
    <3> QED
      BY <3>2
  <2> HIDE DEF A, B
  <2> QED
    BY <2>1, <2>2, ReplacedIs
<1> HIDE DEF A, B
<1>5. IsFiniteSet(A \cup B)
  BY <1>3, FS_Union
<1> QED
  BY <1>4, <1>5, FS_Subset

(* A value present after an answer is of the answer, or it was present     *)
(* before it and is not of what was asked.                                 *)
LEMMA PresentAfter ==
    ASSUME NEW vals, NEW a, NEW v \in Replaced(vals, a), v.present
    PROVE  \/ v.row \in Pv!ToSet(Pv!Rows(a))
           \/ v \in vals /\ ~Pv!InScope(a, v.row)
<1>1. CASE \E r \in Pv!ToSet(Pv!Rows(a)) : v = [row |-> r, present |-> TRUE]
  BY <1>1
<1>2. CASE \E x \in vals : v = IF Pv!InScope(a, x.row) THEN [row |-> x.row, present |-> FALSE] ELSE x
  <2>1. PICK x \in vals : v = IF Pv!InScope(a, x.row) THEN [row |-> x.row, present |-> FALSE] ELSE x
    BY <1>2
  <2>2. ~Pv!InScope(a, x.row)
    BY <2>1
  <2> QED
    BY <2>1, <2>2
<1> QED
  BY <1>1, <1>2, ReplacedIs

LEMMA SensibleStays ==
    ASSUME NEW vals, Sensible(vals), NEW a, Pv!AnswerOK(a), RowsOK(a, Pv!Rows(a))
    PROVE  Sensible(Replaced(vals, a))
<1> DEFINE rows == Pv!ToSet(Pv!Rows(a))
<1>1. /\ \A r \in rows : Pv!InScope(a, r) /\ r.value \in Int /\ (a.source = "hf_evals" => r.size = r.name)
      /\ \A r, s \in rows : r.metric = s.metric /\ r.size = s.size => r = s
  BY DEF RowsOK, Pv!ToSet, OneOfEachKey, SameOf
<1>2. ASSUME NEW v \in Replaced(vals, a)
      PROVE  v.row \in rows \/ \E x \in vals : v.row = x.row
  BY ReplacedIs
<1>3. ASSUME NEW r \in rows PROVE r.source = a.source
  BY <1>1 DEF Pv!InScope
<1> HIDE DEF rows
<1>4. OfItsModel(Replaced(vals, a))
  <2> SUFFICES ASSUME NEW v \in Replaced(vals, a), v.row.source = "hf_evals" PROVE v.row.size = v.row.name
    BY DEF OfItsModel
  <2> QED
    BY <1>1, <1>2, <1>3 DEF Sensible, OfItsModel
<1>5. ValuesOK(Replaced(vals, a))
  <2>1. IsFiniteSet(Replaced(vals, a))
    <3>1. PICK n \in Nat : DOMAIN Pv!Rows(a) = 1..n
      BY DEF RowsOK
    <3> QED
      BY <3>1, ReplacedIsFinite DEF Sensible, ValuesOK
  <2>2. ASSUME NEW v \in Replaced(vals, a) PROVE v.row.value \in Int
    BY <1>1, <1>2 DEF Sensible, ValuesOK
  <2> QED
    BY <2>1, <2>2 DEF ValuesOK
<1>6. ASSUME NEW r \in rows, NEW x \in vals, ~Pv!InScope(a, x.row),
             r.source = x.row.source, r.metric = x.row.metric, r.size = x.row.size
      PROVE  FALSE
  <2>1. r.source = a.source
    BY <1>3
  <2>2. CASE a.source = "hf_evals"
    <3>1. a.metric = "" /\ r.name = a.name /\ a.name # 0
      BY <1>1, <2>2 DEF Pv!AnswerOK, Pv!InScope
    <3>2. x.row.name = a.name
      BY <1>1, <1>6, <2>1, <2>2, <3>1 DEF Sensible, OfItsModel
    <3> QED
      BY <1>6, <2>1, <3>1, <3>2 DEF Pv!InScope
  <2>3. CASE a.source # "hf_evals"
    <3>1. a.name = 0 /\ r.metric = a.metric
      BY <1>1, <2>3 DEF Pv!AnswerOK, Pv!InScope
    <3> QED
      BY <1>6, <2>1, <3>1 DEF Pv!InScope
  <2> QED
    BY <2>2, <2>3
<1>7. OneIsPresent(Replaced(vals, a))
  <2> SUFFICES ASSUME NEW v \in Replaced(vals, a), NEW w \in Replaced(vals, a),
                      v.present, w.present, v.row.source = w.row.source,
                      v.row.metric = w.row.metric, v.row.size = w.row.size
               PROVE  v.row = w.row
    BY DEF OneIsPresent
  <2>1. v.row \in rows \/ (v \in vals /\ ~Pv!InScope(a, v.row))
    BY PresentAfter DEF rows
  <2>2. w.row \in rows \/ (w \in vals /\ ~Pv!InScope(a, w.row))
    BY PresentAfter DEF rows
  <2>3. CASE v.row \in rows /\ w.row \in rows
    BY <1>1, <2>3
  <2>4. CASE v.row \in rows /\ w \in vals /\ ~Pv!InScope(a, w.row)
    BY <1>6, <2>4
  <2>5. CASE w.row \in rows /\ v \in vals /\ ~Pv!InScope(a, v.row)
    BY <1>6, <2>5
  <2>6. CASE v \in vals /\ w \in vals
    BY <2>6 DEF Sensible, OneIsPresent
  <2> QED
    BY <2>1, <2>2, <2>3, <2>4, <2>5, <2>6
<1> QED
  BY <1>4, <1>5, <1>7 DEF Sensible

LEMMA StoredIsSensible ==
    ASSUME NEW n \in Nat, NEW answers, DOMAIN answers = 1..n, \A i \in 1..n : Pv!AnswerOK(answers[i])
    PROVE  Sensible(Pv!Stored(answers))
<1>1. PICK it : StoredBy(it, answers, n) /\ Pv!Stored(answers) = it[1..n]
  BY StoredIs DEF IsStored
<1>2. it[1..0] = {} /\ \A i \in 1..n : it[1..i] = Replaced(it[1..(i - 1)], answers[i])
  BY <1>1, StoredNext
<1> DEFINE Wrong == {i \in 0..n : ~Sensible(it[1..i])}
<1>3. Sensible({})
  BY FS_EmptySet DEF Sensible, ValuesOK, OfItsModel, OneIsPresent
<1>4. ASSUME NEW i \in 1..n, Sensible(it[1..(i - 1)]) PROVE Sensible(it[1..i])
  <2>1. Pv!AnswerOK(answers[i]) /\ RowsOK(answers[i], Pv!Rows(answers[i]))
    BY AnswerStands
  <2>2. Sensible(Replaced(it[1..(i - 1)], answers[i]))
    BY <1>4, <2>1, SensibleStays
  <2> QED
    BY <1>2, <2>2
<1>5. 0 \notin Wrong /\ \A i \in 1..n : i \in Wrong => i - 1 \in Wrong
  <2>1. \A i \in 1..n : i \in 0..n /\ i - 1 \in 0..n
    OBVIOUS
  <2> QED
    BY <1>2, <1>3, <1>4, <2>1
<1>6. n \in 0..n
  OBVIOUS
<1>7. n \notin Wrong
  <2> HIDE DEF Wrong
  <2> QED
    BY <1>5, <1>6, StaysThroughout
<1> QED
  BY <1>1, <1>6, <1>7

LEMMA LastIsRead ==
    ASSUME NEW vals, NEW a, RowsOK(a, Pv!Rows(a)), NEW after, after = Replaced(vals, a)
    PROVE  /\ {v \in Pv!PresentRows(after) : Pv!InScope(a, v)} = Pv!ToSet(Pv!Rows(a))
           /\ {v \in Pv!PresentRows(after) : ~Pv!InScope(a, v)} = {v \in Pv!PresentRows(vals) : ~Pv!InScope(a, v)}
           /\ \A v \in vals : \E w \in after : Pv!SameKey(v.row, w.row)
<1> DEFINE rows == Pv!ToSet(Pv!Rows(a))
<1>1. \A r \in rows : Pv!InScope(a, r)
  BY DEF RowsOK, Pv!ToSet
<1> HIDE DEF rows
<1>2. \A r \in rows : r \in Pv!PresentRows(after)
  <2> SUFFICES ASSUME NEW r \in rows PROVE r \in Pv!PresentRows(after)
    OBVIOUS
  <2> DEFINE v == [row |-> r, present |-> TRUE]
  <2>1. v \in after
    BY ReplacedIs DEF rows
  <2>2. v.present /\ v.row = r
    OBVIOUS
  <2> HIDE DEF v
  <2> QED
    BY <2>1, <2>2 DEF Pv!PresentRows
<1>3. ASSUME NEW r \in Pv!PresentRows(after)
      PROVE  r \in rows \/ (r \in Pv!PresentRows(vals) /\ ~Pv!InScope(a, r))
  <2>1. PICK v \in after : v.present /\ v.row = r
    BY DEF Pv!PresentRows
  <2>2. v.row \in rows \/ (v \in vals /\ ~Pv!InScope(a, v.row))
    BY <2>1, PresentAfter DEF rows
  <2> QED
    BY <2>1, <2>2 DEF Pv!PresentRows
<1>4. ASSUME NEW x \in vals, \A r \in rows : ~Pv!SameKey(x.row, r)
      PROVE  (IF Pv!InScope(a, x.row) THEN [row |-> x.row, present |-> FALSE] ELSE x) \in after
  BY <1>4, ReplacedIs DEF rows
<1>5. ASSUME NEW r \in Pv!PresentRows(vals), ~Pv!InScope(a, r) PROVE r \in Pv!PresentRows(after)
  <2>1. PICK x \in vals : x.present /\ x.row = r
    BY DEF Pv!PresentRows
  <2>2. \A s \in rows : ~Pv!SameKey(x.row, s)
    BY <1>1, <1>5, <2>1 DEF Pv!SameKey, Pv!InScope
  <2>3. x \in after
    BY <1>4, <1>5, <2>1, <2>2
  <2> QED
    BY <2>1, <2>3 DEF Pv!PresentRows
<1>6. ASSUME NEW x \in vals PROVE \E w \in after : Pv!SameKey(x.row, w.row)
  <2>1. CASE \E r \in rows : Pv!SameKey(x.row, r)
    <3>1. PICK r \in rows : Pv!SameKey(x.row, r)
      BY <2>1
    <3>2. PICK w \in after : w.row = r
      BY <1>2 DEF Pv!PresentRows
    <3> QED
      BY <3>1, <3>2
  <2>2. CASE \A r \in rows : ~Pv!SameKey(x.row, r)
    <3>1. PICK w \in after : w.row = x.row
      BY <1>4, <2>2
    <3> QED
      BY <3>1 DEF Pv!SameKey
  <2> QED
    BY <2>1, <2>2
<1>7. {v \in Pv!PresentRows(after) : Pv!InScope(a, v)} = rows
  BY <1>1, <1>2, <1>3
<1>8. {v \in Pv!PresentRows(after) : ~Pv!InScope(a, v)} = {v \in Pv!PresentRows(vals) : ~Pv!InScope(a, v)}
  BY <1>1, <1>3, <1>5
<1> QED
  BY <1>6, <1>7, <1>8 DEF rows

(* Whatever the order of an answer's results: one value of a metric and    *)
(* size is taken, and no readable one that is verified where it is the     *)
(* maker's, later, or better ranked is left for it (parseHFModel,          *)
(* arenaBoard, epoch of internal/catalog/external).                        *)
THEOREM TheBestOfAnAnswerStands == \A a : Pv!AnswerOK(a) => Pv!TheBestStands(a)
BY AnswerStands

(* After any number of answers of any sources: what is present of a part   *)
(* is its last answer, the other parts are as they were and nothing is     *)
(* forgotten; and what is shown of it has one value of a metric, a size    *)
(* and a source, placed by its value (ReplaceExternal of                   *)
(* internal/store/external.go, NewView of public.go).                      *)
THEOREM WhatIsReadLastStands ==
    \A A : \A answers \in Seq(A) :
      (answers # << >> /\ \A i \in DOMAIN answers : Pv!AnswerOK(answers[i])) =>
        /\ Pv!LastReadStands(answers)
        /\ \A enabled, sizes, m :
             /\ Pv!OneOfEach(Pv!View(Pv!Stored(answers), enabled, sizes))
             /\ Pv!PlacesFollow(Pv!View(Pv!Stored(answers), enabled, sizes), m)
<1> SUFFICES ASSUME NEW A, NEW answers \in Seq(A), answers # << >>,
                    \A i \in DOMAIN answers : Pv!AnswerOK(answers[i])
             PROVE  /\ Pv!LastReadStands(answers)
                    /\ \A enabled, sizes, m :
                         /\ Pv!OneOfEach(Pv!View(Pv!Stored(answers), enabled, sizes))
                         /\ Pv!PlacesFollow(Pv!View(Pv!Stored(answers), enabled, sizes), m)
  OBVIOUS
<1> DEFINE n == Len(answers)
           a == answers[n]
           after == Pv!Stored(answers)
           before == Pv!Stored(Pv!Front(answers))
<1>1. n \in Nat /\ n # 0 /\ n \in 1..n /\ DOMAIN answers = 1..n
  OBVIOUS
<1>2. DOMAIN Pv!Front(answers) = 1..(n - 1) /\ \A i \in 1..(n - 1) : Pv!Front(answers)[i] = answers[i]
  BY DEF Pv!Front
<1>3. after = Replaced(before, a)
  <2> HIDE DEF n
  <2> QED
    BY <1>1, <1>2, StoredOfLast
<1>4. Pv!AnswerOK(a) /\ RowsOK(a, Pv!Rows(a))
  BY <1>1, AnswerStands
<1>5. Pv!LastReadStands(answers)
  <2>1. Pv!Last(answers) = a
    BY <1>1 DEF Pv!Last
  <2> HIDE DEF a, after, before, n
  <2>2. /\ {v \in Pv!PresentRows(after) : Pv!InScope(a, v)} = Pv!ToSet(Pv!Rows(a))
        /\ {v \in Pv!PresentRows(after) : ~Pv!InScope(a, v)} = {v \in Pv!PresentRows(before) : ~Pv!InScope(a, v)}
        /\ \A v \in before : \E w \in after : Pv!SameKey(v.row, w.row)
    BY <1>3, <1>4, LastIsRead
  <2> QED
    BY <2>1, <2>2 DEF Pv!LastReadStands, after, before
<1>6. Sensible(after)
  <2> HIDE DEF n
  <2> QED
    BY <1>1, StoredIsSensible
<1> HIDE DEF after
<1>7. ASSUME NEW enabled, NEW sizes PROVE Pv!OneOfEach(Pv!View(after, enabled, sizes))
  BY <1>6 DEF Sensible, OneIsPresent, Pv!OneOfEach, Pv!View
<1>8. ASSUME NEW enabled, NEW sizes, NEW m PROVE Pv!PlacesFollow(Pv!View(after, enabled, sizes), m)
  BY <1>6, PlacesAreOfTheValues DEF Sensible
<1> QED
  BY <1>5, <1>7, <1>8 DEF after
-----------------------------------------------------------------------------
(* What is made of the values shown: the scores the engine is given, and   *)
(* the line of a card.                                                     *)

(* What a maker reports of its own model is not among the scores.          *)
LEMMA ScoredIsNotOfMakers ==
    ASSUME NEW view, NEW m
    PROVE  Pv!Scored({v \in view : v.provenance # "maker"}, m) = Pv!Scored(view, m)
<1> DEFINE others == {v \in view : v.provenance # "maker"}
<1>1. {v \in Pv!Of(others, m) : Pv!Scorable(v.provenance)} = {v \in Pv!Of(view, m) : Pv!Scorable(v.provenance)}
  BY DEF Pv!Of, Pv!Scorable
<1> QED
  BY <1>1 DEF Pv!Scored

LEMMA MakersOwnIsNothing ==
    ASSUME NEW view, NEW purpose
    PROVE  Pv!MakersOwnIsNotScored(view, purpose)
<1> DEFINE others == {v \in view : v.provenance # "maker"}
           rated == {k \in DOMAIN Metrics : purpose \in Pv!ToSet(Metrics[k].purposes) /\ Pv!Scored(view, Metrics[k]) # {}}
<1>1. \A m : Pv!Scored(others, m) = Pv!Scored(view, m)
  BY ScoredIsNotOfMakers
<1>2. {k \in DOMAIN Metrics : purpose \in Pv!ToSet(Metrics[k].purposes) /\ Pv!Scored(others, Metrics[k]) # {}} = rated
  BY <1>1
<1>3. \A i \in rated :
        [metric |-> Metrics[i].metric, higher |-> Metrics[i].higher, values |-> Pv!Scored(others, Metrics[i])]
          = [metric |-> Metrics[i].metric, higher |-> Metrics[i].higher, values |-> Pv!Scored(view, Metrics[i])]
  BY <1>1
<1>4. Pv!Scoring(others, purpose) = Pv!Scoring(view, purpose)
  <2> HIDE DEF rated
  <2> QED
    BY <1>2, <1>3 DEF Pv!Scoring, rated
<1> QED
  BY <1>4 DEF Pv!MakersOwnIsNotScored

(* What speaks to a purpose is what is shown of a metric that does.        *)
SpeakTo(view, size, p) == {e \in Pv!Entries(view, size) : p \in Pv!ToSet(e[2].purposes)}
LEMMA EntriesSpeak ==
    ASSUME Pv!ConfigOK, NEW view, NEW size, NEW p
    PROVE  /\ \A e \in SpeakTo(view, size, p) :
                /\ e[1] \in Nat /\ e[2].of \in Pv!Speaks(view, size, p)
                /\ e[2].scored \in BOOLEAN /\ (e[2].scored <=> Pv!Scorable(e[2].of.provenance))
                /\ e[2].rated = Cardinality(Pv!Of(view, Metrics[e[1]]))
           /\ \A v \in Pv!Speaks(view, size, p) : \E e \in SpeakTo(view, size, p) : e[2].of = v
<1>1. ASSUME NEW e \in SpeakTo(view, size, p)
      PROVE  /\ e[1] \in Nat /\ e[2].of \in Pv!Speaks(view, size, p)
             /\ e[2].scored \in BOOLEAN /\ (e[2].scored <=> Pv!Scorable(e[2].of.provenance))
             /\ e[2].rated = Cardinality(Pv!Of(view, Metrics[e[1]]))
  <2>1. PICK i \in DOMAIN Metrics, v \in view :
               v \in Pv!Of(view, Metrics[i]) /\ v.size = size /\ e = <<i, Pv!Entry(view, Metrics[i], v)>>
    BY DEF SpeakTo, Pv!Entries, Pv!Of
  <2>2. /\ e[1] = i /\ e[2].purposes = Metrics[i].purposes /\ e[2].of = v
        /\ e[2].scored = Pv!Scorable(v.provenance) /\ e[2].rated = Cardinality(Pv!Of(view, Metrics[i]))
    BY <2>1, PvCount DEF Pv!Entry
  <2>3. Metrics[i] \in Pv!MetricOf(v.source, v.metric)
    BY <2>1 DEF Pv!MetricOf, Pv!ToSet, Pv!Of
  <2>4. p \in Pv!ToSet(Metrics[i].purposes)
    BY <2>2 DEF SpeakTo
  <2>5. v \in Pv!Speaks(view, size, p)
    BY <2>1, <2>3, <2>4 DEF Pv!Speaks
  <2>6. i \in Nat
    BY <2>1 DEF Pv!ConfigOK
  <2>7. e[2].scored <=> Pv!Scorable(v.provenance)
    BY <2>2
  <2>8. e[2].scored \in BOOLEAN
    BY <2>2 DEF Pv!Scorable
  <2> QED
    BY <2>2, <2>5, <2>6, <2>7, <2>8
<1>2. ASSUME NEW v \in Pv!Speaks(view, size, p)
      PROVE  \E e \in SpeakTo(view, size, p) : e[2].of = v
  <2>1. PICK m \in Pv!MetricOf(v.source, v.metric) : p \in Pv!ToSet(m.purposes)
    BY DEF Pv!Speaks
  <2>2. PICK i \in DOMAIN Metrics : m = Metrics[i]
    BY DEF Pv!MetricOf, Pv!ToSet
  <2>3. v \in Pv!Of(view, Metrics[i]) /\ v.size = size
    BY <2>1, <2>2 DEF Pv!Speaks, Pv!MetricOf, Pv!Of
  <2> DEFINE e == <<i, Pv!Entry(view, Metrics[i], v)>>
  <2>4. e \in Pv!Entries(view, size)
    BY <2>3 DEF Pv!Entries
  <2>5. e[2].purposes = Metrics[i].purposes /\ e[2].of = v
    BY DEF Pv!Entry
  <2> HIDE DEF e
  <2> QED
    BY <2>1, <2>2, <2>4, <2>5 DEF SpeakTo
<1> QED
  BY <1>1, <1>2

(* Of those that speak to a purpose one is the best: of those that may be  *)
(* scored, or of all, one that most are compared with, the first of them.  *)
LEMMA ABestIsThere ==
    ASSUME Pv!ConfigOK, NEW view, IsFiniteSet(view), NEW size, NEW p, SpeakTo(view, size, p) # {}
    PROVE  \E e \in SpeakTo(view, size, p) : Pv!IsBest(e, SpeakTo(view, size, p))
<1> DEFINE S == SpeakTo(view, size, p)
           N == Cardinality(view)
           T == IF \E e \in S : e[2].scored THEN {e \in S : e[2].scored} ELSE S
           short == {N - e[2].rated : e \in T}
<1>1. \A e \in S : e[1] \in Nat /\ e[2].scored \in BOOLEAN /\ e[2].rated \in Nat /\ N - e[2].rated \in Nat
  <2>1. N \in Nat
    BY FS_CardinalityType
  <2>2. ASSUME NEW i
        PROVE  Cardinality(Pv!Of(view, Metrics[i])) \in Nat /\ Cardinality(Pv!Of(view, Metrics[i])) <= N
    <3>1. Pv!Of(view, Metrics[i]) \subseteq view
      BY DEF Pv!Of
    <3> QED
      BY <3>1, FS_Subset, FS_CardinalityType
  <2>3. \A e \in S : e[1] \in Nat /\ e[2].scored \in BOOLEAN /\ e[2].rated = Cardinality(Pv!Of(view, Metrics[e[1]]))
    BY EntriesSpeak
  <2> HIDE DEF N, S
  <2> QED
    BY <2>1, <2>2, <2>3
<1>2. T # {} /\ T \subseteq S
  OBVIOUS
<1> HIDE DEF S, N
<1>3. short \subseteq Nat /\ short # {}
  BY <1>1, <1>2
<1>4. PICK least \in short : \A k \in short : least <= k
  <2> HIDE DEF short
  <2> QED
    BY <1>3, LeastNatural
<1> DEFINE U == {e \in T : N - e[2].rated = least}
           places == {e[1] : e \in U}
<1>5. U # {} /\ U \subseteq T
  BY <1>4
<1>6. places \subseteq Nat /\ places # {}
  BY <1>1, <1>2, <1>5
<1>7. PICK first \in places : \A k \in places : first <= k
  <2> HIDE DEF places
  <2> QED
    BY <1>6, LeastNatural
<1>8. PICK e \in U : e[1] = first
  BY <1>7
<1>9. \A d \in T : d[2].rated <= e[2].rated /\ (d[2].rated = e[2].rated => e[1] <= d[1])
  <2>1. ASSUME NEW d \in T PROVE d[2].rated <= e[2].rated /\ (d[2].rated = e[2].rated => e[1] <= d[1])
    <3>1. N - e[2].rated <= N - d[2].rated
      BY <1>4, <1>8
    <3>2. d \in S /\ e \in S
      BY <1>2, <1>5, <1>8
    <3>3. N \in Nat
      BY FS_CardinalityType DEF N
    <3>4. d[2].rated = e[2].rated => d \in U
      BY <1>8
    <3>5. d \in U => e[1] <= d[1]
      BY <1>7, <1>8
    <3>6. d[2].rated <= e[2].rated
      BY <1>1, <3>1, <3>2, <3>3
    <3> QED
      BY <3>4, <3>5, <3>6
  <2> QED
    BY <2>1
<1>10. e \in S /\ e \in T
  BY <1>2, <1>5, <1>8
<1>11. \A d \in S : (d \in T => d[2].scored = e[2].scored) /\ (d \notin T => e[2].scored /\ ~d[2].scored)
  BY <1>1, <1>10
<1> HIDE DEF T, U
<1>12. ASSUME NEW d \in S
       PROVE  ~Pv!Outdoes(d[2], e[2]) /\ (Pv!Outdoes(e[2], d[2]) \/ e[1] <= d[1])
  <2>1. CASE d \in T
    <3>1. d[2].scored = e[2].scored /\ d[2].rated <= e[2].rated /\ (d[2].rated = e[2].rated => e[1] <= d[1])
      BY <1>9, <1>11, <2>1
    <3> QED
      BY <1>1, <1>10, <3>1 DEF Pv!Outdoes
  <2>2. CASE d \notin T
    <3>1. e[2].scored /\ ~d[2].scored
      BY <1>11, <2>2
    <3> QED
      BY <1>1, <1>10, <3>1 DEF Pv!Outdoes
  <2> QED
    BY <2>1, <2>2
<1> QED
  BY <1>10, <1>12 DEF S, Pv!IsBest

LEMMA LineHolds ==
    ASSUME Pv!ConfigOK, NEW view, IsFiniteSet(view), NEW size, NEW P, NEW purposes \in Seq(P)
    PROVE  Pv!LineIsTheFittest(view, size, purposes)
<1> DEFINE Best(i) == Pv!Best(view, size, purposes[i])
           Of(i) == SpeakTo(view, size, purposes[i])
           spoken == {i \in DOMAIN purposes : Best(i) # {}}
           line == Pv!Line(view, size, purposes)
<1>1. \A i : Best(i) = {e[2] : e \in {d \in Of(i) : Pv!IsBest(d, Of(i))}}
  BY DEF Pv!Best, SpeakTo
<1>2. \A i : Best(i) = {} <=> Pv!Speaks(view, size, purposes[i]) = {}
  <2>1. ASSUME NEW i PROVE Best(i) = {} <=> Of(i) = {}
    <3> HIDE DEF Best, Of
    <3>1. Of(i) # {} => \E e \in Of(i) : Pv!IsBest(e, Of(i))
      BY ABestIsThere DEF Of
    <3> QED
      BY <1>1, <3>1
  <2>2. ASSUME NEW i PROVE Of(i) = {} <=> Pv!Speaks(view, size, purposes[i]) = {}
    BY EntriesSpeak
  <2> HIDE DEF Best, Of
  <2> QED
    BY <2>1, <2>2
<1>3. \A i : \A e \in Best(i) :
        /\ e.of \in Pv!Speaks(view, size, purposes[i])
        /\ e.scored \/ \A v \in Pv!Speaks(view, size, purposes[i]) : ~Pv!Scorable(v.provenance)
  <2> SUFFICES ASSUME NEW i, NEW e \in Best(i)
               PROVE  /\ e.of \in Pv!Speaks(view, size, purposes[i])
                      /\ e.scored \/ \A v \in Pv!Speaks(view, size, purposes[i]) : ~Pv!Scorable(v.provenance)
    OBVIOUS
  <2>1. PICK b \in Of(i) : Pv!IsBest(b, Of(i)) /\ e = b[2]
    BY <1>1
  <2>2. e.of \in Pv!Speaks(view, size, purposes[i])
    BY <2>1, EntriesSpeak
  <2>3. ASSUME NEW v \in Pv!Speaks(view, size, purposes[i]), Pv!Scorable(v.provenance) PROVE e.scored
    <3>1. PICK d \in Of(i) : d[2].of = v
      BY EntriesSpeak
    <3>2. d[2].scored /\ d[2].scored \in BOOLEAN /\ b[2].scored \in BOOLEAN
      BY <2>1, <2>3, <3>1, EntriesSpeak
    <3>3. ~Pv!Outdoes(d[2], b[2])
      BY <2>1, <3>1 DEF Pv!IsBest
    <3> QED
      BY <2>1, <3>2, <3>3 DEF Pv!Outdoes
  <2> QED
    BY <2>2, <2>3
<1>4. line = IF spoken = {} THEN {} ELSE Best(Pv!Min(spoken))
  BY DEF Pv!Line
<1>5. spoken \subseteq Nat /\ spoken \subseteq DOMAIN purposes
  OBVIOUS
<1> HIDE DEF Best, Of
<1>6. \A i : i \in spoken <=> i \in DOMAIN purposes /\ Pv!Speaks(view, size, purposes[i]) # {}
  BY <1>2
<1> HIDE DEF spoken, line
<1>7. CASE spoken = {}
  BY <1>4, <1>6, <1>7 DEF Pv!LineIsTheFittest, line
<1>8. CASE spoken # {}
  <2>1. PICK first \in spoken : \A k \in spoken : first <= k
    BY <1>5, <1>8, LeastNatural
  <2>2. Pv!Min(spoken) \in spoken /\ \A k \in spoken : Pv!Min(spoken) <= k
    BY <2>1 DEF Pv!Min
  <2> DEFINE i == Pv!Min(spoken)
  <2>3. i \in DOMAIN purposes /\ line = Best(i) /\ Best(i) # {}
    BY <1>2, <1>4, <1>6, <1>8, <2>2
  <2>4. \A j \in 1..(i - 1) : Pv!Speaks(view, size, purposes[j]) = {}
    <3>1. i \in 1..Len(purposes) /\ Len(purposes) \in Nat
      BY <2>3
    <3>2. ASSUME NEW j \in 1..(i - 1) PROVE j \notin spoken /\ j \in DOMAIN purposes
      BY <2>2, <3>1
    <3> QED
      BY <1>6, <3>2
  <2> HIDE DEF i
  <2>5. line # {} /\ ~(\A k \in DOMAIN purposes : Pv!Speaks(view, size, purposes[k]) = {})
    BY <1>2, <2>3
  <2>6. \A e \in line : /\ e.of \in Pv!Speaks(view, size, purposes[i])
                        /\ e.scored \/ \A v \in Pv!Speaks(view, size, purposes[i]) : ~Pv!Scorable(v.provenance)
    BY <1>3, <2>3
  <2> QED
    BY <2>3, <2>4, <2>5, <2>6 DEF Pv!LineIsTheFittest, line
<1> QED
  BY <1>7, <1>8

-----------------------------------------------------------------------------
(* The average that the engine moves a size by.  The sum over a set, as    *)
(* SumFunction's fold adds it up, one element at a time.                   *)
Picked(s) == CHOOSE x \in s : TRUE
SumsOn(h, f, D) == h = [s \in D |-> IF s = {} THEN 0 ELSE f[Picked(s)] + h[s \ {Picked(s)}]]

LEMMA SumExists ==
    ASSUME NEW S, IsFiniteSet(S), NEW f, \A x \in S : f[x] \in Nat
    PROVE  \E h : SumsOn(h, f, SUBSET S)
<1> DEFINE pick == [s \in SUBSET S |-> Picked(s)]
           step == [sv \in (SUBSET S) \X Nat |->
                       IF sv[1] = {} THEN 0 ELSE f[Picked(sv[1])] + sv[2]]
<1>1. \A s \in SUBSET S : s # {} => Picked(s) \in s
  BY DEF Picked
<1>2. step \in [(SUBSET S) \X Nat -> Nat]
  <2>1. ASSUME NEW sv \in (SUBSET S) \X Nat PROVE step[sv] \in Nat
    BY <1>1
  <2> QED
    BY <2>1
<1>3. \A s \in SUBSET S : s # {} => pick[s] \in s
  BY <1>1
<1> HIDE DEF pick, step
<1>4. PICK h \in [SUBSET S -> Nat] : Recurs(h, 0, pick, step, SUBSET S)
  BY <1>2, <1>3, RecursionExists
<1>5. ASSUME NEW s \in SUBSET S, s # {}
      PROVE  h[s] = f[Picked(s)] + h[s \ {Picked(s)}]
  <2>1. h[s] = step[<<s, h[s \ {Picked(s)}]>>]
    BY <1>4, <1>5 DEF Recurs, pick
  <2>2. h[s \ {Picked(s)}] \in Nat
    BY <1>4
  <2> QED
    BY <1>5, <2>1, <2>2 DEF step
<1>6. h[{}] = 0
  BY <1>4 DEF Recurs
<1>7. SumsOn(h, f, SUBSET S)
  BY <1>4, <1>5, <1>6 DEF SumsOn
<1> QED
  BY <1>7

(* Elements that come no smaller add up to no less, and those of at most c *)
(* to at most c each.                                                      *)
LEMMA SumsCompare ==
    ASSUME NEW S, IsFiniteSet(S), NEW c \in Nat, NEW f, NEW g,
           \A x \in S : f[x] \in Nat /\ g[x] \in Nat /\ f[x] <= g[x] /\ g[x] <= c,
           NEW h, NEW k, SumsOn(h, f, SUBSET S), SumsOn(k, g, SUBSET S)
    PROVE  h[S] \in Nat /\ k[S] \in Nat /\ h[S] <= k[S] /\ k[S] <= c * Cardinality(S)
<1> DEFINE Right(s) == h[s] \in Nat /\ k[s] \in Nat /\ h[s] <= k[s] /\ k[s] <= c * Cardinality(s)
           Wrong == {s \in SUBSET S : ~Right(s)}
<1>1. /\ h[{}] = 0 /\ k[{}] = 0
      /\ \A s \in SUBSET S : s # {} => /\ h[s] = f[Picked(s)] + h[s \ {Picked(s)}]
                                       /\ k[s] = g[Picked(s)] + k[s \ {Picked(s)}]
  <2>1. h[{}] = 0 /\ \A s \in SUBSET S : s # {} => h[s] = f[Picked(s)] + h[s \ {Picked(s)}]
    BY DEF SumsOn
  <2>2. k[{}] = 0 /\ \A s \in SUBSET S : s # {} => k[s] = g[Picked(s)] + k[s \ {Picked(s)}]
    BY DEF SumsOn
  <2> QED
    BY <2>1, <2>2
<1>2. Wrong = {}
  <2> SUFFICES ASSUME Wrong # {} PROVE FALSE
    OBVIOUS
  <2>1. PICK s \in Wrong : \A t \in Wrong : Cardinality(s) <= Cardinality(t)
    <3>1. \A t \in Wrong : IsFiniteSet(t)
      BY FS_Subset
    <3> HIDE DEF Wrong
    <3> QED
      BY <3>1, SmallestSet
  <2>2. s # {} /\ s \in SUBSET S /\ ~Right(s)
    <3>1. Right({})
      BY <1>1, FS_EmptySet
    <3> QED
      BY <2>1, <3>1
  <2> DEFINE x == Picked(s)
             t == s \ {x}
  <2>3. x \in s
    BY <2>2 DEF Picked
  <2>4. t \in SUBSET S /\ Cardinality(t) = Cardinality(s) - 1 /\ Cardinality(s) \in Nat
    BY <2>2, <2>3, SmallerSubset, 0 \in Nat
  <2>5. t \notin Wrong
    <3> HIDE DEF Wrong, t
    <3> QED
      BY <2>1, <2>4
  <2>6. Right(t)
    BY <2>4, <2>5
  <2>7. f[x] \in Nat /\ g[x] \in Nat /\ f[x] <= g[x] /\ g[x] <= c
    BY <2>2, <2>3
  <2>8. h[s] = f[x] + h[t] /\ k[s] = g[x] + k[t]
    BY <1>1, <2>2
  <2> HIDE DEF x, t
  <2>9. c * Cardinality(s) = c * Cardinality(t) + c
    BY <2>4
  <2>10. c * Cardinality(t) \in Int
    BY <2>4
  <2>11. Right(s)
    <3> HIDE DEF Wrong
    <3> QED
      BY <2>6, <2>7, <2>8, <2>9, <2>10
  <2> QED
    BY <2>2, <2>11
<1> QED
  BY <1>2

(* A quotient grows with what is divided.                                  *)
LEMMA QuotientsCompare ==
    ASSUME NEW a \in Nat, NEW b \in Nat, NEW c \in Nat, NEW n \in Nat, n > 0, a <= b, b <= c * n
    PROVE  a \div n \in Nat /\ b \div n \in Nat /\ a \div n <= b \div n /\ b \div n <= c
<1> DEFINE p == a \div n
           q == b \div n
<1>1. p \in Nat /\ a = n * p + (a % n) /\ a % n \in 0..(n - 1)
  BY SMT
<1>2. q \in Nat /\ b = n * q + (b % n) /\ b % n \in 0..(n - 1)
  BY SMT
<1> HIDE DEF p, q
<1>3. p <= q
  <2> SUFFICES ASSUME p >= q + 1 PROVE FALSE
    BY <1>1, <1>2
  <2>1. n * p >= n * (q + 1)
    BY <1>1, <1>2
  <2>2. n * (q + 1) = n * q + n
    BY <1>2
  <2> QED
    BY <1>1, <1>2, <2>1, <2>2
<1>4. q <= c
  <2> SUFFICES ASSUME q >= c + 1 PROVE FALSE
    BY <1>2
  <2>1. n * q >= n * (c + 1)
    BY <1>2
  <2>2. n * (c + 1) = c * n + n
    OBVIOUS
  <2> QED
    BY <1>2, <2>1, <2>2
<1> QED
  BY <1>1, <1>2, <1>3, <1>4 DEF p, q

LEMMA AverageIs ==
    ASSUME NEW S, IsFiniteSet(S), NEW f \in [S -> Nat]
    PROVE  \E h : SumsOn(h, f, SUBSET S) /\ Pv!Average(f) = h[S] \div Cardinality(S)
<1> DEFINE sum == CHOOSE h : SumsOn(h, f, SUBSET S)
<1>1. DOMAIN f = S
  OBVIOUS
<1>2. Pv!SumFunction(f) = sum[S]
  BY <1>1 DEF Pv!SumFunction, Pv!SumFunctionOnSet, Pv!FoldFunctionOnSet, Pv!MapThenFoldSet, SumsOn, Picked
<1>3. SumsOn(sum, f, SUBSET S)
  BY SumExists
<1> HIDE DEF sum
<1>4. Pv!Average(f) = sum[S] \div Cardinality(S)
  BY <1>1, <1>2, PvCount DEF Pv!Average
<1> QED
  BY <1>3, <1>4

LEMMA AveragesCompare ==
    ASSUME NEW S, IsFiniteSet(S), S # {}, NEW c \in Nat, NEW f \in [S -> Nat], NEW g \in [S -> Nat],
           \A x \in S : f[x] <= g[x] /\ g[x] <= c
    PROVE  /\ Pv!Average(f) \in Nat /\ Pv!Average(g) \in Nat
           /\ Pv!Average(f) <= Pv!Average(g) /\ Pv!Average(g) <= c
<1>1. PICK h : SumsOn(h, f, SUBSET S) /\ Pv!Average(f) = h[S] \div Cardinality(S)
  BY AverageIs
<1>2. PICK k : SumsOn(k, g, SUBSET S) /\ Pv!Average(g) = k[S] \div Cardinality(S)
  BY AverageIs
<1>3. h[S] \in Nat /\ k[S] \in Nat /\ h[S] <= k[S] /\ k[S] <= c * Cardinality(S)
  <2>1. \A x \in S : f[x] \in Nat /\ g[x] \in Nat /\ f[x] <= g[x] /\ g[x] <= c
    OBVIOUS
  <2> QED
    BY <1>1, <1>2, <2>1, SumsCompare
<1>4. Cardinality(S) \in Nat /\ Cardinality(S) > 0
  BY FS_CardinalityType, FS_EmptySet
<1>5. /\ h[S] \div Cardinality(S) \in Nat /\ k[S] \div Cardinality(S) \in Nat
      /\ h[S] \div Cardinality(S) <= k[S] \div Cardinality(S) /\ k[S] \div Cardinality(S) <= c
  BY <1>3, <1>4, QuotientsCompare
<1> QED
  BY <1>1, <1>2, <1>5

(* What a metric gives the engine: a number of each of some sizes.         *)
ComparesOK(pm) ==
    /\ IsFiniteSet(pm.values)
    /\ \A v \in pm.values : v = <<v[1], v[2]>> /\ v[2] \in Int
    /\ \A v, w \in pm.values : v[1] = w[1] => v = w
ScoringOK(scoring) == IsFiniteSet(DOMAIN scoring) /\ \A i \in DOMAIN scoring : ComparesOK(scoring[i])

(* A size's place, from those that are ahead of it or level with it: each  *)
(* of them takes half a place of it, itself left out.                      *)
Over(pm, x) == {v \in pm.values : IF pm.higher THEN v[2] > x ELSE v[2] < x}
Level(pm, x) == {v \in pm.values : v[2] = x}
Halves(pm, x) == Cardinality(Over(pm, x)) + Cardinality(Over(pm, x) \cup Level(pm, x)) - 1

LEMMA HalvesCount ==
    ASSUME NEW pm, ComparesOK(pm), NEW mine \in pm.values
    PROVE  LET better == Cardinality({v \in pm.values : v[1] # mine[1] /\ IF pm.higher THEN v[2] > mine[2] ELSE v[2] < mine[2]})
               equal == Cardinality({v \in pm.values : v[1] # mine[1] /\ v[2] = mine[2]})
           IN  /\ Halves(pm, mine[2]) = 2 * better + equal /\ Halves(pm, mine[2]) \in Nat
               /\ Cardinality(pm.values) \in Nat /\ Halves(pm, mine[2]) <= 2 * (Cardinality(pm.values) - 1)
<1> DEFINE S == pm.values
           x == mine[2]
           O == Over(pm, x)
           L == Level(pm, x)
           others == {v \in S : v[1] # mine[1] /\ IF pm.higher THEN v[2] > x ELSE v[2] < x}
           even == {v \in S : v[1] # mine[1] /\ v[2] = x}
<1>1. /\ IsFiniteSet(S) /\ mine \in S /\ \A v \in S : v[2] \in Int
      /\ \A v \in S : v[1] = mine[1] <=> v = mine
  BY DEF ComparesOK
<1>2. others = O
  BY <1>1 DEF Over
<1>3. even = L \ {mine} /\ mine \in L /\ L \subseteq S
  BY <1>1 DEF Level
<1>4. O \subseteq S /\ O \cap L = {}
  BY <1>1 DEF Over, Level
<1> HIDE DEF S, O, L, others, even
<1>5. IsFiniteSet(O) /\ IsFiniteSet(L) /\ IsFiniteSet(S \ {mine})
  BY <1>1, <1>3, <1>4, FS_Subset
<1>6. Cardinality(even) = Cardinality(L) - 1 /\ Cardinality(S \ {mine}) = Cardinality(S) - 1
  BY <1>1, <1>3, <1>5, FS_RemoveElement
<1>7. Cardinality(O \cup L) = Cardinality(O) + Cardinality(L)
  <2>1. Cardinality(O \cup L) = Cardinality(O) + Cardinality(L) - Cardinality(O \cap L)
    BY <1>5, FS_Union
  <2>2. Cardinality(O \cap L) = 0
    BY <1>4, FS_EmptySet
  <2>3. Cardinality(O) \in Nat /\ Cardinality(L) \in Nat
    BY <1>5, FS_CardinalityType
  <2> QED
    BY <2>1, <2>2, <2>3
<1>8. Cardinality(O) <= Cardinality(S) - 1
  <2>1. O \subseteq S \ {mine}
    BY <1>3, <1>4
  <2> QED
    BY <1>5, <1>6, <2>1, FS_Subset
<1>9. Cardinality(O \cup L) <= Cardinality(S)
  BY <1>1, <1>3, <1>4, FS_Subset
<1>10. /\ Cardinality(O) \in Nat /\ Cardinality(L) \in Nat /\ Cardinality(S) \in Nat /\ Cardinality(even) \in Nat
  <2>1. IsFiniteSet(even)
    BY <1>3, <1>5, FS_RemoveElement
  <2> QED
    BY <1>1, <1>5, <2>1, FS_CardinalityType
<1>11. Halves(pm, x) = Cardinality(O) + Cardinality(O \cup L) - 1
  BY DEF Halves, O, L
<1>12. /\ Halves(pm, x) = 2 * Cardinality(others) + Cardinality(even) /\ Halves(pm, x) \in Nat
       /\ Cardinality(S) \in Nat /\ Halves(pm, x) <= 2 * (Cardinality(S) - 1)
  BY <1>2, <1>6, <1>7, <1>8, <1>9, <1>10, <1>11
<1> QED
  BY <1>12 DEF others, even, S

LEMMA HalvesCompare ==
    ASSUME NEW pm, ComparesOK(pm), NEW x \in Int, NEW y \in Int, IF pm.higher THEN x >= y ELSE x <= y
    PROVE  Halves(pm, x) <= Halves(pm, y)
<1> DEFINE O(z) == Over(pm, z)
           U(z) == Over(pm, z) \cup Level(pm, z)
<1>1. \A v \in pm.values : v[2] \in Int
  BY DEF ComparesOK
<1>2. O(x) \subseteq O(y) /\ O(y) \subseteq pm.values
  BY <1>1 DEF Over
<1>3. U(x) \subseteq U(y) /\ U(y) \subseteq pm.values
  BY <1>1 DEF Over, Level
<1>4. IsFiniteSet(O(y)) /\ IsFiniteSet(U(y)) /\ IsFiniteSet(O(x)) /\ IsFiniteSet(U(x))
  <2> HIDE DEF O, U
  <2> QED
    BY <1>2, <1>3, FS_Subset DEF ComparesOK
<1>5. Cardinality(O(x)) <= Cardinality(O(y)) /\ Cardinality(U(x)) <= Cardinality(U(y))
  <2> HIDE DEF O, U
  <2> QED
    BY <1>2, <1>3, <1>4, FS_Subset
<1>6. /\ Cardinality(O(x)) \in Nat /\ Cardinality(O(y)) \in Nat
      /\ Cardinality(U(x)) \in Nat /\ Cardinality(U(y)) \in Nat
  <2> HIDE DEF O, U
  <2> QED
    BY <1>4, FS_CardinalityType
<1> HIDE DEF O, U
<1>7. /\ Halves(pm, x) = Cardinality(O(x)) + Cardinality(U(x)) - 1
      /\ Halves(pm, y) = Cardinality(O(y)) + Cardinality(U(y)) - 1
  BY DEF Halves, O, U
<1> QED
  BY <1>5, <1>6, <1>7

LEMMA CoversTwo ==
    ASSUME Pv!ConfigOK, NEW pm, ComparesOK(pm), Pv!Covered(pm)
    PROVE  Cardinality(pm.values) \in Nat /\ Cardinality(pm.values) >= 2
<1> DEFINE most == Pv!Max({MinCovered, 2})
<1>1. \E x \in {MinCovered, 2} : \A y \in {MinCovered, 2} : x >= y
  <2>1. CASE MinCovered >= 2
    BY <2>1 DEF Pv!ConfigOK
  <2>2. CASE ~(MinCovered >= 2)
    BY <2>2 DEF Pv!ConfigOK
  <2> QED
    BY <2>1, <2>2
<1>2. most \in {MinCovered, 2} /\ most >= 2
  BY <1>1 DEF Pv!Max
<1>3. most \in Int
  BY <1>2 DEF Pv!ConfigOK
<1>4. Cardinality(pm.values) >= most
  BY PvCount DEF Pv!Covered
<1>5. Cardinality(pm.values) \in Nat
  BY FS_CardinalityType DEF ComparesOK
<1> HIDE DEF most
<1> QED
  BY <1>2, <1>3, <1>4, <1>5

LEMMA PlaceIs ==
    ASSUME NEW pm, ComparesOK(pm), NEW mine \in pm.values
    PROVE  /\ Pv!Values(pm, mine[1]) = {mine[2]}
           /\ Pv!Place(pm, mine[1]) = Whole - ((Whole \div 2) * Halves(pm, mine[2])) \div (Cardinality(pm.values) - 1)
<1>1. \A v \in pm.values : v[1] = mine[1] <=> v = mine
  BY DEF ComparesOK
<1>2. Pv!Values(pm, mine[1]) = {mine[2]}
  BY <1>1 DEF Pv!Values
<1>3. (CHOOSE x \in {mine[2]} : TRUE) = mine[2]
  OBVIOUS
<1> DEFINE better == Cardinality({v \in pm.values : v[1] # mine[1] /\ IF pm.higher THEN v[2] > mine[2] ELSE v[2] < mine[2]})
           equal == Cardinality({v \in pm.values : v[1] # mine[1] /\ v[2] = mine[2]})
<1>4. Pv!Place(pm, mine[1]) = Whole - ((Whole \div 2) * (2 * better + equal)) \div (Cardinality(pm.values) - 1)
  BY <1>2, <1>3, PvCount DEF Pv!Place
<1>5. Halves(pm, mine[2]) = 2 * better + equal
  BY HalvesCount
<1> HIDE DEF better, equal
<1> QED
  BY <1>2, <1>4, <1>5

(* A better size's place is no worse, and a place is within the whole.     *)
LEMMA PlacesCompare ==
    ASSUME Pv!ConfigOK, NEW pm, ComparesOK(pm), Pv!Covered(pm), NEW v \in pm.values, NEW w \in pm.values,
           Pv!AsGood(pm, v[1], w[1])
    PROVE  /\ Pv!Place(pm, v[1]) \in 0..Whole /\ Pv!Place(pm, w[1]) \in 0..Whole
           /\ Pv!Place(pm, w[1]) <= Pv!Place(pm, v[1])
<1> DEFINE half == Whole \div 2
           n == Cardinality(pm.values) - 1
           a == Halves(pm, v[2])
           b == Halves(pm, w[2])
<1>1. Whole \in Nat /\ half \in Nat /\ 2 * half <= Whole
  BY DEF Pv!ConfigOK
<1>2. n \in Nat /\ n > 0
  BY CoversTwo
<1>3. a \in Nat /\ b \in Nat /\ b <= 2 * n
  BY HalvesCount
<1>4. a <= b
  <2>1. IF pm.higher THEN v[2] >= w[2] ELSE v[2] <= w[2]
    BY PlaceIs DEF Pv!AsGood
  <2>2. v[2] \in Int /\ w[2] \in Int
    BY DEF ComparesOK
  <2> QED
    BY <2>1, <2>2, HalvesCompare
<1>5. /\ Pv!Place(pm, v[1]) = Whole - (half * a) \div n
      /\ Pv!Place(pm, w[1]) = Whole - (half * b) \div n
  BY PlaceIs
<1> HIDE DEF half, n, a, b
<1>6. half * a \in Nat /\ half * b \in Nat /\ half * a <= half * b
  BY <1>1, <1>3, <1>4
<1>7. half * b <= Whole * n
  <2>1. half * b <= half * (2 * n)
    BY <1>1, <1>2, <1>3
  <2>2. half * (2 * n) = (2 * half) * n
    BY <1>1, <1>2
  <2>3. (2 * half) * n <= Whole * n
    BY <1>1, <1>2
  <2> QED
    BY <1>1, <1>2, <1>6, <2>1, <2>2, <2>3
<1>8. /\ (half * a) \div n \in Nat /\ (half * b) \div n \in Nat
      /\ (half * a) \div n <= (half * b) \div n /\ (half * b) \div n <= Whole
  BY <1>1, <1>2, <1>6, <1>7, QuotientsCompare
<1> QED
  BY <1>1, <1>5, <1>8

(* What an average place moves a fit by is within its weight, and grows.   *)
LEMMA MovedCompare ==
    ASSUME Pv!ConfigOK, NEW a \in 0..Whole, NEW b \in 0..Whole, a <= b
    PROVE  /\ 100 * Pv!Moved(a) \in ((100 - Sway) * Whole)..((100 + Sway) * Whole)
           /\ 100 * Pv!Moved(b) \in ((100 - Sway) * Whole)..((100 + Sway) * Whole)
           /\ Pv!Moved(a) <= Pv!Moved(b)
<1>1. Sway \in Nat /\ Whole \in Nat
  BY DEF Pv!ConfigOK
<1>2. PICK k \in Nat : Whole = 100 * k
  BY DEF Pv!ConfigOK
<1> DEFINE most == Sway * k
           X(c) == Sway * (2 * c - Whole)
<1>3. most \in Nat /\ Sway * Whole = 100 * most
  BY <1>1, <1>2
<1>4. ASSUME NEW c \in 0..Whole, NEW d \in 0..Whole, c <= d PROVE X(c) \in Int /\ X(d) \in Int /\ X(c) <= X(d)
  BY <1>1, <1>4
<1>5. ASSUME NEW c \in 0..Whole PROVE X(c) \in Int /\ X(c) <= 100 * most /\ -(100 * most) <= X(c)
  <2>1. X(Whole) = Sway * Whole /\ X(0) = -(Sway * Whole)
    BY <1>1
  <2>2. 0 \in 0..Whole /\ Whole \in 0..Whole /\ 0 <= c /\ c <= Whole
    BY <1>1
  <2>3. X(0) <= X(c) /\ X(c) <= X(Whole) /\ X(c) \in Int
    BY <1>4, <2>2
  <2> HIDE DEF X, most
  <2> QED
    BY <1>3, <2>1, <2>3
<1>6. \A c \in 0..Whole : Pv!Moved(c) = Whole + X(c) \div 100
  BY DEF Pv!Moved
<1>7. (100 - Sway) * Whole = 100 * Whole - 100 * most /\ (100 + Sway) * Whole = 100 * Whole + 100 * most
  BY <1>1, <1>2
<1> HIDE DEF X, most
<1>8. ASSUME NEW c \in 0..Whole PROVE 100 * Pv!Moved(c) \in ((100 - Sway) * Whole)..((100 + Sway) * Whole)
  <2>1. X(c) \div 100 \in Int /\ X(c) \div 100 <= most /\ -most <= X(c) \div 100
    BY <1>3, <1>5
  <2>2. Pv!Moved(c) = Whole + X(c) \div 100
    BY <1>6
  <2> QED
    BY <1>1, <1>3, <1>7, <2>1, <2>2
<1>9. Pv!Moved(a) <= Pv!Moved(b)
  <2>1. X(a) \in Int /\ X(b) \in Int /\ X(a) <= X(b)
    BY <1>4
  <2>2. X(a) \div 100 <= X(b) \div 100 /\ X(a) \div 100 \in Int /\ X(b) \div 100 \in Int
    BY <2>1
  <2> QED
    BY <1>1, <1>6, <2>2
<1> QED
  BY <1>8, <1>9

LEMMA ComparedIs ==
    ASSUME NEW scoring, NEW size
    PROVE  Pv!Compared(scoring, size) = {i \in DOMAIN scoring : Pv!Values(scoring[i], size) # {} /\ Pv!Covered(scoring[i])}
<1>1. \A i : Pv!Values(scoring[i], size) # {} <=> \E v \in scoring[i].values : v[1] = size
  BY DEF Pv!Values
<1> QED
  BY <1>1 DEF Pv!Compared

LEMMA AdjustmentIs ==
    ASSUME NEW scoring, NEW size
    PROVE  Pv!Adjustment(scoring, size)
             = IF Pv!Compared(scoring, size) = {} THEN Whole
               ELSE Pv!Moved(Pv!Average([i \in Pv!Compared(scoring, size) |-> Pv!Place(scoring[i], size)]))
BY ComparedIs DEF Pv!Adjustment

(* Of two sizes compared on the same metrics, by at least as good values.  *)
LEMMA AdjustmentsCompare ==
    ASSUME Pv!ConfigOK, NEW scoring, ScoringOK(scoring), NEW a, NEW b,
           Pv!Compared(scoring, a) = Pv!Compared(scoring, b),
           \A i \in Pv!Compared(scoring, a) : Pv!AsGood(scoring[i], a, b)
    PROVE  /\ 100 * Pv!Adjustment(scoring, a) \in ((100 - Sway) * Whole)..((100 + Sway) * Whole)
           /\ Pv!Adjustment(scoring, b) <= Pv!Adjustment(scoring, a)
<1> DEFINE S == Pv!Compared(scoring, a)
           f == [i \in S |-> Pv!Place(scoring[i], a)]
           g == [i \in S |-> Pv!Place(scoring[i], b)]
<1>1. /\ Pv!Adjustment(scoring, a) = IF S = {} THEN Whole ELSE Pv!Moved(Pv!Average(f))
      /\ Pv!Adjustment(scoring, b) = IF S = {} THEN Whole ELSE Pv!Moved(Pv!Average(g))
  BY AdjustmentIs
<1>2. Whole \in Nat /\ Sway \in Nat
  BY DEF Pv!ConfigOK
<1>3. CASE S = {}
  <2>1. Pv!Adjustment(scoring, a) = Whole /\ Pv!Adjustment(scoring, b) = Whole
    BY <1>1, <1>3
  <2>2. (100 - Sway) * Whole = 100 * Whole - Sway * Whole /\ (100 + Sway) * Whole = 100 * Whole + Sway * Whole
    BY <1>2
  <2>3. Sway * Whole \in Nat
    BY <1>2
  <2> QED
    BY <1>2, <2>1, <2>2, <2>3
<1>4. CASE S # {}
  <2>1. IsFiniteSet(S)
    <3>1. S \subseteq DOMAIN scoring
      BY DEF Pv!Compared
    <3> QED
      BY <3>1, FS_Subset DEF ScoringOK
  <2>2. ASSUME NEW i \in S
        PROVE  /\ Pv!Place(scoring[i], a) \in 0..Whole /\ Pv!Place(scoring[i], b) \in 0..Whole
               /\ Pv!Place(scoring[i], b) <= Pv!Place(scoring[i], a)
    <3>1. ComparesOK(scoring[i]) /\ Pv!Covered(scoring[i]) /\ Pv!AsGood(scoring[i], a, b)
      BY DEF Pv!Compared, ScoringOK
    <3>2. PICK v \in scoring[i].values : v[1] = a
      BY DEF Pv!Compared
    <3>3. PICK w \in scoring[i].values : w[1] = b
      BY DEF Pv!Compared
    <3>4. Pv!AsGood(scoring[i], v[1], w[1])
      BY <3>1, <3>2, <3>3
    <3>5. /\ Pv!Place(scoring[i], v[1]) \in 0..Whole /\ Pv!Place(scoring[i], w[1]) \in 0..Whole
          /\ Pv!Place(scoring[i], w[1]) <= Pv!Place(scoring[i], v[1])
      BY <3>1, <3>4, PlacesCompare
    <3> QED
      BY <3>2, <3>3, <3>5
  <2>3. f \in [S -> Nat] /\ g \in [S -> Nat] /\ \A i \in S : g[i] <= f[i] /\ f[i] <= Whole
    BY <1>2, <2>2
  <2> HIDE DEF S, f, g
  <2>4. /\ Pv!Average(g) \in Nat /\ Pv!Average(f) \in Nat
        /\ Pv!Average(g) <= Pv!Average(f) /\ Pv!Average(f) <= Whole
    BY <1>2, <1>4, <2>1, <2>3, AveragesCompare
  <2>5. Pv!Average(g) \in 0..Whole /\ Pv!Average(f) \in 0..Whole
    BY <1>2, <2>4
  <2>6. /\ 100 * Pv!Moved(Pv!Average(f)) \in ((100 - Sway) * Whole)..((100 + Sway) * Whole)
        /\ Pv!Moved(Pv!Average(g)) <= Pv!Moved(Pv!Average(f))
    BY <2>4, <2>5, MovedCompare
  <2> QED
    BY <1>1, <1>4, <2>6
<1> QED
  BY <1>3, <1>4

LEMMA AdjustmentHolds ==
    ASSUME Pv!ConfigOK, NEW scoring, ScoringOK(scoring), NEW sizes
    PROVE  Pv!AdjustmentIsFair(scoring, sizes)
<1> DEFINE adj == [s \in sizes |-> Pv!Adjustment(scoring, s)]
<1>1. ASSUME NEW s \in sizes
      PROVE  /\ 100 * adj[s] \in ((100 - Sway) * Whole)..((100 + Sway) * Whole)
             /\ Pv!Compared(scoring, s) = {} => adj[s] = Whole
  <2>1. \A i \in Pv!Compared(scoring, s) : Pv!AsGood(scoring[i], s, s)
    <3> SUFFICES ASSUME NEW i \in Pv!Compared(scoring, s) PROVE Pv!AsGood(scoring[i], s, s)
      OBVIOUS
    <3>1. ComparesOK(scoring[i])
      BY DEF Pv!Compared, ScoringOK
    <3>2. \A x, y \in Pv!Values(scoring[i], s) : x = y /\ x \in Int
      BY <3>1 DEF Pv!Values, ComparesOK
    <3> QED
      BY <3>2 DEF Pv!AsGood
  <2>2. 100 * Pv!Adjustment(scoring, s) \in ((100 - Sway) * Whole)..((100 + Sway) * Whole)
    BY <2>1, AdjustmentsCompare
  <2> QED
    BY <2>2, AdjustmentIs
<1>2. ASSUME NEW a \in sizes, NEW b \in sizes, Pv!Compared(scoring, a) = Pv!Compared(scoring, b),
             \A i \in Pv!Compared(scoring, a) : Pv!AsGood(scoring[i], a, b)
      PROVE  adj[b] <= adj[a]
  BY <1>2, AdjustmentsCompare
<1>3. ASSUME NEW a \in sizes, NEW b \in sizes, Pv!Compared(scoring, a) = Pv!Compared(scoring, b),
             \A i \in Pv!Compared(scoring, a) : Pv!AsGood(scoring[i], a, b)
      PROVE  adj[a] >= adj[b]
  <2>1. adj[b] <= adj[a]
    BY <1>2, <1>3
  <2> HIDE DEF adj
  <2> QED
    BY <2>1
<1> HIDE DEF adj
<1>4. \A d \in {adj} :
        /\ \A s \in sizes : 100 * d[s] \in ((100 - Sway) * Whole)..((100 + Sway) * Whole) /\ (Pv!Compared(scoring, s) = {} => d[s] = Whole)
        /\ \A a, b \in sizes :
             (Pv!Compared(scoring, a) = Pv!Compared(scoring, b) /\ \A i \in Pv!Compared(scoring, a) : Pv!AsGood(scoring[i], a, b)) => d[a] >= d[b]
  BY <1>1, <1>3
<1> QED
  BY <1>4 DEF Pv!AdjustmentIsFair, adj

(* What is shown, one value of a size and a metric, is what the engine     *)
(* compares.                                                               *)
LEMMA ScoringIsOK ==
    ASSUME Pv!ConfigOK, NEW view, IsFiniteSet(view), \A v \in view : v.value \in Int, Pv!OneOfEach(view), NEW purpose
    PROVE  ScoringOK(Pv!Scoring(view, purpose))
<1> DEFINE scoring == Pv!Scoring(view, purpose)
<1>1. IsFiniteSet(DOMAIN scoring)
  <2>1. DOMAIN scoring \subseteq DOMAIN Metrics
    BY DEF Pv!Scoring
  <2>2. DOMAIN Metrics = 1..Len(Metrics) /\ Len(Metrics) \in Nat
    BY DEF Pv!ConfigOK
  <2>3. IsFiniteSet(DOMAIN Metrics)
    BY <2>2, FS_Interval, 1 \in Int
  <2> HIDE DEF scoring
  <2> QED
    BY <2>1, <2>3, FS_Subset
<1>2. ASSUME NEW m PROVE LET s == Pv!Scored(view, m) IN
        /\ IsFiniteSet(s) /\ \A v \in s : v = <<v[1], v[2]>> /\ v[2] \in Int
        /\ \A v, w \in s : v[1] = w[1] => v = w
  <2> DEFINE S == Pv!Scored(view, m)
             shown == {v \in Pv!Of(view, m) : Pv!Scorable(v.provenance)}
             latest == {x \in shown : \A y \in shown : y.size = x.size => y.name <= x.name}
             pair == [v \in latest |-> <<v.size, Pv!Comparable(m, v.value)>>]
  <2>1. S = {<<v.size, Pv!Comparable(m, v.value)>> : v \in latest}
    BY DEF Pv!Scored, Pv!LastOfEach
  <2>2. latest \subseteq view /\ \A v, w \in latest : v.size = w.size => v = w
    BY DEF Pv!Of, Pv!OneOfEach
  <2>3. \A v \in latest : Pv!Comparable(m, v.value) \in Int
    BY <2>2 DEF Pv!Comparable
  <2> HIDE DEF S, latest
  <2>4. IsFiniteSet(S)
    <3>1. IsFiniteSet(latest)
      BY <2>2, FS_Subset
    <3>2. pair \in [latest -> S] /\ \A s \in S : \E v \in latest : pair[v] = s
      BY <2>1
    <3> HIDE DEF pair
    <3>3. pair \in Surjection(latest, S)
      BY <3>2 DEF Surjection
    <3> QED
      BY <3>1, <3>3, FS_Surjection
  <2>5. \A v \in S : v = <<v[1], v[2]>> /\ v[2] \in Int
    BY <2>1, <2>3
  <2>6. \A v, w \in S : v[1] = w[1] => v = w
    BY <2>1, <2>2
  <2> QED
    BY <2>4, <2>5, <2>6 DEF S
<1>3. \A i \in DOMAIN scoring : scoring[i].values = Pv!Scored(view, Metrics[i])
  BY DEF Pv!Scoring
<1> HIDE DEF scoring
<1>4. \A i \in DOMAIN scoring : ComparesOK(scoring[i])
  BY <1>2, <1>3 DEF ComparesOK
<1> QED
  BY <1>1, <1>4 DEF ScoringOK, scoring

(* Of whatever was read: a card's line is of the first purpose that any    *)
(* value of its size speaks to, and the maker's own only where nothing     *)
(* else does; nothing of the makers' own is scored; and the scores move a  *)
(* size by at most their weight, only where it is compared, and never the  *)
(* better of two sizes below the other (Line of public.go, View.Scoring,   *)
(* publicAdjustment of internal/recommend).                                *)
THEOREM WhatIsPublishedIsUsedFairly ==
    \A A, P : \A answers \in Seq(A), purposes \in Seq(P) :
      (Pv!ConfigOK /\ \A i \in DOMAIN answers : Pv!AnswerOK(answers[i])) =>
        \A enabled, sizes : \A view \in {Pv!View(Pv!Stored(answers), enabled, sizes)} :
          /\ \A size : Pv!LineIsTheFittest(view, size, purposes)
          /\ \A purpose : /\ Pv!MakersOwnIsNotScored(view, purpose)
                          /\ Pv!AdjustmentIsFair(Pv!Scoring(view, purpose), sizes)
<1> SUFFICES ASSUME NEW A, NEW P, NEW answers \in Seq(A), NEW purposes \in Seq(P), Pv!ConfigOK,
                    \A i \in DOMAIN answers : Pv!AnswerOK(answers[i]), NEW enabled, NEW sizes
             PROVE  \A view \in {Pv!View(Pv!Stored(answers), enabled, sizes)} :
                      /\ \A size : Pv!LineIsTheFittest(view, size, purposes)
                      /\ \A purpose : /\ Pv!MakersOwnIsNotScored(view, purpose)
                                      /\ Pv!AdjustmentIsFair(Pv!Scoring(view, purpose), sizes)
  OBVIOUS
<1> DEFINE stored == Pv!Stored(answers)
           view == Pv!View(stored, enabled, sizes)
<1>1. Sensible(stored)
  <2>1. Len(answers) \in Nat /\ DOMAIN answers = 1..Len(answers)
    OBVIOUS
  <2> QED
    BY <2>1, StoredIsSensible
<1> HIDE DEF stored
<1>2. IsFiniteSet(view) /\ \A v \in view : v.value \in Int
  BY <1>1, ViewIsFinite DEF Sensible
<1>3. Pv!OneOfEach(view)
  BY <1>1 DEF Sensible, OneIsPresent, Pv!OneOfEach, Pv!View
<1> HIDE DEF view
<1>4. \A size : Pv!LineIsTheFittest(view, size, purposes)
  BY <1>2, LineHolds
<1>5. \A purpose : Pv!MakersOwnIsNotScored(view, purpose)
  BY MakersOwnIsNothing
<1>6. ASSUME NEW purpose PROVE Pv!AdjustmentIsFair(Pv!Scoring(view, purpose), sizes)
  <2>1. ScoringOK(Pv!Scoring(view, purpose))
    BY <1>2, <1>3, ScoringIsOK
  <2> QED
    BY <2>1, AdjustmentHolds
<1> QED
  BY <1>4, <1>5, <1>6 DEF view, stored
-----------------------------------------------------------------------------
(* The curated list, and the rows that stand for it from one edition to    *)
(* the next.                                                               *)
CONSTANT Purposes
Cu == INSTANCE Curated

LEMMA CuCount == ASSUME NEW S PROVE Cu!Cardinality(S) = Cardinality(S)
BY DEF Cu!Cardinality, Cardinality

(* The sizes of a list, one after the other.                               *)
EntriesOf(list) ==
    UNION {{[family |-> f.id, size |-> s] : s \in Cu!ToSet(f.sizes)} : f \in Cu!ToSet(list.families)}

LEMMA AllSizesAre ==
    ASSUME NEW list, Cu!ListOK(list), list.families # << >>
    PROVE  Cu!AllSizes(list) \in Seq(EntriesOf(list))
<1> DEFINE E == EntriesOf(list)
           n == Len(list.families)
           seqs == [i \in DOMAIN list.families |-> Cu!SizesOf(list.families[i])]
           P(f) == f = [i \in 1..n |-> IF i = 1 THEN seqs[i] ELSE f[i - 1] \o seqs[i]]
           flatten == CHOOSE f : P(f)
<1>1. n \in Nat /\ n # 0 /\ DOMAIN list.families = 1..n
  BY DEF Cu!ListOK
<1>2. ASSUME NEW i \in 1..n PROVE seqs[i] \in Seq(E)
  <2>1. PICK f \in Cu!ToSet(list.families) : f = list.families[i]
    BY <1>1 DEF Cu!ToSet
  <2>2. f.sizes \in Seq(Cu!ToSet(f.sizes))
    BY <2>1 DEF Cu!ListOK
  <2>3. Len(f.sizes) \in Nat /\ DOMAIN f.sizes = 1..Len(f.sizes)
    BY <2>2
  <2>4. \A k \in DOMAIN f.sizes : f.sizes[k] \in Cu!ToSet(f.sizes)
    BY DEF Cu!ToSet
  <2>5. \A k \in DOMAIN f.sizes : [family |-> f.id, size |-> f.sizes[k]] \in E
    <3>1. {[family |-> f.id, size |-> s] : s \in Cu!ToSet(f.sizes)} \subseteq E
      BY DEF EntriesOf
    <3> HIDE DEF E
    <3> QED
      BY <2>4, <3>1
  <2>6. seqs[i] = [k \in 1..Len(f.sizes) |-> [family |-> f.id, size |-> f.sizes[k]]]
    BY <1>1, <2>1, <2>3 DEF Cu!SizesOf
  <2> HIDE DEF seqs, E
  <2>7. seqs[i] \in [1..Len(f.sizes) -> E]
    BY <2>3, <2>5, <2>6
  <2> QED
    BY <2>3, <2>7
<1>3. seqs \in Seq(Seq(E)) /\ Len(seqs) = n
  <2>1. seqs \in [1..n -> Seq(E)]
    BY <1>1, <1>2
  <2> HIDE DEF seqs, n, E
  <2> QED
    BY <1>1, <2>1
<1>4. \E f : P(f)
  <2> DEFINE step == [iv \in (1..n) \X Seq(E) |-> IF iv[1] = 1 THEN seqs[iv[1]] ELSE iv[2] \o seqs[iv[1]]]
  <2> HIDE DEF seqs, n, E
  <2>1. step \in [(1..n) \X Seq(E) -> Seq(E)]
    <3>1. ASSUME NEW i \in 1..n, NEW v \in Seq(E) PROVE (IF i = 1 THEN seqs[i] ELSE v \o seqs[i]) \in Seq(E)
      BY <1>2
    <3>2. \A iv \in (1..n) \X Seq(E) : (IF iv[1] = 1 THEN seqs[iv[1]] ELSE iv[2] \o seqs[iv[1]]) \in Seq(E)
      BY <3>1
    <3> QED
      BY <3>2
  <2>2. << >> \in Seq(E)
    OBVIOUS
  <2>3. PICK it \in [SUBSET (1..n) -> Seq(E)] : FoldsBy(it, << >>, step, n)
    <3> HIDE DEF step
    <3> QED
      BY <1>1, <2>1, <2>2, FoldExists
  <2> DEFINE f == [i \in 1..n |-> it[1..i]]
  <2>4. ASSUME NEW i \in 1..n PROVE f[i] = IF i = 1 THEN seqs[i] ELSE f[i - 1] \o seqs[i]
    <3>1. Max(1..i) = i /\ (1..i) \ {i} = 1..(i - 1) /\ 1..i # {} /\ 1..i \in SUBSET (1..n) /\ 1..(i - 1) \in SUBSET (1..n)
      BY <1>1, MaxOfFirst
    <3>2. it[1..i] = step[<<i, it[1..(i - 1)]>>]
      <4> HIDE DEF step
      <4>1. \A s \in SUBSET (1..n) : it[s] = IF s = {} THEN << >> ELSE step[<<Max(s), it[s \ {Max(s)}]>>]
        BY <2>3 DEF FoldsBy
      <4>2. it[1..i] = step[<<Max(1..i), it[(1..i) \ {Max(1..i)}]>>]
        BY <3>1, <4>1
      <4> QED
        BY <3>1, <4>2
    <3>3. it[1..(i - 1)] \in Seq(E)
      BY <2>3, <3>1
    <3>4. step[<<i, it[1..(i - 1)]>>] = IF i = 1 THEN seqs[i] ELSE it[1..(i - 1)] \o seqs[i]
      BY <3>3
    <3>5. i # 1 => i - 1 \in 1..n
      BY <1>1
    <3> QED
      BY <3>2, <3>4, <3>5
  <2>5. P(f)
    BY <2>4
  <2> QED
    BY <2>5
<1>5. P(flatten)
  <2> HIDE DEF P
  <2> QED
    BY <1>4
<1>6. \A i \in 1..n : flatten[i] = IF i = 1 THEN seqs[i] ELSE flatten[i - 1] \o seqs[i]
  BY <1>5
<1>7. Cu!AllSizes(list) = flatten[n]
  BY <1>1, <1>3 DEF Cu!AllSizes, Cu!FlattenSeq
<1> HIDE DEF flatten, seqs, n, E
<1> DEFINE Wrong == {i \in 1..n : flatten[i] \notin Seq(E)}
<1>8. 0 \notin Wrong /\ \A i \in 1..n : i \in Wrong => i - 1 \in Wrong
  <2>1. ASSUME NEW i \in 1..n, i - 1 \notin Wrong PROVE i \notin Wrong
    <3>1. CASE i = 1
      BY <1>2, <1>6, <3>1
    <3>2. CASE i # 1
      <4>1. i - 1 \in 1..n /\ flatten[i - 1] \in Seq(E)
        BY <1>1, <2>1, <3>2
      <4>2. flatten[i] = flatten[i - 1] \o seqs[i]
        BY <1>6, <3>2
      <4>3. seqs[i] \in Seq(E)
        BY <1>2
      <4>4. flatten[i - 1] \o seqs[i] \in Seq(E)
        BY <4>1, <4>3
      <4> QED
        BY <4>2, <4>4
    <3> QED
      BY <3>1, <3>2
  <2> QED
    BY <2>1
<1>9. n \notin Wrong
  <2>1. n \in 0..n
    BY <1>1
  <2> HIDE DEF Wrong
  <2> QED
    BY <1>1, <1>8, <2>1, StaysThroughout
<1> QED
  BY <1>1, <1>7, <1>9 DEF E

(* Rows of which no two are of one size.                                   *)
Keyed(rows) == \A i, j \in DOMAIN rows : Cu!KeyOf(rows[i]) = Cu!KeyOf(rows[j]) => i = j
Rows(F, S) == [family : F, size : S, present : BOOLEAN]

LEMMA RowIs ==
    ASSUME NEW F, NEW S, NEW e \in [family : F, size : S]
    PROVE  /\ Cu!Row(e) \in Rows(F, S) /\ Cu!Row(e).present /\ Cu!KeyOf(Cu!Row(e)) = Cu!KeyOf(e)
           /\ Cu!Row(e).family = e.family /\ Cu!Row(e).size = e.size
BY DEF Cu!Row, Cu!KeyOf, Rows

LEMMA UpsertStays ==
    ASSUME NEW F, NEW S, NEW e \in [family : F, size : S], NEW rows \in Seq(Rows(F, S))
    PROVE  Cu!Upserted(rows, e) \in Seq(Rows(F, S))
<1> DEFINE r == Cu!Row(e)
           R == Rows(F, S)
           k == Cu!Min(Cu!RowOf(rows, e))
<1>1. r \in R
  BY RowIs
<1>2. Cu!Upserted(rows, e) = IF Cu!RowOf(rows, e) = {} THEN Append(rows, r) ELSE [rows EXCEPT ![k] = r]
  BY DEF Cu!Upserted
<1> HIDE DEF r, R, k
<1>3. Append(rows, r) \in Seq(R)
  BY <1>1 DEF R
<1>4. [rows EXCEPT ![k] = r] \in Seq(R)
  <2>1. Len(rows) \in Nat /\ rows \in [1..Len(rows) -> R]
    BY DEF R
  <2>2. [rows EXCEPT ![k] = r] \in [1..Len(rows) -> R]
    BY <1>1, <2>1
  <2> QED
    BY <2>1, <2>2
<1> QED
  BY <1>2, <1>3, <1>4 DEF R

(* A size's row is written, or added at the end; the others stay.          *)
LEMMA UpsertIs ==
    ASSUME NEW F, NEW S, NEW e \in [family : F, size : S], NEW rows \in Seq(Rows(F, S)), Keyed(rows),
           NEW up, up = Cu!Upserted(rows, e)
    PROVE  /\ Keyed(up) /\ DOMAIN rows \subseteq DOMAIN up
           /\ \A i \in DOMAIN rows : Cu!KeyOf(up[i]) = Cu!KeyOf(rows[i])
           /\ \A i \in DOMAIN up : IF Cu!KeyOf(up[i]) = Cu!KeyOf(e) THEN up[i] = Cu!Row(e) ELSE i \in DOMAIN rows /\ up[i] = rows[i]
           /\ \E i \in DOMAIN up : up[i] = Cu!Row(e)
<1> DEFINE r == Cu!Row(e)
           n == Len(rows)
<1>1. n \in Nat /\ DOMAIN rows = 1..n
  OBVIOUS
<1>2. Cu!KeyOf(r) = Cu!KeyOf(e)
  BY RowIs
<1>3. \A i : i \in Cu!RowOf(rows, e) <=> i \in DOMAIN rows /\ Cu!KeyOf(rows[i]) = Cu!KeyOf(e)
  BY DEF Cu!RowOf
<1> HIDE DEF r
<1>4. CASE Cu!RowOf(rows, e) = {}
  <2>1. up = Append(rows, r)
    BY <1>4 DEF Cu!Upserted, r
  <2>2. DOMAIN up = 1..(n + 1) /\ up[n + 1] = r /\ \A i \in 1..n : up[i] = rows[i]
    BY <1>1, <2>1
  <2>3. \A i \in 1..(n + 1) : i \in 1..n \/ i = n + 1
    BY <1>1
  <2>4. \A i \in 1..n : Cu!KeyOf(rows[i]) # Cu!KeyOf(e)
    BY <1>1, <1>3, <1>4
  <2> HIDE DEF n
  <2>5. n + 1 \in DOMAIN up /\ 1..n \subseteq DOMAIN up
    BY <1>1, <2>2
  <2>6. Keyed(up)
    <3> SUFFICES ASSUME NEW i \in DOMAIN up, NEW j \in DOMAIN up, Cu!KeyOf(up[i]) = Cu!KeyOf(up[j]) PROVE i = j
      BY DEF Keyed
    <3>1. CASE i \in 1..n /\ j \in 1..n
      BY <1>1, <2>2, <3>1 DEF Keyed
    <3>2. CASE i = n + 1 /\ j \in 1..n
      BY <1>2, <2>2, <2>4, <3>2
    <3>3. CASE j = n + 1 /\ i \in 1..n
      BY <1>2, <2>2, <2>4, <3>3
    <3> QED
      BY <2>2, <2>3, <3>1, <3>2, <3>3
  <2>7. \A i \in DOMAIN up : IF Cu!KeyOf(up[i]) = Cu!KeyOf(e) THEN up[i] = r ELSE i \in DOMAIN rows /\ up[i] = rows[i]
    BY <1>1, <1>2, <2>2, <2>3, <2>4
  <2> QED
    BY <1>1, <2>2, <2>5, <2>6, <2>7 DEF r
<1>5. CASE Cu!RowOf(rows, e) # {}
  <2>1. PICK k \in DOMAIN rows : Cu!KeyOf(rows[k]) = Cu!KeyOf(e)
    BY <1>3, <1>5
  <2>2. Cu!RowOf(rows, e) = {k}
    BY <1>3, <2>1 DEF Keyed
  <2>3. Cu!Min(Cu!RowOf(rows, e)) = k
    BY <1>1, <2>1, <2>2 DEF Cu!Min
  <2>4. up = [rows EXCEPT ![k] = r]
    BY <1>5, <2>3 DEF Cu!Upserted, r
  <2>5. DOMAIN up = DOMAIN rows /\ up[k] = r /\ \A i \in DOMAIN rows : i # k => up[i] = rows[i]
    BY <2>1, <2>4
  <2>6. \A i \in DOMAIN rows : Cu!KeyOf(up[i]) = Cu!KeyOf(rows[i])
    BY <1>2, <2>1, <2>5
  <2>7. \A i \in DOMAIN rows : Cu!KeyOf(rows[i]) = Cu!KeyOf(e) => i = k
    BY <2>1 DEF Keyed
  <2>8. Keyed(up)
    BY <2>5, <2>6 DEF Keyed
  <2> QED
    BY <2>1, <2>5, <2>6, <2>7, <2>8 DEF r
<1> QED
  BY <1>4, <1>5

(* The rows after one size after another is written.                       *)
SyncsBy(it, rows, es, n) ==
    it = [s \in SUBSET (1..n) |-> IF s = {} THEN Cu!Hidden(rows) ELSE Cu!Upserted(it[s \ {Max(s)}], es[Max(s)])]

LEMMA HiddenIs ==
    ASSUME NEW F, NEW S, NEW rows \in Seq(Rows(F, S))
    PROVE  /\ Cu!Hidden(rows) \in Seq(Rows(F, S)) /\ DOMAIN Cu!Hidden(rows) = DOMAIN rows
           /\ \A i \in DOMAIN rows : ~Cu!Hidden(rows)[i].present /\ Cu!KeyOf(Cu!Hidden(rows)[i]) = Cu!KeyOf(rows[i])
<1> DEFINE hidden == Cu!Hidden(rows)
<1>1. Len(rows) \in Nat /\ DOMAIN rows = 1..Len(rows) /\ \A i \in DOMAIN rows : rows[i] \in Rows(F, S)
  OBVIOUS
<1>2. hidden = [i \in DOMAIN rows |-> [rows[i] EXCEPT !.present = FALSE]]
  BY DEF Cu!Hidden
<1>3. \A i \in DOMAIN rows : /\ hidden[i] \in Rows(F, S) /\ ~hidden[i].present
                             /\ hidden[i].family = rows[i].family /\ hidden[i].size = rows[i].size
  BY <1>1, <1>2 DEF Rows
<1>4. hidden \in Seq(Rows(F, S))
  <2>1. hidden \in [1..Len(rows) -> Rows(F, S)]
    BY <1>1, <1>2, <1>3
  <2> HIDE DEF hidden
  <2> QED
    BY <1>1, <2>1
<1>5. DOMAIN hidden = DOMAIN rows
  BY <1>2
<1> HIDE DEF hidden
<1>6. \A i \in DOMAIN rows : Cu!KeyOf(hidden[i]) = Cu!KeyOf(rows[i])
  BY <1>3 DEF Cu!KeyOf
<1> QED
  BY <1>3, <1>4, <1>5, <1>6 DEF hidden

LEMMA SyncExists ==
    ASSUME NEW n \in Nat, NEW F, NEW S, NEW es, \A i \in 1..n : es[i] \in [family : F, size : S],
           NEW rows \in Seq(Rows(F, S))
    PROVE  \E it : SyncsBy(it, rows, es, n)
<1> DEFINE V == Seq(Rows(F, S))
           step == [iv \in (1..n) \X V |-> Cu!Upserted(iv[2], es[iv[1]])]
           base == Cu!Hidden(rows)
<1>1. base \in V
  BY HiddenIs
<1>2. step \in [(1..n) \X V -> V]
  BY UpsertStays
<1> HIDE DEF base, V
<1>3. PICK it \in [SUBSET (1..n) -> V] : FoldsBy(it, base, step, n)
  <2> HIDE DEF step
  <2> QED
    BY <1>1, <1>2, FoldExists
<1>4. ASSUME NEW s \in SUBSET (1..n), s # {}
      PROVE  step[<<Max(s), it[s \ {Max(s)}]>>] = Cu!Upserted(it[s \ {Max(s)}], es[Max(s)])
  <2>1. Max(s) \in s
    BY <1>4, LastIsIn
  <2>2. it[s \ {Max(s)}] \in V
    BY <1>3
  <2> QED
    BY <2>1, <2>2
<1> HIDE DEF step
<1>5. it = [s \in SUBSET (1..n) |-> IF s = {} THEN base ELSE Cu!Upserted(it[s \ {Max(s)}], es[Max(s)])]
  BY <1>3, <1>4 DEF FoldsBy
<1> QED
  BY <1>5 DEF SyncsBy, base

LEMMA SyncIsFold ==
    ASSUME NEW list, NEW n \in Nat, DOMAIN Cu!AllSizes(list) = 1..n, NEW rows, \E it : SyncsBy(it, rows, Cu!AllSizes(list), n)
    PROVE  \E it : SyncsBy(it, rows, Cu!AllSizes(list), n) /\ Cu!Sync(rows, list) = it[1..n]
<1> DEFINE es == Cu!AllSizes(list)
           P(it) == it = [s \in SUBSET (1..n) |-> IF s = {} THEN Cu!Hidden(rows) ELSE Cu!Upserted(it[s \ {Cu!Max(s)}], es[Cu!Max(s)])]
           loop == CHOOSE it : P(it)
<1>1. \A s : Max(s) = Cu!Max(s)
  BY DEF Max, Cu!Max
<1>2. \A it : SyncsBy(it, rows, es, n) <=> P(it)
  BY <1>1 DEF SyncsBy
<1> HIDE DEF P
<1>3. P(loop)
  BY <1>2
<1>4. Cu!Sync(rows, list) = loop[1..n]
  <2> HIDE DEF es
  <2>1. DOMAIN es = 1..n
    BY DEF es
  <2>2. Cu!Sync(rows, list) = Cu!FoldLeft(Cu!Upserted, Cu!Hidden(rows), es)
    BY DEF Cu!Sync, es
  <2> QED
    BY <2>1, <2>2 DEF Cu!FoldLeft, Cu!MapThenFoldSet, P
<1> QED
  BY <1>2, <1>3, <1>4

LEMMA SyncNext ==
    ASSUME NEW n \in Nat, NEW es, NEW rows, NEW it, SyncsBy(it, rows, es, n)
    PROVE  it[1..0] = Cu!Hidden(rows) /\ \A i \in 1..n : it[1..i] = Cu!Upserted(it[1..(i - 1)], es[i])
<1>1. \A s \in SUBSET (1..n) : it[s] = IF s = {} THEN Cu!Hidden(rows) ELSE Cu!Upserted(it[s \ {Max(s)}], es[Max(s)])
  BY DEF SyncsBy
<1>2. ASSUME NEW i \in 1..n PROVE it[1..i] = Cu!Upserted(it[1..(i - 1)], es[i])
  <2>1. Max(1..i) = i /\ (1..i) \ {i} = 1..(i - 1) /\ 1..i # {} /\ 1..i \in SUBSET (1..n)
    BY MaxOfFirst
  <2>2. it[1..i] = Cu!Upserted(it[(1..i) \ {Max(1..i)}], es[Max(1..i)])
    BY <1>1, <2>1
  <2> QED
    BY <2>1, <2>2
<1>3. 1..0 = {} /\ {} \in SUBSET (1..n)
  OBVIOUS
<1> QED
  BY <1>1, <1>2, <1>3

(* Once k sizes are written: a row that was there is still of its size,    *)
(* each of the k has a row, and the rows present are those.                *)
SyncedTo(now, rows, es, k, F, S) ==
    /\ now \in Seq(Rows(F, S)) /\ Keyed(now) /\ DOMAIN rows \subseteq DOMAIN now
    /\ \A i \in DOMAIN rows : Cu!KeyOf(now[i]) = Cu!KeyOf(rows[i])
    /\ \A i \in DOMAIN now : now[i].present => \E j \in 1..k : now[i] = Cu!Row(es[j])
    /\ \A j \in 1..k : \E i \in DOMAIN now : now[i] = Cu!Row(es[j])

LEMMA SyncIs ==
    ASSUME NEW list, NEW n \in Nat, NEW F, NEW S, NEW es, es = Cu!AllSizes(list), DOMAIN es = 1..n,
           \A i \in 1..n : es[i] \in [family : F, size : S],
           \A i, j \in 1..n : Cu!KeyOf(es[i]) = Cu!KeyOf(es[j]) => i = j,
           NEW rows \in Seq(Rows(F, S)), Keyed(rows)
    PROVE  SyncedTo(Cu!Sync(rows, list), rows, es, n, F, S)
<1>1. PICK it : SyncsBy(it, rows, es, n) /\ Cu!Sync(rows, list) = it[1..n]
  BY SyncExists, SyncIsFold
<1>2. it[1..0] = Cu!Hidden(rows) /\ \A i \in 1..n : it[1..i] = Cu!Upserted(it[1..(i - 1)], es[i])
  BY <1>1, SyncNext
<1> DEFINE Wrong == {k \in 0..n : ~SyncedTo(it[1..k], rows, es, k, F, S)}
<1>3. 0 \notin Wrong
  <2>1. /\ it[1..0] \in Seq(Rows(F, S)) /\ DOMAIN it[1..0] = DOMAIN rows
        /\ \A i \in DOMAIN rows : ~it[1..0][i].present /\ Cu!KeyOf(it[1..0][i]) = Cu!KeyOf(rows[i])
    BY <1>2, HiddenIs
  <2>2. Keyed(it[1..0])
    BY <2>1 DEF Keyed
  <2>3. SyncedTo(it[1..0], rows, es, 0, F, S)
    BY <2>1, <2>2 DEF SyncedTo
  <2> QED
    BY <2>3
<1>4. ASSUME NEW k \in 1..n, SyncedTo(it[1..(k - 1)], rows, es, k - 1, F, S)
      PROVE  SyncedTo(it[1..k], rows, es, k, F, S)
  <2> DEFINE old == it[1..(k - 1)]
             new == it[1..k]
             e == es[k]
  <2>1. new = Cu!Upserted(old, e) /\ e \in [family : F, size : S] /\ k - 1 \in Nat
    BY <1>2
  <2>2. old \in Seq(Rows(F, S)) /\ Keyed(old)
    BY <1>4 DEF SyncedTo
  <2> HIDE DEF old, new
  <2>3. new \in Seq(Rows(F, S))
    BY <2>1, <2>2, UpsertStays
  <2>4. /\ Keyed(new) /\ DOMAIN old \subseteq DOMAIN new
        /\ \A i \in DOMAIN old : Cu!KeyOf(new[i]) = Cu!KeyOf(old[i])
        /\ \A i \in DOMAIN new : IF Cu!KeyOf(new[i]) = Cu!KeyOf(e) THEN new[i] = Cu!Row(e) ELSE i \in DOMAIN old /\ new[i] = old[i]
        /\ \E i \in DOMAIN new : new[i] = Cu!Row(e)
    <3> HIDE DEF e
    <3> QED
      BY <2>1, <2>2, UpsertIs
  <2>5. /\ DOMAIN rows \subseteq DOMAIN old /\ \A i \in DOMAIN rows : Cu!KeyOf(old[i]) = Cu!KeyOf(rows[i])
        /\ \A i \in DOMAIN old : old[i].present => \E j \in 1..(k - 1) : old[i] = Cu!Row(es[j])
        /\ \A j \in 1..(k - 1) : \E i \in DOMAIN old : old[i] = Cu!Row(es[j])
    BY <1>4 DEF SyncedTo, old
  <2>6. 1..(k - 1) \subseteq 1..k /\ k \in 1..k /\ \A j \in 1..k : j = k \/ j \in 1..(k - 1)
    OBVIOUS
  <2>7. DOMAIN rows \subseteq DOMAIN new /\ \A i \in DOMAIN rows : Cu!KeyOf(new[i]) = Cu!KeyOf(rows[i])
    BY <2>4, <2>5
  <2>8. ASSUME NEW i \in DOMAIN new, new[i].present PROVE \E j \in 1..k : new[i] = Cu!Row(es[j])
    <3>1. CASE Cu!KeyOf(new[i]) = Cu!KeyOf(e)
      BY <2>4, <2>6, <3>1
    <3>2. CASE Cu!KeyOf(new[i]) # Cu!KeyOf(e)
      BY <2>4, <2>5, <2>6, <2>8, <3>2
    <3> QED
      BY <3>1, <3>2
  <2>9. ASSUME NEW j \in 1..k PROVE \E i \in DOMAIN new : new[i] = Cu!Row(es[j])
    <3>1. CASE j = k
      BY <2>4, <3>1
    <3>2. CASE j \in 1..(k - 1)
      <4>1. PICK i \in DOMAIN old : old[i] = Cu!Row(es[j])
        BY <2>5, <3>2
      <4>2. j \in 1..n /\ k \in 1..n /\ j # k
        BY <3>2
      <4>3. Cu!KeyOf(old[i]) = Cu!KeyOf(es[j])
        BY <4>1, <4>2, RowIs
      <4>4. Cu!KeyOf(es[j]) # Cu!KeyOf(e)
        BY <4>2
      <4>5. i \in DOMAIN new /\ new[i] = old[i]
        <5>1. i \in DOMAIN new /\ Cu!KeyOf(new[i]) # Cu!KeyOf(e)
          BY <2>4, <4>3, <4>4
        <5> QED
          BY <2>4, <5>1
      <4> QED
        BY <4>1, <4>5
    <3> QED
      BY <2>6, <3>1, <3>2
  <2>10. SyncedTo(new, rows, es, k, F, S)
    BY <2>3, <2>4, <2>7, <2>8, <2>9 DEF SyncedTo
  <2> QED
    BY <2>10 DEF new
<1>5. \A k \in 1..n : k \in Wrong => k - 1 \in Wrong
  <2>1. \A k \in 1..n : k - 1 \in 0..n
    OBVIOUS
  <2> QED
    BY <1>4, <2>1
<1>6. n \notin Wrong
  <2>1. n \in 0..n
    OBVIOUS
  <2> HIDE DEF Wrong
  <2> QED
    BY <1>3, <1>5, <2>1, StaysThroughout
<1> QED
  BY <1>1, <1>6

(* The same of any finite set: counting those ahead gives each a place.    *)
LEMMA CountsArePlaces ==
    ASSUME NEW T, IsFiniteSet(T), NEW ahead \in [T -> SUBSET T],
           \A i \in T : i \notin ahead[i],
           \A i, j \in T : i # j => i \in ahead[j] \/ j \in ahead[i],
           \A i, j \in T : i \in ahead[j] => ahead[i] \subseteq ahead[j]
    PROVE  /\ \A i \in T : Cardinality(ahead[i]) + 1 \in 1..Cardinality(T) /\ Cardinality(ahead[i]) \in Nat
           /\ \A i, j \in T : Cardinality(ahead[i]) = Cardinality(ahead[j]) => i = j
           /\ \A k \in 1..Cardinality(T) : \E i \in T : Cardinality(ahead[i]) = k - 1
<1> DEFINE n == Cardinality(T)
           count == [i \in T |-> Cardinality(ahead[i]) + 1]
<1>1. n \in Nat
  BY FS_CardinalityType
<1>2. ASSUME NEW i \in T PROVE IsFiniteSet(ahead[i]) /\ Cardinality(ahead[i]) \in Nat /\ Cardinality(ahead[i]) + 1 \in 1..n
  <2>1. ahead[i] \subseteq T \ {i}
    OBVIOUS
  <2>2. IsFiniteSet(T \ {i}) /\ Cardinality(T \ {i}) = n - 1
    BY FS_RemoveElement
  <2>3. IsFiniteSet(ahead[i]) /\ Cardinality(ahead[i]) <= n - 1
    BY <2>1, <2>2, FS_Subset
  <2>4. Cardinality(ahead[i]) \in Nat
    BY <2>3, FS_CardinalityType
  <2> HIDE DEF n
  <2> QED
    BY <1>1, <2>3, <2>4
<1>3. ASSUME NEW i \in T, NEW j \in T, i \in ahead[j] PROVE Cardinality(ahead[i]) < Cardinality(ahead[j])
  <2>1. ahead[i] \subseteq ahead[j] /\ ahead[i] # ahead[j]
    BY <1>3
  <2>2. Cardinality(ahead[i]) <= Cardinality(ahead[j]) /\ Cardinality(ahead[i]) # Cardinality(ahead[j])
    BY <1>2, <2>1, FS_Subset
  <2> QED
    BY <1>2, <2>2
<1>4. ASSUME NEW i \in T, NEW j \in T, Cardinality(ahead[i]) = Cardinality(ahead[j]) PROVE i = j
  BY <1>2, <1>3, <1>4
<1>5. \A i \in T : count[i] \in 1..n
  BY <1>2
<1>6. \A i, j \in T : count[i] = count[j] => i = j
  <2> SUFFICES ASSUME NEW i \in T, NEW j \in T, count[i] = count[j] PROVE i = j
    OBVIOUS
  <2>1. Cardinality(ahead[i]) + 1 = Cardinality(ahead[j]) + 1
    OBVIOUS
  <2>2. Cardinality(ahead[i]) = Cardinality(ahead[j])
    BY <1>2, <2>1
  <2> QED
    BY <1>4, <2>2
<1>7. count \in Surjection(T, 1..n)
  <2>1. IsFiniteSet(1..n) /\ Cardinality(1..n) = n
    BY <1>1, FS_Interval
  <2>2. count \in Injection(T, 1..n)
    BY <1>5, <1>6 DEF Injection, IsInjective
  <2> QED
    BY <2>1, <2>2, FS_Injection
<1>8. ASSUME NEW k \in 1..n PROVE \E i \in T : Cardinality(ahead[i]) = k - 1
  <2>1. PICK i \in T : count[i] = k
    BY <1>7 DEF Surjection
  <2>2. Cardinality(ahead[i]) + 1 = k
    BY <2>1
  <2> QED
    BY <1>2, <2>2
<1> QED
  BY <1>2, <1>4, <1>8

(* The order of the rows that are present, and the candidates.             *)
IsBefore(rows, order, i, j) ==
    \/ order[rows[i].family] < order[rows[j].family]
    \/ rows[i].family = rows[j].family /\ rows[i].size.params < rows[j].size.params
Present(rows) == {i \in DOMAIN rows : rows[i].present}

(* The rows are of sizes and families that can be put in order.            *)
Orderable(rows, order) ==
    /\ Keyed(rows) /\ IsFiniteSet(Present(rows))
    /\ \A i \in Present(rows) : rows[i].size.params \in Nat /\ order[rows[i].family] \in Nat
    /\ \A i, j \in Present(rows) : order[rows[i].family] = order[rows[j].family] => rows[i].family = rows[j].family

CandidateOf(rows, i) == [id |-> i, base |-> rows[i].size.base, tag |-> rows[i].size.tag,
                         repo |-> rows[i].size.repo, params |-> rows[i].size.params, files |-> << >>]

LEMMA CandidatesAre ==
    ASSUME NEW rows, NEW order, Orderable(rows, order), NEW cands, cands = Cu!Candidates(rows, order)
    PROVE  /\ DOMAIN cands = 1..Cardinality(Present(rows))
           /\ \A k \in DOMAIN cands : \E i \in Present(rows) : cands[k] = CandidateOf(rows, i)
           /\ \A i \in Present(rows) : \E k \in DOMAIN cands : cands[k] = CandidateOf(rows, i)
<1> DEFINE T == Present(rows)
           n == Cardinality(T)
           ahead == [i \in T |-> {j \in T : IsBefore(rows, order, j, i)}]
           ids == [k \in 1..n |-> CHOOSE i \in T : Cardinality({j \in T : IsBefore(rows, order, j, i)}) = k - 1]
<1>1. /\ IsFiniteSet(T)
      /\ \A i \in T : rows[i].size.params \in Nat /\ order[rows[i].family] \in Nat
      /\ \A i, j \in T : order[rows[i].family] = order[rows[j].family] => rows[i].family = rows[j].family
  BY DEF Orderable
<1>2. \A i, j \in T : rows[i].family = rows[j].family /\ rows[i].size.params = rows[j].size.params => i = j
  BY DEF Orderable, Keyed, Cu!KeyOf, Present
<1> HIDE DEF T
<1>3. \A i, j \in T : i \in ahead[j] <=> IsBefore(rows, order, i, j)
  OBVIOUS
<1>4. ahead \in [T -> SUBSET T]
  OBVIOUS
<1> DEFINE o == [i \in T |-> order[rows[i].family]]
           f == [i \in T |-> rows[i].family]
           p == [i \in T |-> rows[i].size.params]
<1>5. \A i, j \in T : IsBefore(rows, order, i, j) <=> o[i] < o[j] \/ (f[i] = f[j] /\ p[i] < p[j])
  BY DEF IsBefore
<1>6. /\ \A i \in T : o[i] \in Nat /\ p[i] \in Nat
      /\ \A i, j \in T : o[i] = o[j] <=> f[i] = f[j]
      /\ \A i, j \in T : f[i] = f[j] /\ p[i] = p[j] => i = j
  BY <1>1, <1>2
<1> HIDE DEF ahead, o, f, p
<1>7. \A i, j \in T : i \in ahead[j] <=> o[i] < o[j] \/ (o[i] = o[j] /\ p[i] < p[j])
  BY <1>3, <1>5, <1>6
<1>8. \A i \in T : i \notin ahead[i]
  BY <1>6, <1>7
<1>9. \A i, j \in T : i # j => i \in ahead[j] \/ j \in ahead[i]
  BY <1>6, <1>7
<1>10. ASSUME NEW i \in T, NEW j \in T, i \in ahead[j] PROVE ahead[i] \subseteq ahead[j]
  <2> SUFFICES ASSUME NEW k \in ahead[i] PROVE k \in ahead[j]
    OBVIOUS
  <2>1. k \in T
    BY <1>4
  <2> QED
    BY <1>6, <1>7, <1>10, <2>1
<1>11. /\ \A i \in T : Cardinality(ahead[i]) + 1 \in 1..n /\ Cardinality(ahead[i]) \in Nat
       /\ \A i, j \in T : Cardinality(ahead[i]) = Cardinality(ahead[j]) => i = j
       /\ \A k \in 1..n : \E i \in T : Cardinality(ahead[i]) = k - 1
  BY <1>1, <1>4, <1>8, <1>9, <1>10, CountsArePlaces
<1>12. \A i \in T : ahead[i] = {j \in T : IsBefore(rows, order, j, i)}
  BY DEF ahead
<1>13. ASSUME NEW k \in 1..n PROVE ids[k] \in T /\ Cardinality(ahead[ids[k]]) = k - 1
  <2>1. \E i \in T : Cardinality({j \in T : IsBefore(rows, order, j, i)}) = k - 1
    BY <1>11, <1>12
  <2>2. ids[k] \in T /\ Cardinality({j \in T : IsBefore(rows, order, j, ids[k])}) = k - 1
    BY <2>1
  <2> HIDE DEF ids
  <2> QED
    BY <1>12, <2>2
<1>14. DOMAIN ids = 1..n
  OBVIOUS
<1>15. cands = [k \in 1..n |-> CandidateOf(rows, ids[k])]
  <2> DEFINE Ids == [k \in 1..Cu!Cardinality(T) |-> CHOOSE i \in T : Cu!Cardinality({j \in T : IsBefore(rows, order, j, i)}) = k - 1]
  <2>1. Ids = ids
    BY DEF Cu!Cardinality, Cardinality
  <2>2. cands = [k \in DOMAIN Ids |-> CandidateOf(rows, Ids[k])]
    BY DEF Cu!Candidates, CandidateOf, T, Present, IsBefore
  <2> HIDE DEF Ids, ids
  <2> QED
    BY <1>14, <2>1, <2>2
<1> HIDE DEF ids, n
<1>16. ASSUME NEW i \in T PROVE \E k \in 1..n : ids[k] = i
  <2>1. Cardinality(ahead[i]) + 1 \in 1..n /\ Cardinality(ahead[i]) \in Nat
    BY <1>11
  <2> DEFINE k == Cardinality(ahead[i]) + 1
  <2>2. Cardinality(ahead[ids[k]]) = Cardinality(ahead[i]) /\ ids[k] \in T
    <3>1. k - 1 = Cardinality(ahead[i])
      BY <2>1
    <3>2. k \in 1..n
      BY <2>1
    <3> HIDE DEF k
    <3> QED
      BY <1>13, <3>1, <3>2
  <2>3. ids[k] = i
    BY <1>11, <2>2
  <2> QED
    BY <2>1, <2>3
<1> QED
  BY <1>13, <1>15, <1>16 DEF T, n

(* The rows of a list that was written: one for each of its sizes.         *)
StandFor(now, all) ==
    /\ \A e \in all : \E i \in Present(now) : now[i] = Cu!Row(e) /\ Cu!RowOf(now, e) = {i}
    /\ \A i \in Present(now) : \E e \in all : now[i] = Cu!Row(e)
    /\ Present(now) = UNION {Cu!RowOf(now, e) : e \in all}
    /\ Cardinality({Cu!RowOf(now, e) : e \in all}) = Cardinality(all)
    /\ IsFiniteSet(Present(now))

LEMMA RowsStand ==
    ASSUME NEW n \in Nat, NEW F, NEW S, NEW es, \A j \in 1..n : es[j] \in [family : F, size : S],
           NEW rows, NEW now, SyncedTo(now, rows, es, n, F, S),
           NEW all, \A e : e \in all <=> \E j \in 1..n : e = es[j],
           \A i, j \in 1..n : Cu!KeyOf(es[i]) = Cu!KeyOf(es[j]) => i = j
    PROVE  StandFor(now, all)
<1>1. /\ now \in Seq(Rows(F, S)) /\ Keyed(now)
      /\ \A i \in DOMAIN now : now[i].present => \E j \in 1..n : now[i] = Cu!Row(es[j])
      /\ \A j \in 1..n : \E i \in DOMAIN now : now[i] = Cu!Row(es[j])
  BY DEF SyncedTo
<1>2. \A e \in all : /\ e \in [family : F, size : S] /\ Cu!Row(e).present /\ Cu!KeyOf(Cu!Row(e)) = Cu!KeyOf(e)
  BY RowIs
<1>3. ASSUME NEW e \in all PROVE \E i \in Present(now) : now[i] = Cu!Row(e) /\ Cu!RowOf(now, e) = {i}
  <2>1. PICK i \in DOMAIN now : now[i] = Cu!Row(e)
    BY <1>1
  <2>2. i \in Present(now)
    BY <1>2, <2>1 DEF Present
  <2>3. Cu!KeyOf(now[i]) = Cu!KeyOf(e)
    BY <1>2, <2>1
  <2>4. Cu!RowOf(now, e) = {i}
    BY <1>1, <2>3 DEF Cu!RowOf, Keyed
  <2> QED
    BY <2>1, <2>2, <2>4
<1>4. ASSUME NEW i \in Present(now) PROVE \E e \in all : now[i] = Cu!Row(e)
  BY <1>1 DEF Present
<1>5. ASSUME NEW i \in Present(now) PROVE \E e \in all : i \in Cu!RowOf(now, e)
  <2>1. PICK e \in all : now[i] = Cu!Row(e)
    BY <1>4
  <2>2. i \in DOMAIN now /\ Cu!KeyOf(now[i]) = Cu!KeyOf(e)
    BY <1>2, <2>1 DEF Present
  <2>3. i \in Cu!RowOf(now, e)
    BY <2>2 DEF Cu!RowOf
  <2> QED
    BY <2>3
<1>6. Present(now) = UNION {Cu!RowOf(now, e) : e \in all}
  BY <1>3, <1>5
<1>7. IsFiniteSet(all)
  <2> DEFINE f == [j \in 1..n |-> es[j]]
  <2>1. IsFiniteSet(1..n)
    BY ONLY n \in Nat, FS_Interval
  <2>2. IsFiniteSet({f[j] : j \in 1..n})
    <3>1. DOMAIN f = 1..n
      OBVIOUS
    <3> HIDE DEF f
    <3> QED
      BY <2>1, <3>1, ImageIsFinite
  <2>3. all = {f[j] : j \in 1..n}
    OBVIOUS
  <2> QED
    BY <2>2, <2>3
<1>8. Cardinality({Cu!RowOf(now, e) : e \in all}) = Cardinality(all)
  <2> DEFINE R == {Cu!RowOf(now, e) : e \in all}
             g == [e \in all |-> Cu!RowOf(now, e)]
  <2>1. g \in Surjection(all, R)
    BY DEF Surjection
  <2>2. ASSUME NEW e \in all, NEW d \in all, g[e] = g[d] PROVE e = d
    <3>1. Cu!RowOf(now, e) = Cu!RowOf(now, d)
      BY <2>2
    <3>2. PICK i \in Present(now) : Cu!RowOf(now, e) = {i} /\ now[i] = Cu!Row(e)
      BY <1>3
    <3>3. PICK k \in Present(now) : Cu!RowOf(now, d) = {k} /\ now[k] = Cu!Row(d)
      BY <1>3
    <3>4. Cu!KeyOf(e) = Cu!KeyOf(d)
      BY <1>2, <3>1, <3>2, <3>3
    <3> QED
      BY <3>4
  <2>3. g \in Injection(all, R)
    BY <2>1, <2>2 DEF Injection, IsInjective, Surjection
  <2> QED
    BY <1>7, <2>1, <2>3, FS_Surjection
<1>9. IsFiniteSet(Present(now))
  <2>1. Len(now) \in Nat /\ DOMAIN now = 1..Len(now)
    BY <1>1
  <2>2. IsFiniteSet(1..Len(now)) /\ Present(now) \subseteq 1..Len(now)
    BY <2>1, FS_Interval DEF Present
  <2> QED
    BY <2>2, FS_Subset
<1> QED
  BY <1>3, <1>4, <1>6, <1>8, <1>9 DEF StandFor

LEMMA CandidateIs ==
    ASSUME NEW rows, NEW i, NEW c, c = CandidateOf(rows, i)
    PROVE  c.id = i /\ c.base = rows[i].size.base /\ c.tag = rows[i].size.tag
BY DEF CandidateOf

(* No two rows present are of one tag; a model pulled by a size's tag.      *)
TagsApart(rows) == \A j, k \in Present(rows) : rows[j].size.base = rows[k].size.base /\ rows[j].size.tag = rows[k].size.tag => j = k
PulledBy(s, params) == [name |-> [hub |-> FALSE, base |-> s.base, tag |-> s.tag, size |-> 0], params |-> params, quant |-> ""]

(* A model pulled by a size's own tag is of that size's row.               *)
LEMMA TagFinds ==
    ASSUME NEW rows, NEW order, Orderable(rows, order),
           TagsApart(rows), NEW i \in Present(rows), NEW params, NEW inst, inst = PulledBy(rows[i].size, params)
    PROVE  Cu!MatchInstalled(inst, Cu!Candidates(rows, order)).model = i
<1> DEFINE cands == Cu!Candidates(rows, order)
           exact == {k \in DOMAIN cands : cands[k].base = inst.name.base /\ cands[k].tag = inst.name.tag}
<1>1. /\ DOMAIN cands = 1..Cardinality(Present(rows))
      /\ \A k \in DOMAIN cands : \E j \in Present(rows) : cands[k] = CandidateOf(rows, j)
      /\ \A j \in Present(rows) : \E k \in DOMAIN cands : cands[k] = CandidateOf(rows, j)
  <2>1. cands = Cu!Candidates(rows, order)
    OBVIOUS
  <2> HIDE DEF cands
  <2> QED
    BY <2>1, CandidatesAre
<1>2. Cu!MatchInstalled(inst, cands) = IF exact # {} THEN Cu!WithQuant(cands[Cu!Min(exact)], inst.quant) ELSE Cu!ByFamily(inst, cands)
  <2> HIDE DEF cands
  <2>1. inst.name.hub = FALSE
    BY DEF PulledBy
  <2> QED
    BY <2>1 DEF Cu!MatchInstalled
<1>3. inst.name.base = rows[i].size.base /\ inst.name.tag = rows[i].size.tag /\ inst.quant = ""
  BY DEF PulledBy
<1> HIDE DEF cands
<1>4. exact # {}
  <2>1. PICK k \in DOMAIN cands : cands[k] = CandidateOf(rows, i)
    BY <1>1
  <2>2. cands[k].base = rows[i].size.base /\ cands[k].tag = rows[i].size.tag
    BY <2>1, CandidateIs
  <2>3. k \in exact
    BY <1>3, <2>2
  <2> QED
    BY <2>3
<1>5. \A k \in exact : cands[k].id = i
  <2> SUFFICES ASSUME NEW k \in exact PROVE cands[k].id = i
    OBVIOUS
  <2>1. PICK j \in Present(rows) : cands[k] = CandidateOf(rows, j)
    BY <1>1
  <2>2. cands[k].id = j /\ cands[k].base = rows[j].size.base /\ cands[k].tag = rows[j].size.tag
    BY <2>1, CandidateIs
  <2>3. rows[j].size.base = rows[i].size.base /\ rows[j].size.tag = rows[i].size.tag
    BY <1>3, <2>2
  <2>4. j = i
    BY <2>3 DEF TagsApart
  <2> QED
    BY <2>2, <2>4
<1>6. Cu!Min(exact) \in exact
  <2>1. exact \subseteq Nat
    <3>1. Cardinality(Present(rows)) \in Nat
      BY FS_CardinalityType DEF Orderable
    <3> QED
      BY <1>1, <3>1
  <2> HIDE DEF exact
  <2> QED
    BY <1>4, <2>1, LeastNatural DEF Cu!Min
<1> HIDE DEF exact
<1>7. Cu!WithQuant(cands[Cu!Min(exact)], inst.quant).model = cands[Cu!Min(exact)].id
  BY <1>3 DEF Cu!WithQuant
<1> QED
  BY <1>2, <1>4, <1>5, <1>6, <1>7 DEF cands

LEMMA ListIs ==
    ASSUME NEW list, Cu!ListOK(list), Cu!Valid(list), NEW es, es = Cu!AllSizes(list)
    PROVE  \E n \in Nat : /\ DOMAIN es = 1..n /\ Cu!ToSet(es) = {es[j] : j \in 1..n}
                          /\ \A j \in 1..n : es[j] \in EntriesOf(list)
                          /\ \A i, j \in 1..n : Cu!KeyOf(es[i]) = Cu!KeyOf(es[j]) => i = j
                          /\ \A i, j \in 1..n : es[i].size.base = es[j].size.base /\ es[i].size.tag = es[j].size.tag => i = j
<1>1. es \in Seq(EntriesOf(list))
  BY AllSizesAre DEF Cu!Valid
<1>2. PICK n \in Nat : DOMAIN es = 1..n
  BY <1>1
<1>3. \A j \in 1..n : es[j] \in EntriesOf(list)
  BY <1>1, <1>2
<1> DEFINE tags == [i \in DOMAIN es |-> <<es[i].size.base, es[i].size.tag>>]
           keys == [i \in DOMAIN es |-> <<es[i].family, es[i].size.params>>]
<1>4. Cu!IsInjective(tags) /\ Cu!IsInjective(keys)
  BY DEF Cu!Valid, Cu!Distinct, Cu!NoneTwice
<1>5. \A i, j \in 1..n : tags[i] = tags[j] => i = j
  <2>1. DOMAIN tags = 1..n
    BY <1>2
  <2> HIDE DEF tags, keys
  <2> QED
    BY <1>4, <2>1 DEF Cu!IsInjective
<1>6. \A i, j \in 1..n : keys[i] = keys[j] => i = j
  <2>1. DOMAIN keys = 1..n
    BY <1>2
  <2> HIDE DEF tags, keys
  <2> QED
    BY <1>4, <2>1 DEF Cu!IsInjective
<1>7. \A i \in 1..n : tags[i] = <<es[i].size.base, es[i].size.tag>> /\ keys[i] = Cu!KeyOf(es[i])
  BY <1>2 DEF Cu!KeyOf
<1> HIDE DEF tags, keys
<1>8. \A i, j \in 1..n : Cu!KeyOf(es[i]) = Cu!KeyOf(es[j]) => i = j
  BY <1>6, <1>7
<1>9. \A i, j \in 1..n : es[i].size.base = es[j].size.base /\ es[i].size.tag = es[j].size.tag => i = j
  BY <1>5, <1>7
<1>10. Cu!ToSet(es) = {es[j] : j \in 1..n}
  BY <1>2 DEF Cu!ToSet
<1> QED
  BY <1>2, <1>3, <1>8, <1>9, <1>10

LEMMA EntriesAre ==
    ASSUME NEW list, Cu!ListOK(list), NEW order, Cu!OrderOK(order, list)
    PROVE  /\ \A e \in EntriesOf(list) : e.size.params \in Nat /\ order[e.family] \in Nat
           /\ \A d, e \in EntriesOf(list) : order[d.family] = order[e.family] => d.family = e.family
<1>1. ASSUME NEW e \in EntriesOf(list) PROVE e.size.params \in Nat /\ \E f \in Cu!ToSet(list.families) : e.family = f.id
  <2>1. PICK f \in Cu!ToSet(list.families) : e \in {[family |-> f.id, size |-> s] : s \in Cu!ToSet(f.sizes)}
    BY DEF EntriesOf
  <2>2. PICK s \in Cu!ToSet(f.sizes) : e = [family |-> f.id, size |-> s]
    BY <2>1
  <2>3. e.family = f.id /\ e.size = s
    BY <2>2
  <2>4. s.params \in Nat
    BY DEF Cu!ListOK
  <2> QED
    BY <2>3, <2>4
<1>2. \A f, g \in Cu!ToSet(list.families) : order[f.id] \in Nat /\ (order[f.id] = order[g.id] => f.id = g.id)
  BY DEF Cu!OrderOK
<1> QED
  BY <1>1, <1>2

LEMMA EntriesAreOf ==
    ASSUME NEW list, NEW F, NEW S, F = {e.family : e \in EntriesOf(list)}, S = {e.size : e \in EntriesOf(list)}
    PROVE  EntriesOf(list) \subseteq [family : F, size : S]
<1> SUFFICES ASSUME NEW e \in EntriesOf(list) PROVE e \in [family : F, size : S]
  OBVIOUS
<1>1. PICK f \in Cu!ToSet(list.families) : e \in {[family |-> f.id, size |-> s] : s \in Cu!ToSet(f.sizes)}
  BY DEF EntriesOf
<1>2. PICK s \in Cu!ToSet(f.sizes) : e = [family |-> f.id, size |-> s]
  BY <1>1
<1>3. e.family \in F /\ e.size \in S
  OBVIOUS
<1> QED
  BY <1>2, <1>3

(* The first edition's rows, then the second's: each part of ListIsUsable. *)
LEMMA RowsAre ==
    ASSUME NEW old, NEW new, Cu!ListOK(old), Cu!ListOK(new), Cu!Valid(old), Cu!Valid(new),
           NEW before, before = Cu!Sync(<< >>, old), NEW rows, rows = Cu!Sync(before, new), NEW all, all = Cu!ToSet(Cu!AllSizes(new))
    PROVE  /\ \A i \in DOMAIN before : Cu!KeyOf(before[i]) = Cu!KeyOf(rows[i])
           /\ Keyed(rows) /\ IsFiniteSet(Present(rows)) /\ all \subseteq EntriesOf(new)
           /\ \A e \in all : \E i \in Present(rows) : rows[i].family = e.family /\ rows[i].size = e.size /\ Cu!RowOf(rows, e) = {i}
           /\ \A i \in Present(rows) : \E e \in all : rows[i].family = e.family /\ rows[i].size = e.size
           /\ Present(rows) = UNION {Cu!RowOf(rows, e) : e \in all}
           /\ Cardinality({Cu!RowOf(rows, e) : e \in all}) = Cardinality(all)
           /\ TagsApart(rows)
<1> DEFINE F == {e.family : e \in EntriesOf(old)} \cup {e.family : e \in EntriesOf(new)}
           S == {e.size : e \in EntriesOf(old)} \cup {e.size : e \in EntriesOf(new)}
           E == [family : F, size : S]
           es == Cu!AllSizes(old)
           ds == Cu!AllSizes(new)
<1>1. EntriesOf(old) \subseteq E /\ EntriesOf(new) \subseteq E
  <2>1. /\ EntriesOf(old) \subseteq [family : {e.family : e \in EntriesOf(old)}, size : {e.size : e \in EntriesOf(old)}]
        /\ EntriesOf(new) \subseteq [family : {e.family : e \in EntriesOf(new)}, size : {e.size : e \in EntriesOf(new)}]
    BY EntriesAreOf
  <2> QED
    BY <2>1
<1>2. PICK m \in Nat : /\ DOMAIN es = 1..m /\ \A j \in 1..m : es[j] \in EntriesOf(old)
                       /\ \A i, j \in 1..m : Cu!KeyOf(es[i]) = Cu!KeyOf(es[j]) => i = j
  <2> HIDE DEF F, S, E
  <2> QED
    BY ListIs
<1>3. PICK n \in Nat : /\ DOMAIN ds = 1..n /\ \A j \in 1..n : ds[j] \in EntriesOf(new)
                       /\ \A i, j \in 1..n : Cu!KeyOf(ds[i]) = Cu!KeyOf(ds[j]) => i = j
                       /\ \A i, j \in 1..n : ds[i].size.base = ds[j].size.base /\ ds[i].size.tag = ds[j].size.tag => i = j
                       /\ all = {ds[j] : j \in 1..n}
  <2> HIDE DEF F, S, E
  <2> QED
    BY ListIs
<1>4. \A j \in 1..m : es[j] \in [family : F, size : S]
  BY <1>1, <1>2
<1>5. \A j \in 1..n : ds[j] \in [family : F, size : S]
  BY <1>1, <1>3
<1>6. es = Cu!AllSizes(old) /\ ds = Cu!AllSizes(new)
  OBVIOUS
<1> HIDE DEF F, S, E, es, ds
<1>7. SyncedTo(before, << >>, es, m, F, S)
  <2>1. << >> \in Seq(Rows(F, S)) /\ Keyed(<< >>)
    BY DEF Keyed
  <2> QED
    BY <1>2, <1>4, <1>6, <2>1, SyncIs
<1>8. SyncedTo(rows, before, ds, n, F, S)
  <2>1. before \in Seq(Rows(F, S)) /\ Keyed(before)
    BY <1>7 DEF SyncedTo
  <2> QED
    BY <1>3, <1>5, <1>6, <2>1, SyncIs
<1>9. Keyed(rows) /\ \A i \in DOMAIN before : Cu!KeyOf(before[i]) = Cu!KeyOf(rows[i])
  BY <1>8 DEF SyncedTo
<1>10. StandFor(rows, all)
  <2>1. /\ (\A e : e \in all <=> \E j \in 1..n : e = ds[j])
        /\ \A i, j \in 1..n : Cu!KeyOf(ds[i]) = Cu!KeyOf(ds[j]) => i = j
    BY <1>3
  <2> QED
    BY ONLY n \in Nat, <1>5, <1>8, <2>1, RowsStand
<1>11. \A e \in all : e \in [family : F, size : S] /\ e \in EntriesOf(new)
  BY <1>3, <1>5
<1>12. \A e \in all : Cu!Row(e).family = e.family /\ Cu!Row(e).size = e.size
  BY <1>11, RowIs
<1>13. \A e \in all : \E i \in Present(rows) : rows[i].family = e.family /\ rows[i].size = e.size /\ Cu!RowOf(rows, e) = {i}
  BY <1>10, <1>12 DEF StandFor
<1>14. \A i \in Present(rows) : \E e \in all : rows[i].family = e.family /\ rows[i].size = e.size
  BY <1>10, <1>12 DEF StandFor
<1>15. \A d, e \in all : d.size.base = e.size.base /\ d.size.tag = e.size.tag => d = e
  BY <1>3
<1>16. TagsApart(rows)
  <2> SUFFICES ASSUME NEW j \in Present(rows), NEW k \in Present(rows),
                      rows[j].size.base = rows[k].size.base, rows[j].size.tag = rows[k].size.tag
               PROVE  j = k
    BY DEF TagsApart
  <2>1. PICK d \in all : rows[j].family = d.family /\ rows[j].size = d.size
    BY <1>14
  <2>2. PICK e \in all : rows[k].family = e.family /\ rows[k].size = e.size
    BY <1>14
  <2>3. d = e
    BY <1>15, <2>1, <2>2
  <2>4. Cu!KeyOf(rows[j]) = Cu!KeyOf(rows[k])
    BY <2>1, <2>2, <2>3 DEF Cu!KeyOf
  <2>5. j \in DOMAIN rows /\ k \in DOMAIN rows
    BY DEF Present
  <2> QED
    BY <1>9, <2>4, <2>5 DEF Keyed
<1>17. all \subseteq EntriesOf(new)
  BY <1>11
<1> QED
  BY <1>9, <1>10, <1>13, <1>14, <1>16, <1>17 DEF StandFor

LEMMA ValidIsUsable ==
    ASSUME NEW old, NEW new, NEW order, NEW rounded, Cu!ListOK(old), Cu!ListOK(new), Cu!OrderOK(order, new),
           Cu!Valid(old), Cu!Valid(new)
    PROVE  Cu!ListIsUsable(old, new, order, rounded)
<1> DEFINE before == Cu!Sync(<< >>, old)
           rows == Cu!Sync(before, new)
           all == Cu!ToSet(Cu!AllSizes(new))
           pulled(e) == [name |-> [hub |-> FALSE, base |-> e.size.base, tag |-> e.size.tag, size |-> 0],
                         params |-> rounded[e.size.params], quant |-> ""]
           match(e) == Cu!MatchInstalled(pulled(e), Cu!Candidates(rows, order))
<1> HIDE DEF before
<1>0. before = Cu!Sync(<< >>, old) /\ rows = Cu!Sync(before, new) /\ all = Cu!ToSet(Cu!AllSizes(new))
  BY DEF before
<1> HIDE DEF rows, all
<1>1. /\ \A i \in DOMAIN before : Cu!KeyOf(before[i]) = Cu!KeyOf(rows[i])
      /\ Keyed(rows) /\ IsFiniteSet(Present(rows)) /\ all \subseteq EntriesOf(new)
      /\ \A e \in all : \E i \in Present(rows) : rows[i].family = e.family /\ rows[i].size = e.size /\ Cu!RowOf(rows, e) = {i}
      /\ \A i \in Present(rows) : \E e \in all : rows[i].family = e.family /\ rows[i].size = e.size
      /\ Present(rows) = UNION {Cu!RowOf(rows, e) : e \in all}
      /\ Cardinality({Cu!RowOf(rows, e) : e \in all}) = Cardinality(all)
      /\ TagsApart(rows)
  BY <1>0, RowsAre
<1>2. Orderable(rows, order)
  <2>1. /\ \A e \in EntriesOf(new) : e.size.params \in Nat /\ order[e.family] \in Nat
        /\ \A d, e \in EntriesOf(new) : order[d.family] = order[e.family] => d.family = e.family
    BY EntriesAre
  <2>2. ASSUME NEW i \in Present(rows) PROVE \E e \in EntriesOf(new) : rows[i].family = e.family /\ rows[i].size = e.size
    BY <1>1
  <2>3. \A i \in Present(rows) : rows[i].size.params \in Nat /\ order[rows[i].family] \in Nat
    BY <2>1, <2>2
  <2>4. ASSUME NEW i \in Present(rows), NEW j \in Present(rows), order[rows[i].family] = order[rows[j].family]
        PROVE  rows[i].family = rows[j].family
    <3>1. PICK d \in EntriesOf(new) : rows[i].family = d.family
      BY <2>2
    <3>2. PICK e \in EntriesOf(new) : rows[j].family = e.family
      BY <2>2
    <3> QED
      BY <2>1, <2>4, <3>1, <3>2
  <2> QED
    BY <1>1, <2>3, <2>4 DEF Orderable
<1>3. ASSUME NEW e \in all PROVE {match(e).model} = Cu!RowOf(rows, e)
  <2>1. PICK i \in Present(rows) : rows[i].size = e.size /\ Cu!RowOf(rows, e) = {i}
    BY <1>1
  <2>2. pulled(e) = PulledBy(rows[i].size, rounded[e.size.params])
    BY <2>1 DEF PulledBy
  <2>3. TagsApart(rows)
    BY <1>1
  <2> HIDE DEF pulled
  <2>4. match(e).model = i
    BY <1>2, <2>2, <2>3, TagFinds
  <2> QED
    BY <2>1, <2>4
<1>4. \A T : Cu!Cardinality(T) = Cardinality(T)
  BY CuCount
<1>5. Present(rows) = {i \in DOMAIN rows : rows[i].present}
  BY DEF Present
<1> HIDE DEF match
<1>6. /\ Cu!Cardinality({Cu!RowOf(rows, e) : e \in all}) = Cu!Cardinality(all)
      /\ {i \in DOMAIN rows : rows[i].present} = UNION {Cu!RowOf(rows, e) : e \in all}
      /\ \A i \in DOMAIN before : Cu!KeyOf(before[i]) = Cu!KeyOf(rows[i])
      /\ \A e \in all : {match(e).model} = Cu!RowOf(rows, e)
  BY <1>1, <1>3, <1>4, <1>5
<1> QED
  BY <1>6 DEF Cu!ListIsUsable, before, rows, all, match, pulled

(* Every edition of the curated list can be used: whatever valid edition   *)
(* the database was filled from (load.go: Validate), once a valid one is   *)
(* written over it (store/catalog.go: SyncCatalogModels) each of its sizes *)
(* has one row of its own, those rows and no others are present, a row     *)
(* that was there stands for the size it stood for, and a model pulled by  *)
(* a size's own tag is taken for that size (match.go: MatchInstalled).     *)
THEOREM EveryEditionIsUsable ==
    \A old, new, order, rounded :
      Cu!ListOK(old) /\ Cu!ListOK(new) /\ Cu!OrderOK(order, new) => Cu!ListIsUsable(old, new, order, rounded)
<1> SUFFICES ASSUME NEW old, NEW new, NEW order, NEW rounded, Cu!ListOK(old), Cu!ListOK(new), Cu!OrderOK(order, new)
             PROVE  Cu!ListIsUsable(old, new, order, rounded)
  OBVIOUS
<1>1. CASE Cu!Valid(old) /\ Cu!Valid(new)
  BY <1>1, ValidIsUsable
<1>2. CASE ~(Cu!Valid(old) /\ Cu!Valid(new))
  BY <1>2 DEF Cu!ListIsUsable
<1> QED
  BY <1>1, <1>2

=============================================================================
