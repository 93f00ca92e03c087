---------------------------- MODULE PublicSources ----------------------------
(***************************************************************************)
(* Reading one public benchmark source (internal/catalog/external: Run and *)
(* the clients hfEvals, arena, epoch; internal/store/external.go): when it *)
(* is due, what a read replaces, what it remembers in external_state, and  *)
(* what a failed, timed-out or stopped read leaves.  The sources are read  *)
(* one after the other and share no rows, so one is followed, any of them. *)
(*                                                                         *)
(* A part is what the source's rows are replaced by: a repository          *)
(* (hf_evals), a board (arena, one subset), a metric's file (epoch).       *)
(* What the source publishes is a revision number, and a part's rows are   *)
(* the revision and the configuration they were derived from.  The         *)
(* configuration (families.yaml, aliases.yaml, external.yaml) is embedded  *)
(* in the program, so it changes only between two runs of it.              *)
(***************************************************************************)
EXTENDS Naturals, FiniteSets, FiniteSetsExt

CONSTANTS Sources,     \* the sources followed, of {"hf_evals", "arena", "epoch"}
          Parts,       \* the parts a configuration may name
          File,        \* the one answer that holds every part of arena or epoch
          MaxAttempts, \* Fetcher.MaxAttempts
          OnlyRuns,    \* whether `catalog refresh -only` is used
          MaxRev,      \* bound on the revisions published
          MaxVer,      \* bound on the configurations
          MaxFaults,   \* bound on the requests that fail and the deadlines that pass
          MaxStops     \* bound on the runs cut short by a stop or a store failure

ASSUME SourcesAssumption ==
  /\ Sources \subseteq {"hf_evals", "arena", "epoch"} /\ File \notin Parts
  /\ OnlyRuns \in BOOLEAN /\ MaxAttempts \in Nat \ {0}
  /\ MaxRev \in Nat \ {0} /\ MaxVer \in Nat \ {0} /\ MaxFaults \in Nat /\ MaxStops \in Nat

VARIABLES src,      \* the source
          bad,      \* the <<part, revision>> published in a shape that cannot be read
          conf,     \* the configuration: its version and the parts it names
          rev,      \* the revision each answer now has
          values,   \* catalog_external: what the present rows of a part derive from
          state,    \* external_state of each answer and board: etag, error, read once
          last,     \* external_state of the source (key ""): OKAt, error, config_digest
          pc, todo, \* where the run is, and the parts it has still to read
          cond,     \* sameConfig: requests carry the stored validators
          got,      \* the part being stored and the revision it was read at
          listed,   \* the revision arenaFiles listed
          failed,   \* runErr: the source as a whole has failed
          gap,      \* parts whose latest read failed, and not answered since
          faults, stops

worldVars == <<src, bad, conf, rev>>
storeVars == <<values, state, last>>
runVars == <<pc, todo, cond, got, listed, failed>>
vars == <<src, bad, conf, rev, values, state, last, pc, todo, cond, got, listed, failed, gap, faults, stops>>

Keys == Parts \cup {File}

(* The request whose answer holds part p.                                  *)
Answer(p) == IF src = "hf_evals" THEN p ELSE File

Init ==
  /\ src \in Sources
  /\ bad \in {b \in SUBSET (Parts \X (1..MaxRev)) : Cardinality(b) <= 1}
  /\ conf \in [ver : {1}, parts : SUBSET Parts \ {{}}]
  /\ rev = [k \in Keys |-> 1]
  /\ values = [p \in Parts |-> [rev |-> 0, ver |-> 0]]
  /\ state = [k \in Keys |-> [etag |-> 0, error |-> FALSE, ok |-> FALSE]]
  /\ last = [ok |-> "never", error |-> FALSE, ver |-> 0]
  /\ pc = "idle" /\ todo = {} /\ cond = FALSE /\ got = [part |-> File, rev |-> 0]
  /\ listed = 0 /\ failed = FALSE /\ gap = {} /\ faults = 0 /\ stops = 0

-----------------------------------------------------------------------------
(* The world: the source publishes, the cadence runs out, and a new        *)
(* version of the program has another configuration.                       *)
Publish(k) ==
  /\ rev[k] < MaxRev
  /\ IF src = "hf_evals" THEN k \in Parts ELSE k = File
  /\ rev' = [rev EXCEPT ![k] = @ + 1]
  /\ UNCHANGED <<src, bad, conf, storeVars, runVars, gap, faults, stops>>

CadencePasses ==
  /\ last.ok = "fresh"
  /\ last' = [last EXCEPT !.ok = "stale"]
  /\ UNCHANGED <<worldVars, values, state, runVars, gap, faults, stops>>

Upgrade ==
  /\ pc = "idle" /\ conf.ver < MaxVer
  /\ conf' \in [ver : {conf.ver + 1}, parts : SUBSET Parts \ {{}}]
  /\ UNCHANGED <<src, bad, rev, storeVars, runVars, gap, faults, stops>>

-----------------------------------------------------------------------------
(* Fetcher.Get: at most MaxAttempts attempts; what ends it is the first    *)
(* answer that is not retried, or the last attempt.  "busy" is a 429,      *)
(* "down" another status retried, "wait" one that asks for more than       *)
(* MaxWait, "missing" a status that is not retried.                        *)
Attempts == {"transport", "busy", "down", "wait", "missing", "good"}

GetResult(a) ==
  LET final == {i \in 1..MaxAttempts : a[i] \in {"wait", "missing", "good"}}
      end == a[IF final = {} THEN MaxAttempts ELSE Min(final)]
  IN CASE end \in {"wait", "busy"} -> "limited"
       [] end \in {"missing", "good"} -> end
       [] \A i \in 1..MaxAttempts : a[i] = "transport" -> "unreachable"
       [] OTHER -> "error"

GetResults == {GetResult(a) : a \in [1..MaxAttempts -> Attempts]}

(* A request's result; a failure spends one of the faults.                 *)
Get(result) ==
  /\ faults' = faults + (IF result = "good" THEN 0 ELSE 1)
  /\ faults' <= MaxFaults

NotModified(k) == cond /\ state[k].etag = rev[k]

PutError(k) == state' = [state EXCEPT ![k].error = TRUE]
PutOK(k) == state' = [state EXCEPT ![k].error = FALSE, ![k].ok = TRUE]
PutRead(k, r) == state' = [state EXCEPT ![k] = [etag |-> r, error |-> FALSE, ok |-> TRUE]]

(* The source stops here: the parts not read stay as they are.             *)
GiveUp ==
  /\ failed' = TRUE /\ pc' = "finish"
  /\ UNCHANGED <<todo, gap>>

-----------------------------------------------------------------------------
(* Run: a source that is not due is skipped.                               *)

(* A bug: a source read in part waits out its cadence.                     *)
DueWhenStale == ~ (last.ver = conf.ver /\ last.ok = "fresh" /\ ~last.error)

Due ==
  ~ /\ last.ver = conf.ver /\ last.ok = "fresh" /\ ~last.error
    /\ \A k \in Keys : ~state[k].error

Start(force, only) ==
  /\ pc = "idle" /\ (force \/ Due)
  /\ pc' = (CASE src = "hf_evals" -> "repo" [] src = "arena" -> "list" [] src = "epoch" -> "zip")
  /\ todo' = IF src = "hf_evals" THEN conf.parts \cap only ELSE conf.parts
  /\ cond' = (last.ver = conf.ver)
  /\ failed' = FALSE
  /\ UNCHANGED <<worldVars, storeVars, got, listed, gap, faults, stops>>

(* PutExternalState for the source: a read that got through is OK, and is  *)
(* of this configuration; one that did not leaves parts unread.            *)
Finish ==
  /\ pc = "finish"
  /\ pc' = "idle"
  /\ last' = IF failed THEN [last EXCEPT !.error = TRUE]
                       ELSE [ok |-> "fresh", error |-> FALSE, ver |-> conf.ver]
  /\ gap' = gap \cup todo /\ todo' = {}
  /\ got' = [part |-> File, rev |-> 0] /\ listed' = 0
  /\ failed' = FALSE /\ cond' = FALSE
  /\ UNCHANGED <<worldVars, values, state, faults, stops>>

(* SourceDeadline passes: whatever the read was doing, what it stored      *)
(* stays, and the source has failed.                                       *)
Timeout ==
  /\ pc # "idle" /\ ~failed /\ faults < MaxFaults
  /\ faults' = faults + 1
  /\ GiveUp
  /\ UNCHANGED <<worldVars, storeVars, cond, got, listed, stops>>

(* The daemon stops, the refresh is cancelled or the store fails: Run      *)
(* returns without another write.                                          *)
Stop ==
  /\ pc # "idle" /\ stops < MaxStops
  /\ stops' = stops + 1
  /\ pc' = "idle" /\ todo' = {} /\ cond' = FALSE /\ failed' = FALSE
  /\ got' = [part |-> File, rev |-> 0] /\ listed' = 0
  /\ UNCHANGED <<worldVars, storeVars, gap, faults>>

-----------------------------------------------------------------------------
(* Storing one part: its rows in one transaction (ReplaceExternal), then,  *)
(* except for epoch, its state.                                            *)

(* The part is done with, and leaves or joins the gap.                     *)
Done(p, ok) ==
  /\ todo' = todo \ {p}
  /\ gap' = IF ok THEN gap \ {p} ELSE gap \cup {p}

Replace ==
  /\ pc = "replace"
  /\ values' = [values EXCEPT ![got.part] = [rev |-> got.rev, ver |-> conf.ver]]
  /\ IF src = "epoch" THEN pc' = "files" /\ Done(got.part, TRUE)
                      ELSE pc' = "note" /\ UNCHANGED <<todo, gap>>
  /\ UNCHANGED <<worldVars, state, last, cond, got, listed, failed, faults, stops>>

Note ==
  /\ pc = "note"
  /\ Done(got.part, TRUE)
  /\ IF src = "hf_evals" THEN PutRead(got.part, got.rev) /\ pc' = "repo"
                         ELSE PutOK(got.part) /\ pc' = "files"
  /\ UNCHANGED <<worldVars, values, last, cond, got, listed, failed, faults, stops>>

-----------------------------------------------------------------------------
(* hfEvals: one conditional request per repository.                        *)
AskRepo(p, result) ==
  /\ pc = "repo" /\ p \in todo
  /\ Get(result)
  /\ \/ /\ result = "unreachable"
        /\ GiveUp
        /\ UNCHANGED <<state, got>>
     \/ /\ \/ result \in {"limited", "missing", "error"}
           \/ result = "good" /\ ~NotModified(p) /\ <<p, rev[p]>> \in bad
        /\ PutError(p)
        /\ Done(p, FALSE)
        /\ UNCHANGED <<pc, got, failed>>
     \/ /\ result = "good" /\ NotModified(p)
        /\ PutOK(p)
        /\ Done(p, TRUE)
        /\ UNCHANGED <<pc, got, failed>>
     \/ /\ result = "good" /\ ~NotModified(p) /\ <<p, rev[p]>> \notin bad
        /\ got' = [part |-> p, rev |-> rev[p]]
        /\ pc' = "replace"
        /\ UNCHANGED <<state, todo, gap, failed>>
  /\ UNCHANGED <<worldVars, values, last, cond, listed, stops>>

ReposDone ==
  /\ pc = "repo" /\ todo = {}
  /\ pc' = "finish"
  /\ UNCHANGED <<worldVars, storeVars, todo, cond, got, listed, failed, gap, faults, stops>>

-----------------------------------------------------------------------------
(* arena: list the files, download them unless they are those stored last  *)
(* time and every board was read from them, store board after board.       *)
(* A bug: a board that failed last time counts as read.                    *)
BoardsKnown == \A p \in conf.parts : state[p].ok

BoardsRead == \A p \in conf.parts : state[p].ok /\ ~state[p].error

ArenaFails(result) ==
  \/ /\ result \in {"unreachable", "limited"}
     /\ GiveUp
  \/ /\ result \in {"missing", "error"}
     /\ pc' = "fail_all"
     /\ UNCHANGED <<todo, gap, failed>>

List(result) ==
  /\ pc = "list"
  /\ Get(result)
  /\ \/ ArenaFails(result) /\ UNCHANGED <<state, listed>>
     \/ /\ result = "good" /\ NotModified(File) /\ BoardsRead
        /\ PutOK(File)
        /\ pc' = "finish" /\ todo' = {}
        /\ gap' = gap \ conf.parts
        /\ UNCHANGED <<listed, failed>>
     \/ /\ result = "good" /\ ~(NotModified(File) /\ BoardsRead)
        /\ listed' = rev[File]
        /\ pc' = "download"
        /\ UNCHANGED <<state, todo, gap, failed>>
  /\ UNCHANGED <<worldVars, values, last, cond, got, stops>>

Download(result) ==
  /\ pc = "download"
  /\ Get(result)
  /\ \/ ArenaFails(result) /\ UNCHANGED got
     \/ /\ result = "good"
        /\ got' = [part |-> File, rev |-> rev[File]]
        /\ pc' = "files"
        /\ UNCHANGED <<todo, gap, failed>>
  /\ UNCHANGED <<worldVars, storeVars, cond, listed, stops>>

(* failAll, one board's state after the other.                             *)
FailBoard ==
  /\ pc = "fail_all"
  /\ IF todo = {} THEN pc' = "finish" /\ UNCHANGED <<state, todo, gap>>
     ELSE \E p \in todo : PutError(p) /\ Done(p, FALSE) /\ UNCHANGED pc
  /\ UNCHANGED <<worldVars, values, last, cond, got, listed, failed, faults, stops>>

-----------------------------------------------------------------------------
(* epoch: one conditional request for the ZIP.                             *)
GetZip(result) ==
  /\ pc = "zip"
  /\ Get(result)
  /\ \/ /\ result # "good"
        /\ GiveUp
        /\ UNCHANGED <<state, got>>
     \/ /\ result = "good" /\ NotModified(File)
        /\ PutOK(File)
        /\ pc' = "finish" /\ todo' = {}
        /\ gap' = gap \ conf.parts
        /\ UNCHANGED <<got, failed>>
     \/ /\ result = "good" /\ ~NotModified(File)
        /\ got' = [part |-> File, rev |-> rev[File]]
        /\ pc' = "files"
        /\ UNCHANGED <<state, todo, gap, failed>>
  /\ UNCHANGED <<worldVars, values, last, cond, listed, stops>>

-----------------------------------------------------------------------------
(* What arena and epoch do with each part of the answer, and the answer's  *)
(* own state at the end.  A board that cannot be read is a failed part; a  *)
(* file of the ZIP is only reported.                                       *)
ReadPart(p) ==
  /\ pc = "files" /\ p \in todo
  /\ \/ /\ <<p, got.rev>> \in bad
        /\ IF src = "arena" THEN PutError(p) /\ Done(p, FALSE)
                            ELSE Done(p, TRUE) /\ UNCHANGED state
        /\ UNCHANGED <<pc, got>>
     \/ /\ <<p, got.rev>> \notin bad
        /\ got' = [got EXCEPT !.part = p]
        /\ pc' = "replace"
        /\ UNCHANGED <<state, todo, gap>>
  /\ UNCHANGED <<worldVars, values, last, cond, listed, failed, faults, stops>>

(* A bug: the version noted is asked for again after the download.         *)
NoteFileNow ==
  /\ pc = "files" /\ todo = {}
  /\ PutRead(File, rev[File])
  /\ pc' = "finish"
  /\ UNCHANGED <<worldVars, values, last, todo, cond, got, listed, failed, gap, faults, stops>>

NoteFile ==
  /\ pc = "files" /\ todo = {}
  /\ PutRead(File, IF src = "arena" THEN listed ELSE got.rev)
  /\ pc' = "finish"
  /\ UNCHANGED <<worldVars, values, last, todo, cond, got, listed, failed, gap, faults, stops>>

-----------------------------------------------------------------------------
Step ==
  \/ Finish \/ Replace \/ Note \/ ReposDone \/ FailBoard \/ NoteFile
  \/ \E result \in GetResults :
       \/ List(result) \/ Download(result) \/ GetZip(result)
       \/ \E p \in Parts : AskRepo(p, result)
  \/ \E p \in Parts : ReadPart(p)

Asked == IF OnlyRuns THEN SUBSET conf.parts \ {{}} ELSE {conf.parts}

Next ==
  \/ \E k \in Keys : Publish(k)
  \/ CadencePasses \/ Upgrade \/ Timeout \/ Stop \/ Step
  \/ \E force \in BOOLEAN, only \in Asked : Start(force, only)

Spec == Init /\ [][Next]_vars

(* A run's requests and writes end, and somebody or the watch keeps asking *)
(* for a refresh while the cadence keeps passing.                          *)
KeepsRefreshing ==
  /\ WF_vars(Step) /\ WF_vars(CadencePasses)
  /\ WF_vars(Start(FALSE, conf.parts))

FairSpec == Spec /\ KeepsRefreshing

-----------------------------------------------------------------------------
Revs == 0..MaxRev

(* The variables have their types, and the part being stored is one the    *)
(* run has still to do.                                                    *)
TypeOK ==
  /\ src \in Sources
  /\ bad \subseteq Parts \X Revs
  /\ conf \in [ver : 1..MaxVer, parts : SUBSET Parts \ {{}}]
  /\ rev \in [Keys -> Revs \ {0}]
  /\ values \in [Parts -> [rev : Revs, ver : 0..MaxVer]]
  /\ state \in [Keys -> [etag : Revs, error : BOOLEAN, ok : BOOLEAN]]
  /\ last \in [ok : {"never", "fresh", "stale"}, error : BOOLEAN, ver : 0..MaxVer]
  /\ pc \in {"idle", "repo", "list", "download", "fail_all", "zip", "files", "replace", "note", "finish"}
  /\ todo \subseteq conf.parts /\ gap \subseteq Parts
  /\ cond \in BOOLEAN /\ failed \in BOOLEAN
  /\ got \in [part : Keys, rev : Revs] /\ listed \in Revs
  /\ pc \in {"replace", "note"} => got.part \in todo
  /\ faults \in 0..MaxFaults /\ stops \in 0..MaxStops

(* The answer to a conditional request for part p would be trusted.        *)
Trusted(p) ==
  /\ p \in conf.parts /\ last.ver = conf.ver
  /\ state[Answer(p)].etag > 0
  /\ src = "arena" => BoardsRead

(* A "not modified" is never believed of rows that are older: the rows are *)
(* replaced before the validator is stored, at every stop, timeout and     *)
(* failure between.  Only a file of the ZIP that could not be read is      *)
(* passed over.                                                            *)
ValidatorNeverAhead ==
  \A p \in Parts : Trusted(p) =>
    \/ values[p].rev >= state[Answer(p)].etag
    \/ src = "epoch" /\ <<p, state[File].etag>> \in bad

(* run.go: a source read only in part is due again at once.  A part whose  *)
(* latest read failed and which was not answered since keeps the source due.  *)
GapIsDue == pc = "idle" /\ gap \cap conf.parts # {} => Due

(* run.go, digest: "what src's stored rows depend on besides the answers". *)
(* A source that is not due and says so of this configuration has rows of  *)
(* this configuration, where it has any.                                   *)
RowsOfThisConfiguration ==
  pc = "idle" /\ ~Due =>
    \A p \in conf.parts : values[p].ver \in {0, conf.ver}

(* Once the source stays readable, every part of the configuration comes   *)
(* to hold what the source now publishes: no failure, stop, timeout or     *)
(* change of configuration leaves a part behind for good.  Rows of arena   *)
(* and epoch also come to be of the present configuration, however many    *)
(* boards failed in its first runs.                                        *)
Current(p) ==
  \/ /\ values[p].rev = rev[Answer(p)]
     /\ src # "hf_evals" => values[p].ver = conf.ver
  \/ <<p, rev[Answer(p)]>> \in bad

EventuallyCurrent == <>[](\A p \in conf.parts : Current(p))

=============================================================================
