----------------------------- MODULE HubReading -----------------------------
(***************************************************************************)
(* How a refresh reads the sizes of the catalogue from the Hub, request by *)
(* request: the listing of a size's repository with the ETag of the one    *)
(* the database holds, the headers of its files by ranges at the commit    *)
(* the listing names, and the rows that are stored when all are read.      *)
(* internal/catalog/refresh/refresh.go: Run, refreshSize, header;          *)
(* internal/catalog/hf/hf.go: do, ModelInfo, ReadHeader; and               *)
(* internal/store/catalog.go: the two caches, RecordCatalogModelRefresh,   *)
(* RecordCatalogModelError.                                                *)
(*                                                                         *)
(* A revision is a number, and so is what a file contains: its hash, and   *)
(* the number of the header it has.  0 stands for none.                    *)
(***************************************************************************)
EXTENDS Integers, FiniteSets

CONSTANTS
  Sizes,        \* how many sizes the list has, read in the order 1..Sizes
  Files,        \* how many files of a repository are read
  MaxRev,       \* bound: the revisions a repository has
  Content,      \* Content[r][f] is what revision r holds as file f
  Lacking,      \* the contents whose header lacks what the estimates need
  Ranges,       \* bound: the ranges a header takes
  MaxAttempts,  \* hf.go: a request is sent this often
  MaxFaults     \* bound: answers other than the one asked for, and stops

Revs == 1..MaxRev
ASSUME SizesAreNumbers == Sizes \in Nat \ {0} /\ Files \in Nat \ {0}
ASSUME RevisionsAreNumbers == MaxRev \in Nat \ {0}
ASSUME BoundsAreNumbers == Ranges \in Nat \ {0} /\ MaxAttempts \in Nat \ {0} /\ MaxFaults \in Nat
ASSUME ContentIsNumbers == Content \in [Revs -> [1..Files -> Nat \ {0}]]

VARIABLES
  hub,      \* the revision each repository is at
  listing,  \* hf_listing_cache: the revision of the answer held of each
  tagged,   \* whether it came with an ETag
  headers,  \* hf_header_cache: <<size, file, hash>> to a header, 0 for none
  rev,      \* catalog_models: hf_sha
  held,     \* catalog_files: the hash of each file of each size
  head,     \*   and its header
  failed,   \* catalog_models: whether refresh_error is set
  pc,       \* where the refresh is
  size,     \* the size it is at
  info,     \* the revision whose listing it has in hand
  file,     \* the file it is at
  got,      \* the headers it has of this size's files
  range,    \* the range of the header that is asked for
  attempt,  \* do: the attempt under way
  below,    \* do: transportOnly
  silent,   \* how many attempts nobody answered, since the last that was answered
  sentOn,   \* and how many were answered with one redirect after another
  stopped,  \* whether the last refresh stopped before the last size
  faults    \* counts what went wrong

hubVars == <<hub, faults>>
cache == <<listing, tagged, headers>>
rows == <<rev, held, head, failed>>
request == <<attempt, below, silent, sentOn>>
place == <<size, info, file, got, range>>
vars == <<hub, faults, listing, tagged, headers, rev, held, head, failed, pc, size, info, file, got, range,
          attempt, below, silent, sentOn, stopped>>

NoFiles == [f \in 1..Files |-> 0]

Init ==
  /\ hub = [s \in 1..Sizes |-> 1] /\ faults = 0
  /\ listing = [s \in 1..Sizes |-> 0] /\ tagged = [s \in 1..Sizes |-> FALSE] /\ headers = {}
  /\ rev = [s \in 1..Sizes |-> 0] /\ failed = [s \in 1..Sizes |-> FALSE]
  /\ held = [s \in 1..Sizes |-> NoFiles] /\ head = [s \in 1..Sizes |-> NoFiles]
  /\ pc = "idle" /\ size = 1 /\ info = 0 /\ file = 1 /\ got = NoFiles /\ range = 1
  /\ attempt = 1 /\ below = TRUE /\ silent = 0 /\ sentOn = 0 /\ stopped = FALSE

(* Somebody publishes a new revision of a repository.                      *)
HubChanges ==
  \E s \in 1..Sizes :
    /\ hub[s] < MaxRev /\ hub' = [hub EXCEPT ![s] = @ + 1]
    /\ UNCHANGED <<faults, cache, rows, pc, place, request, stopped>>

-----------------------------------------------------------------------------
(* A call of do begins: refresh.go asks for the listing, or for a range.   *)
NewRequest == attempt' = 1 /\ below' = TRUE

(* Run begins.                                                             *)
Begin ==
  /\ pc = "idle" /\ pc' = "listing"
  /\ size' = 1 /\ info' = 0 /\ file' = 1 /\ got' = NoFiles /\ range' = 1
  /\ stopped' = FALSE /\ NewRequest
  /\ UNCHANGED <<hubVars, cache, rows, silent, sentOn>>

(* The loop goes on to the next size, or ends.                             *)
NextSize ==
  /\ IF size < Sizes THEN pc' = "listing" /\ size' = size + 1 ELSE pc' = "idle" /\ size' = size
  /\ info' = 0 /\ file' = 1 /\ got' = NoFiles /\ range' = 1 /\ NewRequest

(* The size did not resolve: the error is recorded, and what earlier       *)
(* refreshes stored is left as it was.  When the Hub could not be reached  *)
(* the refresh ends.                                                       *)
SizeFails(unreachable) ==
  /\ failed' = [failed EXCEPT ![size] = TRUE]
  /\ IF unreachable
       THEN stopped' = TRUE /\ pc' = "idle" /\ UNCHANGED <<place, attempt, below>>
       ELSE stopped' = stopped /\ NextSize
  /\ UNCHANGED <<rev, held, head>>

-----------------------------------------------------------------------------
(* One attempt of a request.                                               *)
Fault == faults < MaxFaults /\ faults' = faults + 1 /\ hub' = hub

(* The attempt has an answer do can use, or be told to wait by.            *)
Answered == silent' = 0 /\ sentOn' = 0

(* HTTP.Do fails: do tries again, and in the end takes the Hub for         *)
(* unreachable if every attempt of this request failed so.                 *)
AttemptFails ==
  /\ pc \in {"listing", "range"} /\ Fault
  /\ IF attempt < MaxAttempts
       THEN attempt' = attempt + 1 /\ UNCHANGED <<pc, place, below, stopped, rows>>
       ELSE SizeFails(below)
  /\ UNCHANGED cache

(* Nobody answers.                                                         *)
NoAnswer == AttemptFails /\ silent' = silent + 1 /\ sentOn' = sentOn

(* The Hub answers, and each redirect leads to another: checkRedirect ends *)
(* that with an error of its own, which do cannot tell from silence.  (A   *)
(* redirect to another host is ErrRedirect, and final: Refused.)           *)
RedirectedTooOften == AttemptFails /\ sentOn' = sentOn + 1 /\ silent' = silent

(* A bug: an answer that asks to wait is forgotten when nobody answers     *)
(* after it.                                                               *)
BusyForgotten ==
  /\ pc \in {"listing", "range"} /\ Fault
  /\ Answered
  /\ \/ attempt < MaxAttempts /\ attempt' = attempt + 1 /\ UNCHANGED <<below, pc, place, stopped, rows>>
     \/ SizeFails(FALSE)
  /\ UNCHANGED cache
(* 429, 502, 503 or 504: do waits as told and tries again, unless the wait *)
(* is longer than it honours.                                              *)
Busy ==
  /\ pc \in {"listing", "range"} /\ Fault
  /\ Answered
  /\ \/ attempt < MaxAttempts /\ attempt' = attempt + 1 /\ below' = FALSE /\ UNCHANGED <<pc, place, stopped, rows>>
     \/ SizeFails(FALSE)
  /\ UNCHANGED cache

(* Not found, gated, disabled, a listing that is not the JSON expected, a  *)
(* range that is not the one asked for: do hands it on, and it is final.   *)
Refused ==
  /\ pc \in {"listing", "range"} /\ Fault
  /\ Answered /\ SizeFails(FALSE) /\ UNCHANGED cache

(* ModelInfo: 304 when the Hub is still at the revision whose ETag the     *)
(* request holds.                                                          *)
NotModified == tagged[size] /\ listing[size] = hub[size]

(* A bug: a repository that has not changed is not looked at again.        *)
ListedAndDone ==
  /\ pc = "listing"
  /\ IF NotModified THEN UNCHANGED <<listing, tagged>>
     ELSE listing' = [listing EXCEPT ![size] = hub[size]] /\ \E tag \in BOOLEAN : tagged' = [tagged EXCEPT ![size] = tag]
  /\ Answered
  /\ IF NotModified THEN NextSize
     ELSE pc' = "file" /\ info' = hub[size] /\ UNCHANGED <<size, file, got, range, attempt, below>>
  /\ UNCHANGED <<hubVars, headers, rows, stopped>>
(* The listing is read and, unless it is the one the cache holds, cached:  *)
(* before any of its files is looked at.                                   *)
Listed ==
  /\ pc = "listing"
  /\ IF NotModified THEN UNCHANGED <<listing, tagged>>
     ELSE listing' = [listing EXCEPT ![size] = hub[size]] /\ \E tag \in BOOLEAN : tagged' = [tagged EXCEPT ![size] = tag]
  /\ Answered
  /\ pc' = "file" /\ info' = hub[size] /\ UNCHANGED <<size, file, got, range, attempt, below>>
  /\ UNCHANGED <<hubVars, headers, rows, stopped>>

Hash == Content[info][file]

(* A bug: a header is looked up by its file's name.                        *)
CachedOfName == {e[4] : e \in {k \in headers : k[1] = size /\ k[2] = file}}
(* CachedHeader: by repository, file and hash.                             *)
Cached == {e[4] : e \in {k \in headers : k[1] = size /\ k[2] = file /\ k[3] = Hash}}

(* What becomes of a header that has been found or read: a size one of     *)
(* whose headers lacks what is needed does not resolve.                    *)
Use(h) ==
  IF h \in Lacking THEN SizeFails(FALSE)
  ELSE /\ got' = [got EXCEPT ![file] = h] /\ range' = 1 /\ NewRequest
       /\ file' = file + 1 /\ pc' = IF file < Files THEN "file" ELSE "store"
       /\ UNCHANGED <<size, info, stopped, rows>>

HeaderCached ==
  /\ pc = "file" /\ \E h \in Cached : Use(h)
  /\ UNCHANGED <<hubVars, cache, silent, sentOn>>
HeaderMissed ==
  /\ pc = "file" /\ Cached = {}
  /\ pc' = "range" /\ NewRequest
  /\ UNCHANGED <<hubVars, cache, rows, place, silent, sentOn, stopped>>

(* The parse wants more than the range it has.                             *)
NextRange ==
  /\ pc = "range" /\ range < Ranges /\ range' = range + 1 /\ Answered /\ NewRequest
  /\ UNCHANGED <<hubVars, cache, rows, pc, size, info, file, got, stopped>>

(* A bug: the header is read of the branch, not of the listing's commit.   *)
ReadAtOfBranch == hub[size]
(* ReadHeader: the revision that is in the request's address.              *)
ReadAt == info

(* The header is read to its end, and cached.                              *)
HeaderRead ==
  /\ pc = "range" /\ Answered
  /\ LET h == Content[ReadAt][file]
     IN Use(h) /\ headers' = headers \cup {<<size, file, Hash, h>>}
  /\ UNCHANGED <<hubVars, listing, tagged>>

(* RecordCatalogModelRefresh, one transaction.                             *)
Store ==
  /\ pc = "store"
  /\ rev' = [rev EXCEPT ![size] = info]
  /\ held' = [held EXCEPT ![size] = Content[info]]
  /\ head' = [head EXCEPT ![size] = got]
  /\ failed' = [failed EXCEPT ![size] = FALSE]
  /\ NextSize
  /\ UNCHANGED <<hubVars, cache, silent, sentOn, stopped>>

(* The daemon stops, the refresh is cancelled, or the database fails.      *)
Stop ==
  /\ pc # "idle" /\ Fault /\ pc' = "idle" /\ stopped' = FALSE
  /\ UNCHANGED <<cache, rows, place, request>>

Read == Begin \/ Listed \/ HeaderCached \/ HeaderMissed \/ NextRange \/ HeaderRead \/ Store
Next == HubChanges \/ Read \/ NoAnswer \/ RedirectedTooOften \/ Busy \/ Refused \/ Stop

(* Refreshes are begun again and again: by the watch, or by the user.  A   *)
(* header ends.                                                            *)
Spec == Init /\ [][Next]_vars /\ WF_vars(Read)
-----------------------------------------------------------------------------
TypeOK ==
  /\ hub \in [1..Sizes -> Revs] /\ faults \in 0..MaxFaults
  /\ listing \in [1..Sizes -> 0..MaxRev] /\ tagged \in [1..Sizes -> BOOLEAN]
  /\ headers \subseteq (1..Sizes) \X (1..Files) \X Nat \X Nat
  /\ rev \in [1..Sizes -> 0..MaxRev] /\ failed \in [1..Sizes -> BOOLEAN]
  /\ held \in [1..Sizes -> [1..Files -> Nat]] /\ head \in [1..Sizes -> [1..Files -> Nat]]
  /\ pc \in {"idle", "listing", "file", "range", "store"}
  /\ size \in 1..Sizes /\ info \in 0..MaxRev /\ file \in 1..Files+1 /\ got \in [1..Files -> Nat]
  /\ range \in 1..Ranges /\ attempt \in 1..MaxAttempts /\ below \in BOOLEAN /\ silent \in Nat /\ sentOn \in Nat /\ stopped \in BOOLEAN

(* What is stored of a size is of one revision, its files and each of      *)
(* their headers, however the repository changes while it is read, however *)
(* much of it comes from the caches, and whatever fails on the way.        *)
RowIsOfOneRevision ==
  \A s \in 1..Sizes :
    rev[s] # 0 => /\ held[s] = Content[rev[s]]
                  /\ \A f \in 1..Files : head[s][f] = held[s][f] /\ head[s][f] \notin Lacking

(* A refresh leaves the sizes after the one at hand alone only when each   *)
(* of as many attempts as a request has failed in HTTP.Do: nobody answered *)
(* it, or the Hub did and sent it on more than five times.  A Hub that is  *)
(* busy, or silent once among its answers, does not end a refresh.         *)
StopsOnlyUnreached == [][stopped' /\ ~stopped => silent' + sentOn' >= MaxAttempts]_vars

(* What hf.go says of ErrUnreachable, "every attempt failed below HTTP":   *)
(* not so, since a Hub that answers nothing but redirects ends a refresh   *)
(* as silence does (do, checkRedirect).                                    *)
StopsOnlyInSilence == [][stopped' /\ ~stopped => silent' >= MaxAttempts]_vars

(* Once the Hub answers and no longer changes, every size comes to show    *)
(* its newest revision, also when the listing was cached by a refresh that *)
(* failed afterwards.                                                      *)
ComesToShowTheNewest ==
  <>[](\A s \in 1..Sizes : (\A f \in 1..Files : Content[hub[s]][f] \notin Lacking) => rev[s] = hub[s] /\ ~failed[s])
=============================================================================
