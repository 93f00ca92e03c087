-------------------------- MODULE HubReadingProofs --------------------------
(***************************************************************************)
(* That what a refresh stores of a size is of one revision, and that it    *)
(* gives the other sizes up only when every attempt of a request failed in *)
(* HTTP.Do, for any number of sizes, files, revisions, ranges, attempts    *)
(* and failures.                                                           *)
(***************************************************************************)
EXTENDS HubReading, TLAPS

(* The headers cached are those of the contents they are cached under.     *)
HeadersAreTrue == headers \subseteq (1..Sizes) \X (1..Files) \X Nat \X Nat /\ \A e \in headers : e[3] = e[4]

(* What has been read of the size at hand is of the listing in hand.       *)
GotIsOfInfo ==
  pc \in {"file", "range", "store"} =>
    /\ info \in Revs
    /\ \A f \in 1..Files : f < file => got[f] = Content[info][f] /\ got[f] \notin Lacking

Place ==
  /\ pc \in {"idle", "listing", "file", "range", "store"}
  /\ size \in 1..Sizes /\ file \in 1..Files+1 /\ got \in [1..Files -> Nat]
  /\ pc \in {"file", "range"} => file \in 1..Files
  /\ pc = "listing" => file = 1
  /\ pc = "store" => file = Files + 1
  /\ hub \in [1..Sizes -> Revs]

RowTypes ==
  /\ rev \in [1..Sizes -> 0..MaxRev] /\ failed \in [1..Sizes -> BOOLEAN]
  /\ held \in [1..Sizes -> [1..Files -> Nat]] /\ head \in [1..Sizes -> [1..Files -> Nat]]

IInv == HeadersAreTrue /\ GotIsOfInfo /\ Place /\ RowTypes /\ RowIsOfOneRevision
-----------------------------------------------------------------------------
(* The loop's next step leaves nothing of the size before it.              *)
LEMMA NextSizeIsFresh ==
  ASSUME Place, NextSize
  PROVE  /\ pc' \in {"listing", "idle"} /\ size' \in 1..Sizes /\ file' = 1 /\ got' = NoFiles
         /\ got' \in [1..Files -> Nat] /\ file' \in 1..Files+1
BY SizesAreNumbers DEF Place, NextSize, NewRequest, NoFiles

(* A size that fails disturbs neither the rows nor the place.              *)
LEMMA FailureKeeps ==
  ASSUME IInv, NEW u \in BOOLEAN, SizeFails(u), headers' = headers, hub' = hub
  PROVE  IInv'
<1>1. CASE u
  <2>1. pc' = "idle" /\ UNCHANGED <<place, headers, hub, rev, held, head>> /\ failed' = [failed EXCEPT ![size] = TRUE]
    BY <1>1 DEF SizeFails
  <2> QED BY <2>1 DEF IInv, HeadersAreTrue, GotIsOfInfo, Place, RowTypes, RowIsOfOneRevision, place
<1>2. CASE ~u
  <2>1. NextSize /\ UNCHANGED <<headers, hub, rev, held, head>> /\ failed' = [failed EXCEPT ![size] = TRUE]
    BY <1>2 DEF SizeFails
  <2>2. pc' \in {"listing", "idle"} /\ size' \in 1..Sizes /\ file' = 1 /\ got' \in [1..Files -> Nat] /\ file' \in 1..Files+1
    BY <2>1, NextSizeIsFresh DEF IInv
  <2> QED BY <2>1, <2>2 DEF IInv, HeadersAreTrue, GotIsOfInfo, Place, RowTypes, RowIsOfOneRevision
<1> QED BY <1>1, <1>2

(* A header of the content at hand takes the refresh to the next file.     *)
LEMMA UseKeeps ==
  ASSUME IInv, pc \in {"file", "range"}, NEW h, h = Content[info][file], Use(h), hub' = hub,
         headers' = headers \/ headers' = headers \cup {<<size, file, h, h>>}
  PROVE  IInv'
<1>1. info \in Revs /\ file \in 1..Files /\ size \in 1..Sizes BY DEF IInv, GotIsOfInfo, Place
<1>2. h \in Nat BY <1>1, ContentIsNumbers
<1>3. HeadersAreTrue'
  BY <1>1, <1>2 DEF IInv, HeadersAreTrue
<1>4. CASE h \in Lacking
  <2>1. NextSize /\ UNCHANGED <<hub, rev, held, head>> /\ failed' = [failed EXCEPT ![size] = TRUE]
    BY <1>4 DEF Use, SizeFails
  <2>2. pc' \in {"listing", "idle"} /\ size' \in 1..Sizes /\ file' = 1 /\ got' \in [1..Files -> Nat] /\ file' \in 1..Files+1
    BY <2>1, NextSizeIsFresh DEF IInv
  <2> QED BY <1>3, <2>1, <2>2 DEF IInv, GotIsOfInfo, Place, RowTypes, RowIsOfOneRevision
<1>5. CASE h \notin Lacking
  <2>1. /\ got' = [got EXCEPT ![file] = h] /\ file' = file + 1 /\ pc' = IF file < Files THEN "file" ELSE "store"
        /\ UNCHANGED <<size, info, hub, rev, held, head, failed>>
    BY <1>5 DEF Use, rows
  <2>2. GotIsOfInfo'
    <3>1. ASSUME NEW f \in 1..Files, f < file' PROVE got'[f] = Content[info][f] /\ got'[f] \notin Lacking
      <4>1. got \in [1..Files -> Nat] BY DEF IInv, Place
      <4>2. CASE f = file BY <4>1, <4>2, <2>1, <1>1, <1>5
      <4>3. CASE f < file BY <4>1, <4>3, <2>1, <1>1 DEF IInv, GotIsOfInfo
      <4> QED BY <4>2, <4>3, <3>1, <2>1, <1>1, SizesAreNumbers
    <3> QED BY <3>1, <2>1, <1>1 DEF GotIsOfInfo
  <2>3. Place' BY <2>1, <1>1, <1>2, SizesAreNumbers DEF IInv, Place
  <2> QED BY <1>3, <2>1, <2>2, <2>3 DEF IInv, RowTypes, RowIsOfOneRevision
<1> QED BY <1>4, <1>5
-----------------------------------------------------------------------------
LEMMA InitInv == Init => IInv
BY SizesAreNumbers, RevisionsAreNumbers
   DEF Init, IInv, HeadersAreTrue, GotIsOfInfo, Place, RowTypes, RowIsOfOneRevision, NoFiles, Revs

LEMMA StepInv == IInv /\ [Next]_vars => IInv'
<1> SUFFICES ASSUME IInv, [Next]_vars PROVE IInv'
  OBVIOUS
<1> USE DEF hubVars, cache, rows, request, place
<1>1. CASE HubChanges
  <2>1. hub' \in [1..Sizes -> Revs]
    <3>1. PICK s \in 1..Sizes : hub[s] < MaxRev /\ hub' = [hub EXCEPT ![s] = hub[s] + 1] BY <1>1 DEF HubChanges
    <3>2. hub[s] \in Revs BY DEF IInv, Place
    <3>3. hub[s] + 1 \in Revs BY <3>1, <3>2, RevisionsAreNumbers DEF Revs
    <3> QED BY <3>1, <3>3 DEF IInv, Place
  <2>2. UNCHANGED <<headers, rev, held, head, failed, pc, size, info, file, got>> BY <1>1 DEF HubChanges
  <2> QED BY <2>1, <2>2 DEF IInv, HeadersAreTrue, GotIsOfInfo, Place, RowTypes, RowIsOfOneRevision
<1>2. CASE Begin
  <2>1. /\ pc' = "listing" /\ size' = 1 /\ file' = 1 /\ got' = NoFiles
        /\ UNCHANGED <<hub, headers, rev, held, head, failed>>
    BY <1>2 DEF Begin
  <2>2. Place' BY <2>1, SizesAreNumbers DEF IInv, Place, NoFiles
  <2>3. GotIsOfInfo' BY <2>1 DEF GotIsOfInfo
  <2> QED BY <2>1, <2>2, <2>3 DEF IInv, HeadersAreTrue, RowTypes, RowIsOfOneRevision
<1>3. CASE Listed
  <2>1. pc = "listing" /\ pc' = "file" /\ info' = hub[size] /\ UNCHANGED <<size, file, got, hub, headers, rev, held, head, failed>>
    BY <1>3 DEF Listed
  <2>2. info' \in Revs /\ file' = 1 BY <2>1 DEF IInv, Place
  <2>3. GotIsOfInfo' BY <2>2 DEF GotIsOfInfo
  <2>4. Place' BY <2>1, <2>2, SizesAreNumbers DEF IInv, Place
  <2> QED BY <2>1, <2>3, <2>4 DEF IInv, HeadersAreTrue, RowTypes, RowIsOfOneRevision
<1>4. CASE HeaderCached
  <2>1. PICK h \in Cached : Use(h) BY <1>4 DEF HeaderCached
  <2>2. h = Content[info][file]
    BY <2>1 DEF Cached, Hash, IInv, HeadersAreTrue
  <2> QED BY <1>4, <2>1, <2>2, UseKeeps DEF HeaderCached
<1>5. CASE HeaderMissed
  BY <1>5 DEF HeaderMissed, NewRequest, IInv, HeadersAreTrue, GotIsOfInfo, Place, RowTypes, RowIsOfOneRevision
<1>6. CASE NextRange
  BY <1>6 DEF NextRange, NewRequest, IInv, HeadersAreTrue, GotIsOfInfo, Place, RowTypes, RowIsOfOneRevision
<1>7. CASE HeaderRead
  <2> DEFINE h == Content[info][file]
  <2>1. pc = "range" /\ Use(h) /\ headers' = headers \cup {<<size, file, h, h>>} /\ hub' = hub
    BY <1>7 DEF HeaderRead, ReadAt, Hash
  <2> QED BY <2>1, UseKeeps
<1>8. CASE Store
  <2>1. /\ pc = "store" /\ rev' = [rev EXCEPT ![size] = info] /\ held' = [held EXCEPT ![size] = Content[info]]
        /\ head' = [head EXCEPT ![size] = got] /\ failed' = [failed EXCEPT ![size] = FALSE]
        /\ NextSize /\ UNCHANGED <<hub, headers>>
    BY <1>8 DEF Store
  <2>2. pc' \in {"listing", "idle"} /\ size' \in 1..Sizes /\ file' = 1 /\ got' \in [1..Files -> Nat] /\ file' \in 1..Files+1
    BY <2>1, NextSizeIsFresh DEF IInv
  <2>3. info \in Revs /\ Content[info] \in [1..Files -> Nat] BY <2>1, ContentIsNumbers DEF IInv, GotIsOfInfo
  <2>4. \A f \in 1..Files : got[f] = Content[info][f] /\ got[f] \notin Lacking
    BY <2>1, SizesAreNumbers DEF IInv, GotIsOfInfo, Place
  <2>5. RowTypes' BY <2>1, <2>3 DEF IInv, RowTypes, Place, Revs
  <2>6. RowIsOfOneRevision'
    <3>1. ASSUME NEW s \in 1..Sizes, rev'[s] # 0
          PROVE held'[s] = Content[rev'[s]] /\ \A f \in 1..Files : head'[s][f] = held'[s][f] /\ head'[s][f] \notin Lacking
      <4>1. CASE s = size BY <4>1, <2>1, <2>3, <2>4 DEF IInv, RowTypes
      <4>2. CASE s # size BY <4>2, <3>1, <2>1 DEF IInv, RowTypes, RowIsOfOneRevision
      <4> QED BY <4>1, <4>2
    <3> QED BY <3>1 DEF RowIsOfOneRevision
  <2> QED BY <2>1, <2>2, <2>5, <2>6 DEF IInv, HeadersAreTrue, GotIsOfInfo, Place
<1>9. CASE AttemptFails
  <2>1. CASE attempt < MaxAttempts
    BY <1>9, <2>1 DEF AttemptFails, Fault, IInv, HeadersAreTrue, GotIsOfInfo, Place, RowTypes, RowIsOfOneRevision
  <2>2. CASE ~(attempt < MaxAttempts)
    <3>1. SizeFails(below) /\ headers' = headers /\ hub' = hub BY <1>9, <2>2 DEF AttemptFails, Fault
    <3>2. SizeFails(TRUE) \/ SizeFails(FALSE) BY <3>1 DEF SizeFails
    <3> QED BY <3>1, <3>2, FailureKeeps
  <2> QED BY <2>1, <2>2
<1>10. CASE Busy
  <2>1. hub' = hub /\ headers' = headers BY <1>10 DEF Busy, Fault
  <2>2. CASE attempt' = attempt + 1 /\ UNCHANGED <<pc, place, stopped, rows>>
    BY <2>1, <2>2 DEF IInv, HeadersAreTrue, GotIsOfInfo, Place, RowTypes, RowIsOfOneRevision
  <2>3. CASE SizeFails(FALSE) BY <2>1, <2>3, FailureKeeps
  <2> QED BY <1>10, <2>2, <2>3 DEF Busy
<1>11. CASE Refused
  BY <1>11, FailureKeeps DEF Refused, Fault
<1>12. CASE Stop
  BY <1>12 DEF Stop, Fault, IInv, HeadersAreTrue, GotIsOfInfo, Place, RowTypes, RowIsOfOneRevision
<1>13. CASE UNCHANGED vars
  BY <1>13 DEF vars, IInv, HeadersAreTrue, GotIsOfInfo, Place, RowTypes, RowIsOfOneRevision
<1> QED BY <1>1, <1>2, <1>3, <1>4, <1>5, <1>6, <1>7, <1>8, <1>9, <1>10, <1>11, <1>12, <1>13
      DEF Next, Read, NoAnswer, RedirectedTooOften

(* However a repository changes while it is read and whatever fails, the   *)
(* rows of a size and their headers are those of one revision.             *)
THEOREM RowsOfOneRevision == Spec => []RowIsOfOneRevision
<1>1. IInv => RowIsOfOneRevision BY DEF IInv
<1> QED BY InitInv, StepInv, <1>1, PTL DEF Spec
-----------------------------------------------------------------------------
(* While no answer of a request could be used, or told to wait, each       *)
(* attempt of it failed in HTTP.Do.                                        *)
AttemptsInv ==
  /\ silent \in Nat /\ sentOn \in Nat /\ attempt \in Nat
  /\ pc \in {"listing", "range"} /\ below => silent + sentOn >= attempt - 1

(* What the counting of attempts comes to, in numbers.                     *)
LEMMA FirstAttempt ==
  ASSUME NEW x \in Nat, NEW y \in Nat
  PROVE  x + y >= 1 - 1
OBVIOUS

LEMMA OneMore ==
  ASSUME NEW x \in Nat, NEW y \in Nat, NEW n \in Nat, x + y >= n - 1
  PROVE  /\ (x + 1) + y >= (n + 1) - 1 /\ x + (y + 1) >= (n + 1) - 1
         /\ \A m \in Nat : ~(n < m) => (x + 1) + y >= m /\ x + (y + 1) >= m
OBVIOUS

LEMMA NewRequestIsFirst ==
  ASSUME NewRequest, silent' \in Nat, sentOn' \in Nat
  PROVE  AttemptsInv'
BY FirstAttempt DEF NewRequest, AttemptsInv

LEMMA SizeFailsCounted ==
  ASSUME AttemptsInv, NEW u \in BOOLEAN, SizeFails(u), silent' \in Nat, sentOn' \in Nat
  PROVE  AttemptsInv' /\ (stopped' => stopped \/ u)
<1>1. CASE u BY <1>1 DEF SizeFails, AttemptsInv
<1>2. CASE ~u BY <1>2, NewRequestIsFirst DEF SizeFails, NextSize
<1> QED BY <1>1, <1>2

LEMMA UseCounted ==
  ASSUME AttemptsInv, NEW h, Use(h), silent' \in Nat, sentOn' \in Nat
  PROVE  AttemptsInv' /\ (stopped' => stopped)
BY NewRequestIsFirst, SizeFailsCounted DEF Use

LEMMA FailureCounted ==
  ASSUME AttemptsInv, AttemptFails, silent' \in Nat, sentOn' \in Nat,
         (silent' = silent + 1 /\ sentOn' = sentOn) \/ (sentOn' = sentOn + 1 /\ silent' = silent)
  PROVE  AttemptsInv' /\ (stopped' /\ ~stopped => silent' + sentOn' >= MaxAttempts)
<1>1. CASE attempt < MaxAttempts
  <2>1. attempt' = attempt + 1 /\ attempt' \in Nat /\ UNCHANGED <<pc, below, stopped>>
    BY <1>1 DEF AttemptFails, AttemptsInv
  <2>2. pc \in {"listing", "range"} /\ below => silent' + sentOn' >= attempt' - 1
    BY <2>1, OneMore DEF AttemptsInv
  <2> QED BY <2>1, <2>2 DEF AttemptsInv
<1>2. CASE ~(attempt < MaxAttempts)
  <2>1. SizeFails(below) BY <1>2 DEF AttemptFails
  <2>2. (SizeFails(TRUE) /\ below) \/ SizeFails(FALSE) BY <2>1 DEF SizeFails
  <2>3. AttemptsInv' /\ (stopped' => stopped \/ below) BY <2>2, SizeFailsCounted
  <2>4. below => silent' + sentOn' >= MaxAttempts
    BY <1>2, OneMore, BoundsAreNumbers DEF AttemptFails, AttemptsInv
  <2> QED BY <2>3, <2>4
<1> QED BY <1>1, <1>2

LEMMA StepCounted ==
  ASSUME AttemptsInv, [Next]_vars
  PROVE  AttemptsInv' /\ (stopped' /\ ~stopped => silent' + sentOn' >= MaxAttempts)
<1> USE DEF hubVars, rows, request, place
<1>1. CASE NoAnswer \/ RedirectedTooOften
  <2>1. /\ AttemptFails /\ silent' \in Nat /\ sentOn' \in Nat
        /\ (silent' = silent + 1 /\ sentOn' = sentOn) \/ (sentOn' = sentOn + 1 /\ silent' = silent)
    BY <1>1 DEF NoAnswer, RedirectedTooOften, AttemptsInv
  <2> QED BY <2>1, FailureCounted
<1>2. CASE Busy
  <2>1. silent' \in Nat /\ sentOn' \in Nat BY <1>2 DEF Busy, Answered
  <2>2. CASE attempt' = attempt + 1 /\ below' = FALSE /\ UNCHANGED <<pc, place, stopped, rows>>
    <3>1. below' = FALSE /\ attempt' \in Nat /\ stopped' = stopped BY <2>2 DEF AttemptsInv
    <3> QED BY <2>1, <3>1 DEF AttemptsInv
  <2>3. CASE SizeFails(FALSE) BY <2>1, <2>3, SizeFailsCounted
  <2> QED BY <1>2, <2>2, <2>3 DEF Busy
<1>3. CASE Refused BY <1>3, SizeFailsCounted DEF Refused, Answered
<1>4. CASE Begin \/ HeaderMissed \/ NextRange
  <2>1. NewRequest /\ silent' \in Nat /\ sentOn' \in Nat /\ (stopped' => stopped)
    BY <1>4 DEF Begin, HeaderMissed, NextRange, AttemptsInv, Answered
  <2> QED BY <2>1, NewRequestIsFirst
<1>5. CASE HeaderCached \/ HeaderRead
  <2>1. silent' \in Nat /\ sentOn' \in Nat BY <1>5 DEF HeaderCached, HeaderRead, AttemptsInv, Answered
  <2>2. \E h : Use(h) BY <1>5 DEF HeaderCached, HeaderRead
  <2> QED BY <2>1, <2>2, UseCounted
<1>6. CASE Store
  <2>1. NewRequest /\ silent' \in Nat /\ sentOn' \in Nat /\ stopped' = stopped BY <1>6 DEF Store, NextSize, AttemptsInv
  <2> QED BY <2>1, NewRequestIsFirst
<1>7. CASE HubChanges \/ Listed \/ Stop \/ UNCHANGED vars
  BY <1>7 DEF HubChanges, Listed, Stop, Fault, vars, Answered, AttemptsInv
<1> QED BY <1>1, <1>2, <1>3, <1>4, <1>5, <1>6, <1>7 DEF Next, Read

(* A refresh that leaves the sizes after the one at hand alone has seen as *)
(* many attempts fail in HTTP.Do as a request has (do's transportOnly and  *)
(* ErrUnreachable), for silence or for redirects without end, however the  *)
(* Hub's answers, its being busy and those failures alternate.             *)
THEOREM GivesUpOnlyUnreached == Spec => StopsOnlyUnreached
<1>1. Init => AttemptsInv BY DEF Init, AttemptsInv
<1>2. AttemptsInv /\ [Next]_vars => AttemptsInv' BY StepCounted
<1>3. AttemptsInv /\ [Next]_vars => [stopped' /\ ~stopped => silent' + sentOn' >= MaxAttempts]_vars
  BY StepCounted
<1> QED BY <1>1, <1>2, <1>3, PTL DEF Spec, StopsOnlyUnreached
=============================================================================
