------------------------- MODULE BenchHarnessProofs -------------------------
(***************************************************************************)
(* Proofs about BenchHarness, for any number of clients, runs, prompts,    *)
(* repeats, warm-ups and stops.                                            *)
(***************************************************************************)
EXTENDS BenchHarness, FiniteSetTheorems, TLAPS

LEMMA NatProduct ==
  ASSUME NEW a \in Nat, NEW b \in Nat
  PROVE  a * b \in Nat
  BY SMT

\* Dropping k of a prompts drops k * b of the requests.
LEMMA ProductMinus ==
  ASSUME NEW a \in Nat, NEW k \in Nat, NEW b \in Nat, k <= a
  PROVE  (a - k) * b = a * b - k * b /\ k * b \in Nat /\ k * b <= a * b
  <1>1. (a - k) * b = a * b - k * b
    BY SMT
  <1>2. (a - k) * b \in Nat
    BY NatProduct, a - k \in Nat
  <1>3. a * b \in Nat /\ k * b \in Nat
    BY NatProduct
  <1> QED
    BY <1>1, <1>2, <1>3

LEMMA OneFactor ==
  ASSUME NEW a \in Nat, NEW b \in Nat, a > 0
  PROVE  b <= a * b
  <1>1. (a - 1) * b = a * b - 1 * b /\ 1 * b = b
    BY SMT
  <1>2. (a - 1) * b \in Nat
    BY NatProduct, a - 1 \in Nat
  <1>3. a * b \in Nat
    BY NatProduct
  <1> QED
    BY <1>1, <1>2, <1>3

\* Passing over what is left (b - k) of a prompt of b requests keeps the
\* account of the steps, q being the requests of the prompts left.
LEMMA PassOver ==
  ASSUME NEW s \in Nat, NEW t \in Nat, NEW k \in Nat, NEW b \in Nat, NEW q \in Nat,
         k <= b, b <= q, s + q = t + k
  PROVE  (s + (b - k)) + (q - b) = t + 0 /\ s + (b - k) <= t
  BY SMT

-----------------------------------------------------------------------------
(* The counters of a run.  TypeOK alone is not inductive: that steps stays a *)
(* natural number needs the accounting below.                                *)

Before == {"preparing", "warming", "observing"}
Over == Finishing \cup {"closing", "gone"}

CountOK(r) ==
  /\ step[r] <= steps[r]
  /\ pc[r] = "preparing" => step[r] = 0
  /\ pc[r] = "warming" => step[r] <= Warmups
  /\ pc[r] = "observing" => step[r] = Warmups
  /\ pc[r] \in Before => rep[r] = 0 /\ steps[r] = Warmups + todo[r] * Repeats
  /\ pc[r] = "measuring" => /\ rep[r] < Repeats
                            /\ todo[r] = 0 => rep[r] = 0
                            /\ step[r] + todo[r] * Repeats = steps[r] + rep[r]
  /\ pc[r] \in Over /\ cause[r] = "none" => step[r] = steps[r]
  /\ pc[r] = "none" => step[r] = 0 /\ rep[r] = 0
  /\ pc[r] \in {"none"} \cup Executing => cause[r] = "none" /\ verdict[r] = "running"
  /\ verdict[r] = "done" => step[r] = steps[r]

CountTypes ==
  /\ pc \in [Runs -> PCs] /\ todo \in [Runs -> Nat] /\ rep \in [Runs -> Nat]
  /\ step \in [Runs -> Nat] /\ steps \in [Runs -> Nat]
  /\ cause \in [Runs -> {"none", "ctx", "other"}]
  /\ verdict \in [Runs -> Finished \cup {"running"}]
  /\ row \in [Runs -> Finished \cup {"absent", "running"}]

\* An id not yet handed out has no goroutine.
Unstarted == \A r \in Runs : row[r] = "absent" => pc[r] = "none"

Counts == TypeOK /\ Unstarted /\ \A r \in Runs : CountOK(r)

USE DEF harnessVars, runVars, flagVars, workVars, countVars, resultVars, endVars,
        storeVars, clientVars

LEMMA CountsInit == Init => Counts
  <1> SUFFICES ASSUME Init PROVE Counts
    OBVIOUS
  <1>1. TypeOK
    BY BenchHarnessAssumption DEF Init, TypeOK, PCs
  <1>2. \A r \in Runs : CountOK(r)
    BY BenchHarnessAssumption DEF Init, CountOK, Before, Over, Executing, Finishing
  <1>3. Unstarted
    BY DEF Init, Unstarted
  <1> QED
    BY <1>1, <1>2, <1>3 DEF Counts

\* A step that leaves the fields of TypeOK and CountOK alone keeps them.
LEMMA CountsStutter ==
  ASSUME Counts, UNCHANGED vars
  PROVE  Counts'
  BY DEF Counts, TypeOK, CountOK, Unstarted, vars

LEMMA CountsClient ==
  ASSUME Counts, NEW c \in Clients, Client(c)
  PROVE  Counts'
  <1>k. TypeOK /\ Unstarted /\ (\A x \in Runs : CountOK(x))
    BY DEF Counts
  <1>y. CountTypes /\ MaxRuns \in Nat
    BY <1>k, BenchHarnessAssumption DEF TypeOK, CountTypes
  <1>1. CASE StartCheck(c)
    <2>t. TypeOK'
      BY <1>1, <1>k, <1>y DEF StartCheck, TypeOK
    <2>c. Unstarted' /\ \A x \in Runs : CountOK(x)'
      BY <1>1, <1>k DEF StartCheck, CountOK, Unstarted
    <2> QED
      BY <2>t, <2>c DEF Counts
  <1>2. CASE StartRun(c)
    <2>1. PICK r \in Runs, n \in 1..MaxPrompts :
            /\ NextId(r)
            /\ row' = [row EXCEPT ![r] = "running"]
            /\ active' = r
            /\ pc' = [pc EXCEPT ![r] = "preparing"]
            /\ todo' = [todo EXCEPT ![r] = n]
            /\ steps' = [steps EXCEPT ![r] = Warmups + n * Repeats]
      BY <1>2 DEF StartRun
    <2>2. n \in Nat /\ n * Repeats \in Nat /\ Warmups + n * Repeats \in Nat
      BY NatProduct, <2>1, BenchHarnessAssumption
    <2>a. r \in 0..MaxRuns
      BY <1>y DEF Runs
    <2>t. TypeOK'
      BY <1>2, <1>k, <2>1, <2>2, <2>a DEF StartRun, TypeOK, PCs, Executing
    <2>3. pc[r] = "none"
      BY <2>1, <1>k DEF NextId, Unstarted
    <2>c. ASSUME NEW x \in Runs PROVE CountOK(x)'
      <3>1. CASE x = r
        BY <1>2, <1>k, <1>y, <2>1, <2>2, <2>3, <3>1, BenchHarnessAssumption
           DEF StartRun, CountTypes, CountOK, Before, Over, Executing, Finishing
      <3>2. CASE x # r
        BY <1>2, <1>k, <1>y, <2>1, <3>2 DEF StartRun, CountTypes, CountOK
      <3> QED
        BY <3>1, <3>2
    <2>u. Unstarted'
      BY <1>k, <1>y, <2>1 DEF TypeOK, Unstarted
    <2> QED
      BY <2>t, <2>u, <2>c DEF Counts
  <1>3. CASE StartFails(c)
    <2>t. TypeOK'
      BY <1>3, <1>k, <1>y DEF StartFails, TypeOK
    <2>c. Unstarted' /\ \A x \in Runs : CountOK(x)'
      BY <1>3, <1>k DEF StartFails, CountOK, Unstarted
    <2> QED
      BY <2>t, <2>c DEF Counts
  <1>4. CASE CancelFind(c)
    <2>t. TypeOK'
      BY <1>4, <1>k, <1>y DEF CancelFind, TypeOK
    <2>c. Unstarted' /\ \A x \in Runs : CountOK(x)'
      BY <1>4, <1>k DEF CancelFind, CountOK, Unstarted
    <2> QED
      BY <2>t, <2>c DEF Counts
  <1>5. CASE CancelMark(c)
    <2>t. TypeOK'
      BY <1>5, <1>k, <1>y DEF CancelMark, TypeOK
    <2>c. Unstarted' /\ \A x \in Runs : CountOK(x)'
      BY <1>5, <1>k DEF CancelMark, CountOK, Unstarted
    <2> QED
      BY <2>t, <2>c DEF Counts
  <1>6. CASE CancelCtx(c)
    <2>t. TypeOK'
      BY <1>6, <1>k, <1>y DEF CancelCtx, TypeOK
    <2>c. Unstarted' /\ \A x \in Runs : CountOK(x)'
      BY <1>6, <1>k DEF CancelCtx, CountOK, Unstarted
    <2> QED
      BY <2>t, <2>c DEF Counts
  <1>7. CASE CancelAnswer(c)
    <2>t. TypeOK'
      BY <1>7, <1>k, <1>y DEF CancelAnswer, TypeOK
    <2>c. Unstarted' /\ \A x \in Runs : CountOK(x)'
      BY <1>7, <1>k DEF CancelAnswer, CountOK, Unstarted
    <2> QED
      BY <2>t, <2>c DEF Counts
  <1>8. CASE CancelGivesUp(c)
    <2>t. TypeOK'
      BY <1>8, <1>k, <1>y DEF CancelGivesUp, TypeOK
    <2>c. Unstarted' /\ \A x \in Runs : CountOK(x)'
      BY <1>8, <1>k DEF CancelGivesUp, CountOK, Unstarted
    <2> QED
      BY <2>t, <2>c DEF Counts
  <1> QED
    BY <1>1, <1>2, <1>3, <1>4, <1>5, <1>6, <1>7, <1>8 DEF Client

LEMMA CountsFinish ==
  ASSUME Counts, NEW r \in Runs, Finish(r)
  PROVE  Counts'
  <1>k. TypeOK /\ Unstarted /\ (\A x \in Runs : CountOK(x))
    BY DEF Counts
  <1>y. CountTypes /\ MaxRuns \in Nat
    BY <1>k, BenchHarnessAssumption DEF TypeOK, CountTypes
  <1>1. CASE ReadCancelled(r)
    <2>t. TypeOK'
      BY <1>1, <1>k, <1>y DEF ReadCancelled, Goto, Own, TypeOK, PCs, Finishing
    <2>c. ASSUME NEW x \in Runs PROVE CountOK(x)'
      <3>1. CASE x = r
        BY <1>1, <1>k, <1>y, <3>1 DEF ReadCancelled, Goto, Own, CountTypes, CountOK, Before, Over, Executing, Finishing
      <3>2. CASE x # r
        BY <1>1, <1>k, <1>y, <3>2 DEF ReadCancelled, Goto, Own, CountTypes, CountOK
      <3> QED
        BY <3>1, <3>2
    <2>u. Unstarted'
      BY <1>1, <1>k, <1>y DEF ReadCancelled, SaveProgress, Goto, Own, Unstarted, CountTypes, Finished
    <2> QED
      BY <2>t, <2>u, <2>c DEF Counts
  <1>2. CASE Unloaded(r)
    <2>t. TypeOK'
      BY <1>2, <1>k, <1>y DEF Unloaded, Verdict, Finished, Goto, Own, TypeOK, PCs, Finishing
    <2>c. ASSUME NEW x \in Runs PROVE CountOK(x)'
      <3>1. CASE x = r
        BY <1>2, <1>k, <1>y, <3>1 DEF Unloaded, Verdict, Finished, Goto, Own, CountTypes, CountOK, Before, Over, Executing, Finishing
      <3>2. CASE x # r
        BY <1>2, <1>k, <1>y, <3>2 DEF Unloaded, Goto, Own, CountTypes, CountOK
      <3> QED
        BY <3>1, <3>2
    <2>u. Unstarted'
      BY <1>2, <1>k, <1>y DEF Unloaded, SaveProgress, Goto, Own, Unstarted, CountTypes, Finished
    <2> QED
      BY <2>t, <2>u, <2>c DEF Counts
  <1>3. CASE WriteBack(r)
    <2>1. est' \in [Configs -> 0..MaxRuns]
      <3>1. r \in 0..MaxRuns
        BY <1>y DEF Runs
      <3> QED
        BY <1>3, <1>k, <3>1 DEF WriteBack, TypeOK
    <2>t. TypeOK'
      BY <1>3, <1>k, <2>1 DEF WriteBack, Goto, Own, TypeOK, PCs, Finishing
    <2>c. ASSUME NEW x \in Runs PROVE CountOK(x)'
      <3>1. CASE x = r
        BY <1>3, <1>k, <1>y, <3>1 DEF WriteBack, Goto, Own, CountTypes, CountOK, Before, Over, Executing, Finishing
      <3>2. CASE x # r
        BY <1>3, <1>k, <1>y, <3>2 DEF WriteBack, Goto, Own, CountTypes, CountOK
      <3> QED
        BY <3>1, <3>2
    <2>u. Unstarted'
      BY <1>3, <1>k, <1>y DEF WriteBack, SaveProgress, Goto, Own, Unstarted, CountTypes, Finished
    <2> QED
      BY <2>t, <2>u, <2>c DEF Counts
  <1>4. CASE FinalSave(r)
    <2>t. TypeOK'
      BY <1>4, <1>k, <1>y DEF FinalSave, Goto, Own, TypeOK, PCs, Finishing
    <2>c. ASSUME NEW x \in Runs PROVE CountOK(x)'
      <3>1. CASE x = r
        BY <1>4, <1>k, <1>y, <3>1 DEF FinalSave, Goto, Own, CountTypes, CountOK, Before, Over, Executing, Finishing
      <3>2. CASE x # r
        BY <1>4, <1>k, <1>y, <3>2 DEF FinalSave, Goto, Own, CountTypes, CountOK
      <3> QED
        BY <3>1, <3>2
    <2>u. Unstarted'
      <3>1. ASSUME NEW x \in Runs, x # r PROVE row'[x] = row[x] /\ pc'[x] = pc[x]
        BY <1>4, <1>y, <3>1 DEF FinalSave, Goto, CountTypes
      <3>2. row'[r] = row[r] \/ row'[r] # "absent"
        BY <1>4, <1>y DEF FinalSave, CountTypes, Finished
      <3>3. pc[r] # "none" /\ row[r] # "absent"
        BY <1>4, <1>k DEF FinalSave, Goto, Unstarted
      <3> QED
        BY <1>k, <3>1, <3>2, <3>3 DEF Unstarted
    <2> QED
      BY <2>t, <2>u, <2>c DEF Counts
  <1>5. CASE Publish(r)
    <2>t. TypeOK'
      BY <1>5, <1>k, <1>y DEF Publish, Goto, Own, TypeOK, PCs, Finishing
    <2>c. ASSUME NEW x \in Runs PROVE CountOK(x)'
      <3>1. CASE x = r
        BY <1>5, <1>k, <1>y, <3>1 DEF Publish, Goto, Own, CountTypes, CountOK, Before, Over, Executing, Finishing
      <3>2. CASE x # r
        BY <1>5, <1>k, <1>y, <3>2 DEF Publish, Goto, Own, CountTypes, CountOK
      <3> QED
        BY <3>1, <3>2
    <2>u. Unstarted'
      BY <1>5, <1>k, <1>y DEF Publish, SaveProgress, Goto, Own, Unstarted, CountTypes, Finished
    <2> QED
      BY <2>t, <2>u, <2>c DEF Counts
  <1>6. CASE ClearActive(r)
    <2>t. TypeOK'
      BY <1>6, <1>k, <1>y DEF ClearActive, Goto, Own, TypeOK, PCs, Finishing
    <2>c. ASSUME NEW x \in Runs PROVE CountOK(x)'
      <3>1. CASE x = r
        BY <1>6, <1>k, <1>y, <3>1 DEF ClearActive, Goto, Own, CountTypes, CountOK, Before, Over, Executing, Finishing
      <3>2. CASE x # r
        BY <1>6, <1>k, <1>y, <3>2 DEF ClearActive, Goto, Own, CountTypes, CountOK
      <3> QED
        BY <3>1, <3>2
    <2>u. Unstarted'
      BY <1>6, <1>k, <1>y DEF ClearActive, SaveProgress, Goto, Own, Unstarted, CountTypes, Finished
    <2> QED
      BY <2>t, <2>u, <2>c DEF Counts
  <1>7. CASE CloseDone(r)
    <2>t. TypeOK'
      BY <1>7, <1>k, <1>y DEF CloseDone, Goto, Own, TypeOK, PCs, Finishing
    <2>c. ASSUME NEW x \in Runs PROVE CountOK(x)'
      <3>1. CASE x = r
        BY <1>7, <1>k, <1>y, <3>1 DEF CloseDone, Goto, Own, CountTypes, CountOK, Before, Over, Executing, Finishing
      <3>2. CASE x # r
        BY <1>7, <1>k, <1>y, <3>2 DEF CloseDone, Goto, Own, CountTypes, CountOK
      <3> QED
        BY <3>1, <3>2
    <2>u. Unstarted'
      BY <1>7, <1>k, <1>y DEF CloseDone, SaveProgress, Goto, Own, Unstarted, CountTypes, Finished
    <2> QED
      BY <2>t, <2>u, <2>c DEF Counts
  <1> QED
    BY <1>1, <1>2, <1>3, <1>4, <1>5, <1>6, <1>7 DEF Finish

LEMMA CountsExecute ==
  ASSUME Counts, NEW r \in Runs, Execute(r)
  PROVE  Counts'
  <1>k. TypeOK /\ Unstarted /\ (\A x \in Runs : CountOK(x))
    BY DEF Counts
  <1>y. CountTypes /\ MaxRuns \in Nat
    BY <1>k, BenchHarnessAssumption DEF TypeOK, CountTypes
  <1>t. todo[r] \in Nat /\ todo[r] * Repeats \in Nat /\ Repeats \in Nat \ {0} /\ Warmups \in Nat
    BY <1>k, NatProduct, BenchHarnessAssumption DEF TypeOK
  <1>1. CASE Prepared(r)
    <2>t. TypeOK'
      BY <1>1, <1>k, <1>y DEF Prepared, Goto, Own, TypeOK, PCs, Executing, Finishing
    <2>c. ASSUME NEW x \in Runs PROVE CountOK(x)'
      <3>1. CASE x = r
        BY <1>1, <1>k, <1>y, <1>t, <3>1 DEF Prepared, Goto, Own, CountTypes, CountOK, Before, Over, Executing, Finishing
      <3>2. CASE x # r
        BY <1>1, <1>k, <1>y, <3>2 DEF Prepared, Goto, Own, CountTypes, CountOK
      <3> QED
        BY <3>1, <3>2
    <2>u. Unstarted'
      BY <1>1, <1>k, <1>y DEF Prepared, SaveProgress, Goto, Own, Unstarted, CountTypes, Finished
    <2> QED
      BY <2>t, <2>u, <2>c DEF Counts
  <1>2. CASE WarmUp(r)
    <2>t. TypeOK'
      BY <1>2, <1>k, <1>y DEF WarmUp, Goto, Own, TypeOK, PCs, Executing, Finishing
    <2>c. ASSUME NEW x \in Runs PROVE CountOK(x)'
      <3>1. CASE x = r
        BY <1>2, <1>k, <1>y, <1>t, <3>1 DEF WarmUp, Goto, Own, CountTypes, CountOK, Before, Over, Executing, Finishing
      <3>2. CASE x # r
        BY <1>2, <1>k, <1>y, <3>2 DEF WarmUp, Goto, Own, CountTypes, CountOK
      <3> QED
        BY <3>1, <3>2
    <2>u. Unstarted'
      BY <1>2, <1>k, <1>y DEF WarmUp, SaveProgress, Goto, Own, Unstarted, CountTypes, Finished
    <2> QED
      BY <2>t, <2>u, <2>c DEF Counts
  <1>3. CASE WarmedUp(r)
    <2>t. TypeOK'
      BY <1>3, <1>k, <1>y DEF WarmedUp, Goto, Own, TypeOK, PCs, Executing, Finishing
    <2>c. ASSUME NEW x \in Runs PROVE CountOK(x)'
      <3>1. CASE x = r
        BY <1>3, <1>k, <1>y, <1>t, <3>1 DEF WarmedUp, Goto, Own, CountTypes, CountOK, Before, Over, Executing, Finishing
      <3>2. CASE x # r
        BY <1>3, <1>k, <1>y, <3>2 DEF WarmedUp, Goto, Own, CountTypes, CountOK
      <3> QED
        BY <3>1, <3>2
    <2>u. Unstarted'
      BY <1>3, <1>k, <1>y DEF WarmedUp, SaveProgress, Goto, Own, Unstarted, CountTypes, Finished
    <2> QED
      BY <2>t, <2>u, <2>c DEF Counts
  <1>4. CASE Observe(r)
    <2>1. PICK c \in Configs \cup {NoConfig}, k \in 0..todo[r] :
            /\ config' = [config EXCEPT ![r] = c]
            /\ todo' = [todo EXCEPT ![r] = @ - k]
            /\ steps' = [steps EXCEPT ![r] = @ - k * Repeats]
      BY <1>4 DEF Observe
    <2>2. /\ k \in Nat /\ todo[r] - k \in Nat /\ k * Repeats \in Nat /\ k * Repeats <= todo[r] * Repeats
          /\ (todo[r] - k) * Repeats = todo[r] * Repeats - k * Repeats
      BY <1>t, ProductMinus
    <2>3. steps[r] = Warmups + todo[r] * Repeats /\ step[r] = Warmups /\ rep[r] = 0
      BY <1>4, <1>k DEF Observe, Goto, CountOK, Before
    <2>4. steps[r] - k * Repeats \in Nat
      BY <1>t, <2>2, <2>3
    <2>t. TypeOK'
      BY <1>4, <1>k, <1>y, <2>1, <2>2, <2>4 DEF Observe, SaveProgress, Goto, TypeOK, PCs, Executing
    <2>c. ASSUME NEW x \in Runs PROVE CountOK(x)'
      <3>1. CASE x = r
        BY <1>4, <1>k, <1>y, <1>t, <2>1, <2>2, <2>3, <2>4, <3>1
           DEF Observe, Goto, CountTypes, CountOK, Before, Over, Executing, Finishing
      <3>2. CASE x # r
        BY <1>4, <1>k, <1>y, <2>1, <3>2 DEF Observe, Goto, CountTypes, CountOK
      <3> QED
        BY <3>1, <3>2
    <2>u. Unstarted'
      <3>1. ASSUME NEW x \in Runs, x # r PROVE row'[x] = row[x] /\ pc'[x] = pc[x]
        BY <1>4, <1>y, <3>1 DEF Observe, SaveProgress, Goto, CountTypes
      <3>2. row'[r] = row[r] \/ row'[r] = "running"
        BY <1>4, <1>y DEF Observe, SaveProgress, CountTypes
      <3>3. pc[r] # "none" /\ row[r] # "absent"
        BY <1>4, <1>k DEF Observe, Goto, Unstarted
      <3> QED
        BY <1>k, <3>1, <3>2, <3>3 DEF Unstarted
    <2> QED
      BY <2>t, <2>u, <2>c DEF Counts
  <1>5. CASE TimedRequest(r)
    <2>1. todo[r] * Repeats >= Repeats
      <3>1. todo[r] \in Nat /\ todo[r] > 0 /\ Repeats \in Nat
        BY <1>5, <1>t DEF TimedRequest
      <3>2. Repeats <= todo[r] * Repeats /\ todo[r] * Repeats \in Nat
        BY <3>1, OneFactor, NatProduct
      <3> QED
        BY <3>1, <3>2
    <2>2. /\ step[r] + todo[r] * Repeats = steps[r] + rep[r] /\ cause[r] = "none" /\ verdict[r] = "running"
      BY <1>5, <1>k DEF TimedRequest, Goto, CountOK, Executing
    <2>3. /\ pc'[r] = "measuring" /\ step'[r] = step[r] + 1 /\ rep'[r] = rep[r] + 1
          /\ todo'[r] = todo[r] /\ steps'[r] = steps[r] /\ cause'[r] = cause[r] /\ verdict'[r] = verdict[r]
          /\ todo[r] > 0 /\ rep[r] + 1 < Repeats
          /\ step[r] \in Nat /\ steps[r] \in Nat /\ rep[r] \in Nat
      BY <1>5, <1>y DEF TimedRequest, Goto, Own, CountTypes
    <2>t. TypeOK'
      BY <1>5, <1>k, <1>y DEF TimedRequest, Goto, Own, TypeOK, PCs, Executing, Finishing
    <2>c. ASSUME NEW x \in Runs PROVE CountOK(x)'
      <3>1. CASE x = r
        BY <1>t, <2>1, <2>2, <2>3, <3>1 DEF CountOK, Before, Over, Executing, Finishing
      <3>2. CASE x # r
        BY <1>5, <1>k, <1>y, <3>2 DEF TimedRequest, Goto, Own, CountTypes, CountOK
      <3> QED
        BY <3>1, <3>2
    <2>u. Unstarted'
      BY <1>5, <1>k, <1>y DEF TimedRequest, SaveProgress, Goto, Own, Unstarted, CountTypes, Finished
    <2> QED
      BY <2>t, <2>u, <2>c DEF Counts
  <1>6. CASE TimedPrompt(r)
    <2>1. todo[r] - 1 \in Nat
      BY <1>6, <1>t DEF TimedPrompt
    <2>2. (todo[r] - 1) * Repeats = todo[r] * Repeats - Repeats /\ (todo[r] - 1) * Repeats \in Nat
      BY <1>t, <2>1, ProductMinus, NatProduct
    <2>4. step[r] + todo[r] * Repeats = steps[r] + rep[r] /\ cause[r] = "none" /\ verdict[r] = "running"
      BY <1>6, <1>k DEF TimedPrompt, Goto, CountOK, Executing
    <2>5. /\ pc'[r] = "measuring" /\ step'[r] = step[r] + 1 /\ rep'[r] = 0
          /\ todo'[r] = todo[r] - 1 /\ steps'[r] = steps[r] /\ cause'[r] = cause[r] /\ verdict'[r] = verdict[r]
          /\ todo[r] > 0
          /\ step[r] \in Nat /\ steps[r] \in Nat /\ rep[r] \in Nat
      BY <1>6, <1>y DEF TimedPrompt, Goto, Own, CountTypes
    <2>6. row' \in [Runs -> Finished \cup {"absent", "running"}] /\ rowGen' \in [Runs -> BOOLEAN]
          /\ gen' \in [Runs -> BOOLEAN]
      <3>1. PICK g \in {gen[r], TRUE} : gen' = [gen EXCEPT ![r] = g] /\ SaveProgress(r, g)
        BY <1>6 DEF TimedPrompt
      <3>2. g \in BOOLEAN
        BY <1>k DEF TypeOK
      <3> QED
        BY <1>k, <3>1, <3>2 DEF SaveProgress, TypeOK
    <2>t. TypeOK'
      BY <1>6, <1>k, <1>y, <2>1, <2>6 DEF TimedPrompt, Goto, Own, TypeOK, PCs, Executing
    <2>c. ASSUME NEW x \in Runs PROVE CountOK(x)'
      <3>1. CASE x = r
        <4>1. rep[r] + 1 = Repeats
          BY <1>6 DEF TimedPrompt
        <4>2. todo'[r] * Repeats = todo[r] * Repeats - Repeats /\ todo'[r] * Repeats \in Nat
          BY <2>2, <2>5
        <4>3. todo[r] * Repeats \in Nat /\ Repeats <= todo[r] * Repeats
          BY <1>t, <2>5, NatProduct, OneFactor
        <4>4. step'[r] + todo'[r] * Repeats = steps'[r] + rep'[r] /\ step'[r] <= steps'[r]
          <5>1. PICK q \in Nat : q = todo[r] * Repeats
            BY <4>3
          <5>2. Repeats <= q /\ step[r] + q = steps[r] + rep[r] /\ todo'[r] * Repeats = q - Repeats
            BY <2>4, <4>2, <4>3, <5>1
          <5>3. (step[r] + (Repeats - rep[r])) + (q - Repeats) = steps[r] + 0
                /\ step[r] + (Repeats - rep[r]) <= steps[r]
            <6>1. rep[r] <= Repeats
              BY <1>t, <2>5, <4>1
            <6>2. step[r] \in Nat /\ steps[r] \in Nat /\ rep[r] \in Nat /\ Repeats \in Nat
              BY <1>t, <2>5
            <6> QED
              BY <5>1, <5>2, <6>1, <6>2, PassOver
          <5>4. step'[r] = step[r] + (Repeats - rep[r]) /\ rep'[r] = 0 /\ steps'[r] = steps[r]
            BY <1>t, <2>5, <4>1
          <5> QED
            BY <5>2, <5>3, <5>4
        <4> QED
          BY <1>t, <2>4, <2>5, <3>1, <4>4 DEF CountOK, Before, Over, Executing, Finishing
      <3>2. CASE x # r
        BY <1>6, <1>k, <1>y, <3>2 DEF TimedPrompt, Goto, Own, CountTypes, CountOK
      <3> QED
        BY <3>1, <3>2
    <2>u. Unstarted'
      <3>1. ASSUME NEW x \in Runs, x # r PROVE row'[x] = row[x] /\ pc'[x] = pc[x]
        BY <1>6, <1>y, <3>1 DEF TimedPrompt, SaveProgress, Goto, CountTypes
      <3>2. row'[r] = row[r] \/ row'[r] = "running"
        BY <1>6, <1>y DEF TimedPrompt, SaveProgress, CountTypes
      <3>3. pc[r] # "none" /\ row[r] # "absent"
        BY <1>6, <1>k DEF TimedPrompt, Goto, Unstarted
      <3> QED
        BY <1>k, <3>1, <3>2, <3>3 DEF Unstarted
    <2> QED
      BY <2>t, <2>u, <2>c DEF Counts
  <1>7. CASE PromptTooLong(r)
    <2>1. todo[r] - 1 \in Nat
      BY <1>7, <1>t DEF PromptTooLong
    <2>2. (todo[r] - 1) * Repeats = todo[r] * Repeats - Repeats /\ (todo[r] - 1) * Repeats \in Nat
      BY <1>t, <2>1, ProductMinus, NatProduct
    <2>3. rep[r] < Repeats
      BY <1>7, <1>k DEF PromptTooLong, Goto, CountOK
    <2>4. step[r] + todo[r] * Repeats = steps[r] + rep[r] /\ cause[r] = "none" /\ verdict[r] = "running"
      BY <1>7, <1>k DEF PromptTooLong, Goto, CountOK, Executing
    <2>5. /\ pc'[r] = "measuring" /\ step'[r] = step[r] + (Repeats - rep[r]) /\ rep'[r] = 0
          /\ todo'[r] = todo[r] - 1 /\ steps'[r] = steps[r] /\ cause'[r] = cause[r] /\ verdict'[r] = verdict[r]
          /\ todo[r] > 0
          /\ step[r] \in Nat /\ steps[r] \in Nat /\ rep[r] \in Nat
      BY <1>7, <1>y DEF PromptTooLong, Goto, Own, CountTypes
    <2>t. TypeOK'
      BY <1>7, <1>k, <1>y, <1>t, <2>1, <2>3 DEF PromptTooLong, Goto, Own, TypeOK, PCs, Executing, Finishing
    <2>c. ASSUME NEW x \in Runs PROVE CountOK(x)'
      <3>1. CASE x = r
        <4>2. todo'[r] * Repeats = todo[r] * Repeats - Repeats /\ todo'[r] * Repeats \in Nat
          BY <2>2, <2>5
        <4>3. todo[r] * Repeats \in Nat /\ Repeats <= todo[r] * Repeats
          BY <1>t, <2>5, NatProduct, OneFactor
        <4>4. step'[r] + todo'[r] * Repeats = steps'[r] + rep'[r] /\ step'[r] <= steps'[r]
          <5>1. PICK q \in Nat : q = todo[r] * Repeats
            BY <4>3
          <5>2. Repeats <= q /\ step[r] + q = steps[r] + rep[r] /\ todo'[r] * Repeats = q - Repeats
            BY <2>4, <4>2, <4>3, <5>1
          <5>3. (step[r] + (Repeats - rep[r])) + (q - Repeats) = steps[r] + 0
                /\ step[r] + (Repeats - rep[r]) <= steps[r]
            BY <1>t, <2>3, <2>5, <5>2, PassOver
          <5>4. step'[r] = step[r] + (Repeats - rep[r]) /\ rep'[r] = 0 /\ steps'[r] = steps[r]
            BY <2>5
          <5> QED
            BY <5>2, <5>3, <5>4
        <4> QED
          BY <1>t, <2>4, <2>5, <3>1, <4>4 DEF CountOK, Before, Over, Executing, Finishing
      <3>2. CASE x # r
        BY <1>7, <1>k, <1>y, <3>2 DEF PromptTooLong, Goto, Own, CountTypes, CountOK
      <3> QED
        BY <3>1, <3>2
    <2>u. Unstarted'
      BY <1>7, <1>k, <1>y DEF PromptTooLong, SaveProgress, Goto, Own, Unstarted, CountTypes, Finished
    <2> QED
      BY <2>t, <2>u, <2>c DEF Counts
  <1>8. CASE Measured(r)
    <2>1. todo[r] * Repeats = 0
      BY <1>8, <1>t DEF Measured
    <2>t. TypeOK'
      BY <1>8, <1>k, <1>y DEF Measured, Goto, Own, TypeOK, PCs, Executing, Finishing
    <2>c. ASSUME NEW x \in Runs PROVE CountOK(x)'
      <3>1. CASE x = r
        BY <1>8, <1>k, <1>y, <1>t, <2>1, <3>1 DEF Measured, Goto, Own, CountTypes, CountOK, Before, Over, Executing, Finishing
      <3>2. CASE x # r
        BY <1>8, <1>k, <1>y, <3>2 DEF Measured, Goto, Own, CountTypes, CountOK
      <3> QED
        BY <3>1, <3>2
    <2>u. Unstarted'
      BY <1>8, <1>k, <1>y DEF Measured, SaveProgress, Goto, Own, Unstarted, CountTypes, Finished
    <2> QED
      BY <2>t, <2>u, <2>c DEF Counts
  <1>9. CASE Fails(r)
    <2>t. TypeOK'
      BY <1>9, <1>k, <1>y DEF Fails, Goto, Own, TypeOK, PCs, Executing, Finishing
    <2>c. ASSUME NEW x \in Runs PROVE CountOK(x)'
      <3>1. CASE x = r
        BY <1>9, <1>k, <1>y, <1>t, <3>1 DEF Fails, Goto, Own, CountTypes, CountOK, Before, Over, Executing, Finishing
      <3>2. CASE x # r
        BY <1>9, <1>k, <1>y, <3>2 DEF Fails, Goto, Own, CountTypes, CountOK
      <3> QED
        BY <3>1, <3>2
    <2>u. Unstarted'
      BY <1>9, <1>k, <1>y DEF Fails, SaveProgress, Goto, Own, Unstarted, CountTypes, Finished
    <2> QED
      BY <2>t, <2>u, <2>c DEF Counts
  <1> QED
    BY <1>1, <1>2, <1>3, <1>4, <1>5, <1>6, <1>7, <1>8, <1>9 DEF Execute

LEMMA CountsNext ==
  ASSUME Counts, [Next]_vars
  PROVE  Counts'
  <1>k. TypeOK /\ Unstarted /\ (\A x \in Runs : CountOK(x))
    BY DEF Counts
  <1>1. CASE Crash
    <2>1. pc' \in [Runs -> PCs]
      BY <1>1, <1>k DEF Crash, TypeOK, PCs
    <2>2. crashes' \in 0..MaxCrashes /\ active' \in 0..MaxRuns /\ target' \in [Clients -> 0..MaxRuns]
      BY <1>1, <1>k, BenchHarnessAssumption DEF Crash, TypeOK
    <2>t. TypeOK'
      BY <1>1, <1>k, <2>1, <2>2 DEF Crash, TypeOK
    <2>c. ASSUME NEW x \in Runs PROVE CountOK(x)'
      BY <1>1, <1>k DEF Crash, CountOK, Before, Over, Executing, Finishing
    <2>u. Unstarted'
      BY <1>1, <1>k DEF Crash, Unstarted
    <2> QED
      BY <2>t, <2>c, <2>u DEF Counts
  <1>2. CASE Recover
    <2>t. TypeOK'
      BY <1>2, <1>k DEF Recover, TypeOK, Finished
    <2>c. Unstarted' /\ \A x \in Runs : CountOK(x)'
      BY <1>2, <1>k DEF Recover, CountOK, Unstarted
    <2> QED
      BY <2>t, <2>c DEF Counts
  <1> QED
    BY <1>1, <1>2, CountsStutter, CountsClient, CountsFinish, CountsExecute DEF Next

\* The inductive invariant of the counters.
THEOREM CountsInvariant == Spec => []Counts
  <1> QED
    BY CountsInit, CountsNext, PTL DEF Spec

\* Every variable keeps its type; of the counters, that steps never drops
\* below what was announced and already taken (checkFits subtracts from it).
THEOREM TypeCorrect == Spec => []TypeOK
  <1>1. Counts => TypeOK
    BY DEF Counts
  <1> QED
    BY <1>1, CountsInvariant, PTL

\* The progress bar of every run, whatever is skipped, refused or dropped.
THEOREM StepsAlwaysAddUp == Spec => []StepsAddUp
  <1>1. Counts => StepsAddUp
    BY DEF Counts, CountOK, StepsAddUp
  <1> QED
    BY <1>1, CountsInvariant, PTL

-----------------------------------------------------------------------------
(* The life of a run.  First, also when the last write of finish fails:    *)
(* one run has the machine at a time, and the status a run ends with and   *)
(* the estimates it replaces are justified.  Then, where the row has to    *)
(* agree with the verdict and that write is assumed to succeed             *)
(* (FinalSaveMayFail is FALSE): a run's row, its copy in memory and its    *)
(* goroutine agree, and from these BenchHarness implements BenchLedger.    *)

USE DEF harnessVars, runVars, flagVars, workVars, countVars, resultVars, endVars,
        storeVars, clientVars

Running == Executing \cup Finishing

\* The goroutine that has the machine is the one h.active names.
Sole == \A r \in Runs : pc[r] \in Running <=> active = r

\* A step of execute stays in execute, or enters finish.
LEMMA ExecuteGoes ==
  ASSUME NEW r \in Runs, Execute(r)
  PROVE  /\ pc[r] \in Executing /\ active' = active
         /\ \E q \in Executing \cup {"finish"} : pc' = [pc EXCEPT ![r] = q]
  <1>1. CASE Prepared(r) \/ WarmUp(r) \/ WarmedUp(r) \/ Observe(r)
    BY <1>1 DEF Prepared, WarmUp, WarmedUp, Observe, Goto, Own, Executing
  <1>2. CASE TimedRequest(r) \/ TimedPrompt(r) \/ PromptTooLong(r)
    BY <1>2 DEF TimedRequest, TimedPrompt, PromptTooLong, Goto, Own, Executing
  <1>3. CASE Measured(r) \/ Fails(r)
    BY <1>3 DEF Measured, Fails, Goto, Own, Executing
  <1> QED
    BY <1>1, <1>2, <1>3 DEF Execute

LEMMA SoleMoves ==
  ASSUME pc \in [Runs -> PCs], Sole, NEW r \in Runs, pc[r] \in Running, active' = active,
         NEW q \in Running, pc' = [pc EXCEPT ![r] = q]
  PROVE  Sole'
  BY DEF Sole

LEMMA SoleFinish ==
  ASSUME pc \in [Runs -> PCs], Sole, NEW r \in Runs, Finish(r)
  PROVE  Sole'
  <1>0. \A x \in Runs : x # 0
    BY BenchHarnessAssumption DEF Runs
  <1>1. CASE ReadCancelled(r) \/ Unloaded(r) \/ WriteBack(r) \/ FinalSave(r) \/ Publish(r)
    <2>1. /\ pc[r] \in Finishing /\ active' = active
          /\ \E q \in Finishing : pc' = [pc EXCEPT ![r] = q]
      BY <1>1 DEF ReadCancelled, Unloaded, WriteBack, FinalSave, Publish, Goto, Own, Finishing
    <2> QED
      BY <2>1, SoleMoves DEF Running
  <1>2. CASE ClearActive(r)
    <2>1. /\ pc[r] = "clearing" /\ pc' = [pc EXCEPT ![r] = "closing"]
          /\ active' = IF active = r THEN 0 ELSE active
      BY <1>2 DEF ClearActive, Goto
    <2>2. active = r
      BY <2>1 DEF Sole, Running, Finishing
    <2> QED
      BY <1>0, <2>1, <2>2 DEF Sole, Running, Executing, Finishing
  <1>3. CASE CloseDone(r)
    <2>1. pc[r] = "closing" /\ pc' = [pc EXCEPT ![r] = "gone"] /\ active' = active
      BY <1>3 DEF CloseDone, Goto, Own
    <2> QED
      BY <2>1 DEF Sole, Running, Executing, Finishing
  <1> QED
    BY <1>1, <1>2, <1>3 DEF Finish

\* A client moves a goroutine by starting it only.
LEMMA ClientStarts ==
  ASSUME NEW c \in Clients, Client(c)
  PROVE  StartRun(c) \/ UNCHANGED <<active, pc>>
  <1>1. CASE StartCheck(c) \/ StartFails(c)
    BY <1>1 DEF StartCheck, StartFails
  <1>2. CASE CancelFind(c) \/ CancelMark(c) \/ CancelCtx(c)
    BY <1>2 DEF CancelFind, CancelMark, CancelCtx
  <1>3. CASE CancelAnswer(c) \/ CancelGivesUp(c)
    BY <1>3 DEF CancelAnswer, CancelGivesUp
  <1> QED
    BY <1>1, <1>2, <1>3 DEF Client

LEMMA SoleNext ==
  ASSUME Counts, Sole, [Next]_vars
  PROVE  Sole'
  <1>0. \A x \in Runs : x # 0
    BY BenchHarnessAssumption DEF Runs
  <1>t. pc \in [Runs -> PCs]
    BY DEF Counts, TypeOK
  <1>1. ASSUME NEW c \in Clients, StartRun(c) PROVE Sole'
    <2>1. PICK r \in Runs : active' = r /\ pc' = [pc EXCEPT ![r] = "preparing"]
      BY <1>1 DEF StartRun
    <2>2. active = 0
      BY <1>1 DEF StartRun
    <2> QED
      BY <1>0, <1>t, <2>1, <2>2 DEF Sole, Running, Executing
  <1>2. ASSUME NEW r \in Runs, Execute(r) PROVE Sole'
    <2>1. pc[r] \in Running /\ Executing \cup {"finish"} \subseteq Running
      BY <1>2, ExecuteGoes DEF Running, Finishing
    <2> QED
      BY <1>2, <1>t, <2>1, ExecuteGoes, SoleMoves
  <1>3. CASE Crash
    <2>1. active' = 0 /\ \A r \in Runs : pc'[r] \in {"none", "gone", "died"}
      BY <1>3 DEF Crash
    <2> QED
      BY <1>0, <2>1 DEF Sole, Running, Executing, Finishing
  <1>4. CASE Recover \/ UNCHANGED vars
    BY <1>4 DEF Recover, vars, Sole
  <1>5. ASSUME NEW c \in Clients, Client(c) PROVE Sole'
    BY <1>1, <1>5, ClientStarts DEF Sole
  <1> QED
    BY <1>t, <1>2, <1>3, <1>4, <1>5, SoleFinish DEF Next

\* Two runs never share the machine, whichever order the looks at h.active,
\* the plans and the inserts of any number of clients come in.
THEOREM NeverTwoRuns == Spec => []OneAtATime
  <1>1. Init => Sole
    BY BenchHarnessAssumption DEF Init, Sole, Running, Executing, Finishing, Runs
  <1>2. Sole => OneAtATime
    <2> SUFFICES ASSUME Sole PROVE OneAtATime
      OBVIOUS
    <2> DEFINE R == {r \in Runs : pc[r] \in Executing \cup Finishing}
    <2>1. R \subseteq {active}
      BY DEF Sole, Running
    <2>2. IsFiniteSet({active}) /\ Cardinality({active}) = 1
      BY FS_Singleton
    <2>3. Cardinality(R) <= 1
      BY <2>1, <2>2, FS_Subset
    <2> QED
      BY <2>3 DEF OneAtATime
  <1> QED
    BY <1>1, <1>2, SoleNext, CountsInvariant, PTL DEF Spec

-----------------------------------------------------------------------------
(* Cancelling *)

Past == {"unloading", "writeback", "saving", "publishing", "clearing", "closing", "gone"}

\* The flag is set before the context is cancelled, and read after the error
\* the cancelled context causes.
CancelOK ==
  /\ \A r \in Runs : ctxDone[r] => cancelled[r]
  /\ \A c \in Clients : /\ at[c] \in {"marking", "cancelling", "waiting"} => target[c] \in Runs
                        /\ at[c] = "cancelling" => cancelled[target[c]]
  /\ \A r \in Runs : /\ cause[r] = "ctx" => ctxDone[r]
                     /\ cause[r] = "ctx" /\ pc[r] \in Past => seen[r]
                     /\ verdict[r] = "failed" => cause[r] = "other"
                     /\ pc[r] \in Executing \cup {"finish", "unloading"} => verdict[r] = "running"

\* An estimate names a run that ended done with the figure it carries.
EstOK == \A c \in Configs : est[c] # 0 =>
  est[c] \in Runs /\ verdict[est[c]] = "done" /\ gen[est[c]] /\ config[est[c]] = c

Writing == \A r \in Runs : pc[r] = "writeback" => verdict[r] = "done"

Outcome == CancelOK /\ EstOK /\ Writing

OutcomeTypes ==
  /\ pc \in [Runs -> PCs] /\ active \in 0..MaxRuns
  /\ cancelled \in [Runs -> BOOLEAN] /\ ctxDone \in [Runs -> BOOLEAN]
  /\ seen \in [Runs -> BOOLEAN] /\ gen \in [Runs -> BOOLEAN]
  /\ config \in [Runs -> Configs \cup {NoConfig}]
  /\ cause \in [Runs -> {"none", "ctx", "other"}]
  /\ verdict \in [Runs -> Finished \cup {"running"}]
  /\ est \in [Configs -> 0..MaxRuns]
  /\ at \in [Clients -> {"idle", "planning", "marking", "cancelling", "waiting"}]
  /\ target \in [Clients -> 0..MaxRuns]

LEMMA OutcomeTyped ==
  ASSUME TypeOK
  PROVE  OutcomeTypes
  BY DEF TypeOK, OutcomeTypes

LEMMA OutcomeInit == Init => Outcome
  BY DEF Init, Outcome, CancelOK, EstOK, Writing, Executing

LEMMA OutcomeClient ==
  ASSUME Counts, Outcome, NEW c \in Clients, Client(c)
  PROVE  Outcome'
  <1>t. OutcomeTypes
    BY OutcomeTyped DEF Counts
  <1>k. CancelOK /\ EstOK /\ Writing
    BY DEF Outcome
  <1>1. CASE StartRun(c)
    <2>1. PICK r \in Runs : row[r] = "absent" /\ pc' = [pc EXCEPT ![r] = "preparing"]
      BY <1>1 DEF StartRun, NextId
    <2>2. /\ at' = [at EXCEPT ![c] = "idle"]
          /\ UNCHANGED <<target, cancelled, ctxDone, cause, seen, verdict, gen, config, est>>
      BY <1>1 DEF StartRun
    <2>3. pc[r] = "none" /\ cause[r] = "none" /\ verdict[r] = "running"
      BY <2>1 DEF Counts, Unstarted, CountOK
    <2>4. \A x \in Runs : x # r => pc'[x] = pc[x]
      BY <1>t, <2>1 DEF OutcomeTypes
    <2>5. pc'[r] = "preparing"
      BY <1>t, <2>1 DEF OutcomeTypes
    <2>6. CancelOK'
      BY <1>k, <1>t, <2>2, <2>3, <2>4, <2>5 DEF CancelOK, OutcomeTypes, Past
    <2>7. EstOK' /\ Writing'
      BY <1>k, <2>2, <2>4, <2>5 DEF EstOK, Writing
    <2> QED
      BY <2>6, <2>7 DEF Outcome
  <1>2. CASE StartCheck(c) \/ StartFails(c) \/ CancelAnswer(c) \/ CancelGivesUp(c)
    <2>1. UNCHANGED <<pc, cancelled, ctxDone, cause, seen, verdict, gen, config, est>>
      BY <1>2 DEF StartCheck, StartFails, CancelAnswer, CancelGivesUp
    <2>2. /\ at' = [at EXCEPT ![c] = "planning"] \/ at' = [at EXCEPT ![c] = "idle"]
          /\ target' = target \/ target' = [target EXCEPT ![c] = 0]
      BY <1>2 DEF StartCheck, StartFails, CancelAnswer, CancelGivesUp
    <2>3. /\ at'[c] \in {"planning", "idle"}
          /\ \A x \in Clients : x # c => at'[x] = at[x] /\ target'[x] = target[x]
      BY <1>t, <2>2 DEF OutcomeTypes
    <2>4. CancelOK'
      BY <1>k, <2>1, <2>3 DEF CancelOK
    <2> QED
      BY <1>k, <2>1, <2>4 DEF Outcome, EstOK, Writing
  <1>3. CASE CancelFind(c)
    <2>1. /\ UNCHANGED <<pc, cancelled, ctxDone, cause, seen, verdict, gen, config, est>>
          /\ at' = [at EXCEPT ![c] = "marking"] /\ target' = [target EXCEPT ![c] = active]
          /\ active # 0
      BY <1>3 DEF CancelFind
    <2>2. active \in Runs
      BY <1>t, <2>1, BenchHarnessAssumption DEF OutcomeTypes, Runs
    <2>3. /\ at'[c] = "marking" /\ target'[c] \in Runs
          /\ \A x \in Clients : x # c => at'[x] = at[x] /\ target'[x] = target[x]
      BY <1>t, <2>1, <2>2 DEF OutcomeTypes
    <2>4. CancelOK'
      BY <1>k, <2>1, <2>3 DEF CancelOK
    <2> QED
      BY <1>k, <2>1, <2>4 DEF Outcome, EstOK, Writing
  <1>4. CASE CancelMark(c)
    <2>1. /\ UNCHANGED <<pc, ctxDone, target, cause, seen, verdict, gen, config, est>>
          /\ at[c] = "marking" /\ at' = [at EXCEPT ![c] = "cancelling"]
          /\ cancelled' = [cancelled EXCEPT ![target[c]] = TRUE]
      BY <1>4 DEF CancelMark
    <2>2. target[c] \in Runs
      BY <1>k, <2>1 DEF CancelOK
    <2>3. /\ \A x \in Clients : x # c => at'[x] = at[x]
          /\ at'[c] = "cancelling" /\ cancelled'[target[c]]
          /\ \A r \in Runs : cancelled[r] => cancelled'[r]
      BY <1>t, <2>1, <2>2 DEF OutcomeTypes
    <2>4. CancelOK'
      BY <1>k, <2>1, <2>2, <2>3 DEF CancelOK
    <2> QED
      BY <1>k, <2>1, <2>4 DEF Outcome, EstOK, Writing
  <1>5. CASE CancelCtx(c)
    <2>1. /\ UNCHANGED <<pc, cancelled, target, cause, seen, verdict, gen, config, est>>
          /\ at[c] = "cancelling" /\ at' = [at EXCEPT ![c] = "waiting"]
          /\ ctxDone' = [ctxDone EXCEPT ![target[c]] = TRUE]
      BY <1>5 DEF CancelCtx
    <2>2. target[c] \in Runs /\ cancelled[target[c]]
      BY <1>k, <2>1 DEF CancelOK
    <2>3. /\ \A x \in Clients : x # c => at'[x] = at[x]
          /\ at'[c] = "waiting"
          /\ \A r \in Runs : ctxDone'[r] <=> (ctxDone[r] \/ r = target[c])
      BY <1>t, <2>1, <2>2 DEF OutcomeTypes
    <2>4. CancelOK'
      BY <1>k, <2>1, <2>2, <2>3 DEF CancelOK
    <2> QED
      BY <1>k, <2>1, <2>4 DEF Outcome, EstOK, Writing
  <1> QED
    BY <1>1, <1>2, <1>3, <1>4, <1>5 DEF Client

\* execute leaves the verdict alone, and blames the context only when it is
\* cancelled.
LEMMA OutcomeExecute ==
  ASSUME Counts, Outcome, NEW r \in Runs, Execute(r)
  PROVE  Outcome'
  <1>t. OutcomeTypes
    BY OutcomeTyped DEF Counts
  <1>k. CancelOK /\ EstOK /\ Writing
    BY DEF Outcome
  <1>1. UNCHANGED <<cancelled, ctxDone, seen, verdict, est, at, target>>
    <2>1. CASE Prepared(r) \/ WarmUp(r) \/ WarmedUp(r) \/ TimedRequest(r)
      BY <2>1 DEF Prepared, WarmUp, WarmedUp, TimedRequest, Own
    <2>2. CASE PromptTooLong(r) \/ Measured(r) \/ Fails(r)
      BY <2>2 DEF PromptTooLong, Measured, Fails, Own
    <2>3. CASE Observe(r)
      BY <2>3 DEF Observe
    <2>4. CASE TimedPrompt(r)
      BY <2>4 DEF TimedPrompt
    <2> QED
      BY <2>1, <2>2, <2>3, <2>4 DEF Execute
  <1>2. /\ \A x \in Runs : x # r => cause'[x] = cause[x] /\ gen'[x] = gen[x] /\ config'[x] = config[x]
        /\ cause'[r] = "ctx" => ctxDone[r]
    <2>1. CASE Prepared(r) \/ WarmUp(r) \/ WarmedUp(r) \/ TimedRequest(r) \/ PromptTooLong(r)
      BY <1>k, <2>1 DEF Prepared, WarmUp, WarmedUp, TimedRequest, PromptTooLong, CancelOK
    <2>2. CASE Observe(r)
      <3>1. PICK v \in Configs \cup {NoConfig} : config' = [config EXCEPT ![r] = v]
        BY <2>2 DEF Observe
      <3>2. cause' = cause /\ gen' = gen
        BY <2>2 DEF Observe
      <3> QED
        BY <1>k, <1>t, <3>1, <3>2 DEF OutcomeTypes, CancelOK
    <2>3. CASE TimedPrompt(r)
      <3>1. PICK g \in {gen[r], TRUE} : gen' = [gen EXCEPT ![r] = g]
        BY <2>3 DEF TimedPrompt
      <3>2. cause' = cause /\ config' = config
        BY <2>3 DEF TimedPrompt
      <3> QED
        BY <1>k, <1>t, <3>1, <3>2 DEF OutcomeTypes, CancelOK
    <2>4. CASE Measured(r)
      BY <1>t, <2>4 DEF Measured, OutcomeTypes
    <2>5. CASE Fails(r)
      BY <1>t, <2>5 DEF Fails, OutcomeTypes
    <2> QED
      BY <2>1, <2>2, <2>3, <2>4, <2>5 DEF Execute
  <1>3. /\ pc[r] \in Executing /\ verdict[r] = "running"
        /\ pc'[r] \in Executing \cup {"finish"}
        /\ \A x \in Runs : x # r => pc'[x] = pc[x]
    BY <1>t, <1>k, ExecuteGoes DEF OutcomeTypes, CancelOK
  <1>4. CancelOK'
    <2>1. ASSUME NEW x \in Runs
          PROVE  /\ cause'[x] = "ctx" => ctxDone[x]
                 /\ cause'[x] = "ctx" /\ pc'[x] \in Past => seen[x]
                 /\ verdict[x] = "failed" => cause'[x] = "other"
                 /\ pc'[x] \in Executing \cup {"finish", "unloading"} => verdict[x] = "running"
      <3>1. CASE x = r
        BY <1>2, <1>3, <3>1 DEF Past, Executing
      <3>2. CASE x # r
        BY <1>k, <1>2, <1>3, <3>2 DEF CancelOK
      <3> QED
        BY <3>1, <3>2
    <2> QED
      BY <1>k, <1>1, <2>1 DEF CancelOK
  <1>5. EstOK'
    BY <1>k, <1>1, <1>2, <1>3 DEF EstOK
  <1>6. Writing'
    BY <1>k, <1>1, <1>3 DEF Writing, Executing
  <1> QED
    BY <1>4, <1>5, <1>6 DEF Outcome

LEMMA OutcomeFinish ==
  ASSUME Counts, Outcome, NEW r \in Runs, Finish(r)
  PROVE  Outcome'
  <1>t. OutcomeTypes
    BY OutcomeTyped DEF Counts
  <1>k. CancelOK /\ EstOK /\ Writing
    BY DEF Outcome
  <1>1. CASE ReadCancelled(r)
    <2>1. /\ pc[r] = "finish" /\ pc' = [pc EXCEPT ![r] = "unloading"]
          /\ seen' = [seen EXCEPT ![r] = cancelled[r]]
          /\ UNCHANGED <<cancelled, ctxDone, cause, verdict, gen, config, est, at, target>>
      BY <1>1 DEF ReadCancelled, Goto, Own
    <2>2. /\ pc'[r] = "unloading" /\ seen'[r] = cancelled[r]
          /\ \A x \in Runs : x # r => pc'[x] = pc[x] /\ seen'[x] = seen[x]
      BY <1>t, <2>1 DEF OutcomeTypes
    <2>3. CancelOK'
      BY <1>k, <2>1, <2>2 DEF CancelOK
    <2>4. EstOK' /\ Writing'
      BY <1>k, <2>1, <2>2 DEF EstOK, Writing
    <2> QED
      BY <2>3, <2>4 DEF Outcome
  <1>2. CASE Unloaded(r)
    <2>1. /\ pc[r] = "unloading"
          /\ pc' = [pc EXCEPT ![r] = IF Verdict(r) = "done" THEN "writeback" ELSE "saving"]
          /\ verdict' = [verdict EXCEPT ![r] = Verdict(r)]
          /\ UNCHANGED <<cancelled, ctxDone, cause, seen, gen, config, est, at, target>>
      BY <1>2 DEF Unloaded, Goto, Own
    <2>2. /\ verdict'[r] = Verdict(r) /\ pc'[r] \in {"writeback", "saving"}
          /\ pc'[r] = "writeback" => verdict'[r] = "done"
          /\ \A x \in Runs : x # r => pc'[x] = pc[x] /\ verdict'[x] = verdict[x]
      BY <1>t, <2>1 DEF OutcomeTypes
    <2>3. verdict[r] = "running" /\ (cause[r] = "ctx" => seen[r])
      BY <1>k, <2>1 DEF CancelOK, Past
    <2>4. verdict'[r] = "failed" => cause[r] = "other"
      BY <1>t, <2>2, <2>3 DEF Verdict, OutcomeTypes
    <2>5. CancelOK'
      <3>1. ASSUME NEW x \in Runs
            PROVE  /\ cause[x] = "ctx" /\ pc'[x] \in Past => seen[x]
                   /\ verdict'[x] = "failed" => cause[x] = "other"
                   /\ pc'[x] \in Executing \cup {"finish", "unloading"} => verdict'[x] = "running"
        BY <1>k, <2>2, <2>3, <2>4 DEF CancelOK, Executing
      <3> QED
        BY <1>k, <2>1, <3>1 DEF CancelOK
    <2>6. EstOK'
      BY <1>k, <2>1, <2>2, <2>3 DEF EstOK
    <2>7. Writing'
      BY <1>k, <2>2 DEF Writing
    <2> QED
      BY <2>5, <2>6, <2>7 DEF Outcome
  <1>3. CASE WriteBack(r)
    <2>1. /\ pc[r] = "writeback" /\ pc' = [pc EXCEPT ![r] = "saving"]
          /\ UNCHANGED <<cancelled, ctxDone, cause, seen, verdict, gen, config, at, target>>
      BY <1>3 DEF WriteBack, Goto
    <2>2. pc'[r] = "saving" /\ \A x \in Runs : x # r => pc'[x] = pc[x]
      BY <1>t, <2>1 DEF OutcomeTypes
    <2>3. CancelOK' /\ Writing'
      BY <1>k, <2>1, <2>2 DEF CancelOK, Writing, Past, Executing
    <2>4. verdict[r] = "done"
      BY <1>k, <2>1 DEF Writing
    <2>5. EstOK'
      <3>1. CASE est' = est
        BY <1>k, <2>1, <3>1 DEF EstOK
      <3>2. CASE /\ gen[r] /\ config[r] \in Configs
                 /\ est' = [est EXCEPT ![config[r]] = r]
        BY <1>k, <1>t, <2>1, <2>4, <3>2 DEF EstOK, OutcomeTypes
      <3> QED
        BY <1>3, <3>1, <3>2 DEF WriteBack
    <2> QED
      BY <2>3, <2>5 DEF Outcome
  <1>4. CASE FinalSave(r) \/ Publish(r) \/ ClearActive(r) \/ CloseDone(r)
    <2>1. UNCHANGED <<cancelled, ctxDone, cause, seen, verdict, gen, config, est, at, target>>
      BY <1>4 DEF FinalSave, Publish, ClearActive, CloseDone, Own
    <2>2. /\ pc[r] \in Past
          /\ \E q \in Past \ {"unloading", "writeback"} : pc' = [pc EXCEPT ![r] = q]
      BY <1>4 DEF FinalSave, Publish, ClearActive, CloseDone, Goto, Past
    <2>3. /\ pc'[r] \in Past \ {"unloading", "writeback"}
          /\ \A x \in Runs : x # r => pc'[x] = pc[x]
      BY <1>t, <2>2 DEF OutcomeTypes
    <2>4. CancelOK' /\ Writing'
      BY <1>k, <2>1, <2>2, <2>3 DEF CancelOK, Writing, Past, Executing
    <2> QED
      BY <1>k, <2>1, <2>4 DEF Outcome, EstOK
  <1> QED
    BY <1>1, <1>2, <1>3, <1>4 DEF Finish

LEMMA OutcomeNext ==
  ASSUME Counts, Outcome, [Next]_vars
  PROVE  Outcome'
  <1>k. CancelOK /\ EstOK /\ Writing
    BY DEF Outcome
  <1>1. CASE Crash
    <2>1. /\ UNCHANGED <<cancelled, ctxDone, cause, seen, verdict, gen, config, est>>
          /\ at' = [c \in Clients |-> "idle"]
          /\ pc' = [r \in Runs |-> IF pc[r] \in {"none", "gone"} THEN pc[r] ELSE "died"]
      BY <1>1 DEF Crash
    <2>2. CancelOK' /\ Writing'
      BY <1>k, <2>1 DEF CancelOK, Writing, Past, Executing
    <2> QED
      BY <1>k, <2>1, <2>2 DEF Outcome, EstOK
  <1>2. CASE Recover \/ UNCHANGED vars
    BY <1>k, <1>2 DEF Recover, vars, Outcome, CancelOK, EstOK, Writing
  <1> QED
    BY <1>1, <1>2, OutcomeClient, OutcomeExecute, OutcomeFinish DEF Next

THEOREM OutcomeInvariant == Spec => []Outcome
  <1>1. Counts /\ Outcome /\ [Next]_vars => Outcome'
    BY OutcomeNext
  <1> QED
    BY <1>1, OutcomeInit, CountsInvariant, PTL DEF Spec

\* A cancelled run never ends as a failure because of the cancelled context.
THEOREM CancelNeverFails == Spec => []CancelIsNotFailure
  <1>1. Outcome => CancelIsNotFailure
    BY DEF Outcome, CancelOK, CancelIsNotFailure
  <1> QED
    BY <1>1, OutcomeInvariant, PTL

\* What replaces an estimate is a completed run of that configuration with an
\* answering speed, through any stop and any failing write.
THEOREM EstimatesAreMeasured == Spec => []OnlyCompleteRunsReplace
  <1>1. Outcome => OnlyCompleteRunsReplace
    BY DEF Outcome, EstOK, OnlyCompleteRunsReplace
  <1> QED
    BY <1>1, OutcomeInvariant, PTL
-----------------------------------------------------------------------------
Stored == {"publishing", "clearing", "closing", "gone"}
Decided == {"writeback", "saving"} \cup Stored

\* The goroutine in progress is the one h.active names, none survives a stop,
\* and at most one row says running.
Solo ==
  /\ \A r \in Runs : pc[r] \in Running <=> active = r
  /\ ~up => \A r \in Runs : pc[r] \in {"none", "gone", "died"}
  /\ \A q, r \in Runs : row[q] = "running" /\ row[r] = "running" => q = r

\* The row of a run, by where its goroutine is.
RowOK(r) ==
  /\ pc[r] = "none" <=> row[r] = "absent"
  /\ pc[r] \in Running \ Stored => row[r] = "running"
  /\ pc[r] \in Stored => row[r] = verdict[r]
  /\ pc[r] = "died" /\ up => row[r] # "running"

\* Its status in s.run and in a.run, by where its goroutine is.
VerdictOK(r) ==
  /\ pc[r] \in {"none"} \cup (Running \ Decided) => verdict[r] = "running"
  /\ pc[r] \in Decided => verdict[r] \in Finished
  /\ pc[r] \in {"none"} \cup (Running \ {"clearing"}) => shown[r] = "running"
  /\ pc[r] \in {"clearing", "closing", "gone"} => shown[r] = verdict[r]

Life == Solo /\ \A r \in Runs : RowOK(r) /\ VerdictOK(r)

LifeTypes ==
  /\ pc \in [Runs -> PCs] /\ up \in BOOLEAN
  /\ row \in [Runs -> Finished \cup {"absent", "running"}]
  /\ verdict \in [Runs -> Finished \cup {"running"}]
  /\ shown \in [Runs -> Finished \cup {"running"}]

LEMMA LifeTyped ==
  ASSUME TypeOK
  PROVE  LifeTypes
  BY DEF TypeOK, LifeTypes

\* While the daemon runs, a row that says running is the active run's.
LEMMA RunningIsActive ==
  ASSUME LifeTypes, Life, up, NEW r \in Runs, row[r] = "running"
  PROVE  active = r
  <1>1. pc[r] \in Running
    BY DEF Life, RowOK, VerdictOK, LifeTypes, PCs, Running, Executing, Finishing, Stored, Decided, Finished
  <1> QED
    BY <1>1 DEF Life, Solo

\* A step of the daemon that moves one run only.
LEMMA OneMoves ==
  ASSUME LifeTypes, Life, NEW r \in Runs, up, up',
         \A x \in Runs : x # r => /\ pc'[x] = pc[x] /\ row'[x] = row[x]
                                  /\ verdict'[x] = verdict[x] /\ shown'[x] = shown[x]
                                  /\ active' = x <=> active = x,
         pc'[r] \in Running <=> active' = r,
         row'[r] = "running" => active' = r,
         RowOK(r)', VerdictOK(r)'
  PROVE  Life'
  <1>1. ASSUME NEW x \in Runs, x # r PROVE RowOK(x)' /\ VerdictOK(x)'
    BY <1>1 DEF Life, RowOK, VerdictOK
  <1>2. \A x \in Runs : pc'[x] \in Running <=> active' = x
    BY DEF Life, Solo
  <1>3. ASSUME NEW x \in Runs, row'[x] = "running" PROVE active' = x
    <2>1. CASE x = r
      BY <1>3, <2>1
    <2>2. CASE x # r
      BY <1>3, <2>2, RunningIsActive
    <2> QED
      BY <2>1, <2>2
  <1> QED
    BY <1>1, <1>2, <1>3 DEF Life, Solo

LEMMA LifeInit == Init => Life
  BY DEF Init, Life, Solo, RowOK, VerdictOK, Running, Stored, Decided, Executing, Finishing, Runs

LEMMA LifeStutter ==
  ASSUME Life, UNCHANGED <<up, active, pc, row, verdict, shown>>
  PROVE  Life'
  BY DEF Life, Solo, RowOK, VerdictOK

LEMMA LifeClient ==
  ASSUME Counts, Life, NEW c \in Clients, Client(c)
  PROVE  Life'
  <1>1. CASE StartRun(c)
    <2>t. LifeTypes
      BY LifeTyped DEF Counts
    <2>1. PICK r \in Runs, n \in 1..MaxPrompts :
            /\ NextId(r)
            /\ row' = [row EXCEPT ![r] = "running"]
            /\ active' = r
            /\ pc' = [pc EXCEPT ![r] = "preparing"]
      BY <1>1 DEF StartRun
    <2>2. up /\ up' /\ active = 0 /\ verdict' = verdict /\ shown' = shown
      BY <1>1, <2>t DEF StartRun, LifeTypes
    <2>3. pc[r] = "none"
      BY <2>1 DEF Life, RowOK, NextId
    <2>4. pc'[r] = "preparing" /\ row'[r] = "running" /\ verdict'[r] = "running" /\ shown'[r] = "running"
      BY <2>t, <2>1, <2>2, <2>3 DEF LifeTypes, Life, VerdictOK
    <2>5. RowOK(r)' /\ VerdictOK(r)'
      BY <2>4 DEF RowOK, VerdictOK, Running, Stored, Decided, Executing, Finishing
    <2>6. \A x \in Runs : x # r => pc'[x] = pc[x] /\ row'[x] = row[x]
      BY <2>t, <2>1 DEF LifeTypes
    <2>7. \A x \in Runs : x # r => (active' = x <=> active = x)
      BY <2>1, <2>2, BenchHarnessAssumption DEF Runs
    <2>8. pc'[r] \in Running /\ active' = r
      BY <2>1, <2>4 DEF Running, Executing
    <2> QED
      BY <2>t, <2>2, <2>5, <2>6, <2>7, <2>8, OneMoves
  <1>2. CASE ~StartRun(c)
    <2>1. UNCHANGED <<up, active, pc, row, verdict, shown>>
      <3>1. CASE StartCheck(c) \/ StartFails(c)
        BY <3>1 DEF StartCheck, StartFails
      <3>2. CASE CancelFind(c) \/ CancelMark(c) \/ CancelCtx(c)
        BY <3>2 DEF CancelFind, CancelMark, CancelCtx
      <3>3. CASE CancelAnswer(c) \/ CancelGivesUp(c)
        BY <3>3 DEF CancelAnswer, CancelGivesUp
      <3> QED
        BY <1>2, <3>1, <3>2, <3>3 DEF Client
    <2> QED
      BY <2>1, LifeStutter
  <1> QED
    BY <1>1, <1>2

\* What execute's steps may do to the life of a run.
LEMMA ExecuteEffect ==
  ASSUME Counts, Life, NEW r \in Runs, Execute(r)
  PROVE  /\ up /\ up' /\ active = r /\ active' = r
         /\ verdict' = verdict /\ shown' = shown
         /\ row[r] = "running" /\ row'[r] = "running"
         /\ verdict[r] = "running" /\ shown[r] = "running"
         /\ pc'[r] \in Executing \cup {"finish"}
         /\ \A x \in Runs : x # r => pc'[x] = pc[x] /\ row'[x] = row[x]
  <1>t. LifeTypes
    BY LifeTyped DEF Counts
  <1>1. /\ up /\ up' /\ pc[r] \in Executing /\ active' = active
        /\ verdict' = verdict /\ shown' = shown
    <2>1. up /\ up' = up /\ pc[r] \in Executing /\ active' = active
          /\ verdict' = verdict /\ shown' = shown
      <3>1. CASE Prepared(r) \/ WarmUp(r) \/ WarmedUp(r) \/ Observe(r)
        BY <3>1 DEF Prepared, WarmUp, WarmedUp, Observe, Goto, Own, Executing
      <3>2. CASE TimedRequest(r) \/ TimedPrompt(r) \/ PromptTooLong(r)
        BY <3>2 DEF TimedRequest, TimedPrompt, PromptTooLong, Goto, Own, Executing
      <3>3. CASE Measured(r) \/ Fails(r)
        BY <3>3 DEF Measured, Fails, Goto, Own, Executing
      <3> QED
        BY <3>1, <3>2, <3>3 DEF Execute
    <2> QED
      BY <1>t, <2>1 DEF LifeTypes
  <1>2. \E q \in Executing \cup {"finish"} : pc' = [pc EXCEPT ![r] = q]
    BY DEF Execute, Prepared, WarmUp, WarmedUp, Observe, TimedRequest, TimedPrompt, PromptTooLong,
           Measured, Fails, Goto, Executing
  <1>3. row' = row \/ row' = [row EXCEPT ![r] = "running"]
    <2>1. CASE Prepared(r) \/ WarmUp(r) \/ WarmedUp(r) \/ TimedRequest(r)
      BY <2>1 DEF Prepared, WarmUp, WarmedUp, TimedRequest, Own
    <2>2. CASE PromptTooLong(r) \/ Measured(r) \/ Fails(r)
      BY <2>2 DEF PromptTooLong, Measured, Fails, Own
    <2>3. CASE Observe(r) \/ TimedPrompt(r)
      BY <2>3 DEF Observe, TimedPrompt, SaveProgress
    <2> QED
      BY <2>1, <2>2, <2>3 DEF Execute
  <1>4. row[r] = "running" /\ verdict[r] = "running" /\ shown[r] = "running" /\ active = r
    BY <1>1 DEF Life, Solo, RowOK, VerdictOK, Running, Stored, Decided, Executing, Finishing
  <1>5. row'[r] = "running" /\ verdict'[r] = "running" /\ shown'[r] = "running"
        /\ pc'[r] \in Executing \cup {"finish"}
    BY <1>1, <1>2, <1>3, <1>4, <1>t DEF LifeTypes
  <1>7. \A x \in Runs : x # r => pc'[x] = pc[x] /\ row'[x] = row[x]
    BY <1>2, <1>3, <1>t DEF LifeTypes
  <1> QED
    BY <1>1, <1>4, <1>5, <1>7

LEMMA LifeExecute ==
  ASSUME Counts, Life, NEW r \in Runs, Execute(r)
  PROVE  Life'
  <1>t. LifeTypes
    BY LifeTyped DEF Counts
  <1>1. RowOK(r)' /\ VerdictOK(r)'
    BY ExecuteEffect DEF RowOK, VerdictOK, Running, Stored, Decided, Executing, Finishing
  <1>2. pc'[r] \in Running /\ active' = r
    BY ExecuteEffect DEF Running, Finishing
  <1> QED
    BY <1>t, <1>1, <1>2, ExecuteEffect, OneMoves

\* The last write of finish is assumed to succeed.
LEMMA LifeFinish ==
  ASSUME FinalSaveMayFail = FALSE, Counts, Life, NEW r \in Runs, Finish(r)
  PROVE  Life'
  <1>t. LifeTypes
    BY LifeTyped DEF Counts
  <1>0. up /\ up' = up
    BY DEF Finish, ReadCancelled, Unloaded, WriteBack, FinalSave, Publish, ClearActive, CloseDone, Goto, Own
  <1>u. up /\ up'
    BY <1>t, <1>0 DEF LifeTypes
  <1>1. CASE ReadCancelled(r)
    <2>1. /\ pc[r] = "finish" /\ pc' = [pc EXCEPT ![r] = "unloading"]
          /\ row' = row /\ verdict' = verdict /\ shown' = shown /\ active' = active
      BY <1>1 DEF ReadCancelled, Goto, Own
    <2> QED
      BY <1>t, <1>u, <2>1, OneMoves
         DEF LifeTypes, Life, Solo, RowOK, VerdictOK, Running, Stored, Decided, Executing, Finishing
  <1>2. CASE Unloaded(r)
    <2>1. /\ pc[r] = "unloading"
          /\ pc' = [pc EXCEPT ![r] = IF Verdict(r) = "done" THEN "writeback" ELSE "saving"]
          /\ verdict' = [verdict EXCEPT ![r] = Verdict(r)]
          /\ row' = row /\ shown' = shown /\ active' = active
      BY <1>2 DEF Unloaded, Goto, Own
    <2>2. Verdict(r) \in Finished
      BY DEF Verdict, Finished
    <2>3. pc'[r] \in {"writeback", "saving"} /\ verdict'[r] \in Finished
      BY <1>t, <2>1, <2>2 DEF LifeTypes
    <2>4. row[r] = "running" /\ shown[r] = "running" /\ active = r
      BY <2>1 DEF Life, Solo, RowOK, VerdictOK, Running, Stored, Decided, Executing, Finishing
    <2>5. RowOK(r)' /\ VerdictOK(r)'
      BY <2>1, <2>3, <2>4 DEF RowOK, VerdictOK, Running, Stored, Decided, Executing, Finishing
    <2>6. \A x \in Runs : x # r => pc'[x] = pc[x] /\ verdict'[x] = verdict[x]
      BY <1>t, <2>1 DEF LifeTypes
    <2>7. pc'[r] \in Running /\ active' = r
      BY <2>1, <2>3, <2>4 DEF Running, Finishing
    <2> QED
      BY <1>t, <1>u, <2>1, <2>5, <2>6, <2>7, OneMoves
  <1>3. CASE WriteBack(r)
    <2>1. /\ pc[r] = "writeback" /\ pc' = [pc EXCEPT ![r] = "saving"]
          /\ row' = row /\ verdict' = verdict /\ shown' = shown /\ active' = active
      BY <1>3 DEF WriteBack, Goto
    <2> QED
      BY <1>t, <1>u, <2>1, OneMoves
         DEF LifeTypes, Life, Solo, RowOK, VerdictOK, Running, Stored, Decided, Executing, Finishing
  <1>4. CASE FinalSave(r)
    <2>1. /\ pc[r] = "saving" /\ pc' = [pc EXCEPT ![r] = "publishing"]
          /\ row' = [row EXCEPT ![r] = verdict[r]]
          /\ verdict' = verdict /\ shown' = shown /\ active' = active
      BY <1>4 DEF FinalSave, Goto
    <2>2. verdict[r] \in Finished /\ shown[r] = "running" /\ active = r
      BY <2>1 DEF Life, Solo, VerdictOK, Running, Stored, Decided, Executing, Finishing
    <2>3. pc'[r] = "publishing" /\ row'[r] = verdict[r]
      BY <1>t, <2>1 DEF LifeTypes
    <2>5. RowOK(r)' /\ VerdictOK(r)'
      BY <2>1, <2>2, <2>3 DEF RowOK, VerdictOK, Running, Stored, Decided, Executing, Finishing, Finished
    <2>6. \A x \in Runs : x # r => pc'[x] = pc[x] /\ row'[x] = row[x]
      BY <1>t, <2>1 DEF LifeTypes
    <2>7. pc'[r] \in Running /\ active' = r
      BY <2>1, <2>2, <2>3 DEF Running, Finishing
    <2> QED
      BY <1>t, <1>u, <2>1, <2>5, <2>6, <2>7, OneMoves
  <1>5. CASE Publish(r)
    <2>1. /\ pc[r] = "publishing" /\ pc' = [pc EXCEPT ![r] = "clearing"]
          /\ shown' = [shown EXCEPT ![r] = verdict[r]]
          /\ verdict' = verdict /\ row' = row /\ active' = active
      BY <1>5 DEF Publish, Goto
    <2>2. verdict[r] \in Finished /\ row[r] = verdict[r] /\ active = r
      BY <2>1 DEF Life, Solo, RowOK, VerdictOK, Running, Stored, Decided, Executing, Finishing
    <2>3. pc'[r] = "clearing" /\ shown'[r] = verdict[r]
      BY <1>t, <2>1 DEF LifeTypes
    <2>5. RowOK(r)' /\ VerdictOK(r)'
      BY <2>1, <2>2, <2>3 DEF RowOK, VerdictOK, Running, Stored, Decided, Executing, Finishing, Finished
    <2>6. \A x \in Runs : x # r => pc'[x] = pc[x] /\ shown'[x] = shown[x]
      BY <1>t, <2>1 DEF LifeTypes
    <2>7. pc'[r] \in Running /\ active' = r
      BY <2>1, <2>2, <2>3 DEF Running, Finishing
    <2> QED
      BY <1>t, <1>u, <2>1, <2>5, <2>6, <2>7, OneMoves
  <1>6. CASE ClearActive(r)
    <2>1. /\ pc[r] = "clearing" /\ pc' = [pc EXCEPT ![r] = "closing"]
          /\ active' = IF active = r THEN 0 ELSE active
          /\ row' = row /\ verdict' = verdict /\ shown' = shown
      BY <1>6 DEF ClearActive, Goto
    <2>2. verdict[r] \in Finished /\ shown[r] = verdict[r] /\ row[r] = verdict[r] /\ active = r
      BY <2>1 DEF Life, Solo, RowOK, VerdictOK, Running, Stored, Decided, Executing, Finishing
    <2>3. pc'[r] = "closing" /\ active' = 0 /\ \A x \in Runs : x # 0
      BY <1>t, <2>1, <2>2, BenchHarnessAssumption DEF LifeTypes, Runs
    <2>5. RowOK(r)' /\ VerdictOK(r)'
      BY <2>1, <2>2, <2>3 DEF RowOK, VerdictOK, Running, Stored, Decided, Executing, Finishing, Finished
    <2>6. \A x \in Runs : x # r => pc'[x] = pc[x] /\ (active' = x <=> active = x)
      BY <1>t, <2>1, <2>2, <2>3 DEF LifeTypes
    <2>7. pc'[r] \notin Running /\ active' # r /\ row'[r] # "running"
      BY <2>1, <2>2, <2>3 DEF Running, Executing, Finishing, Finished
    <2> QED
      BY <1>t, <1>u, <2>1, <2>5, <2>6, <2>7, OneMoves
  <1>7. CASE CloseDone(r)
    <2>1. /\ pc[r] = "closing" /\ pc' = [pc EXCEPT ![r] = "gone"]
          /\ row' = row /\ verdict' = verdict /\ shown' = shown /\ active' = active
      BY <1>7 DEF CloseDone, Goto, Own
    <2>2. verdict[r] \in Finished /\ shown[r] = verdict[r] /\ row[r] = verdict[r] /\ active # r
      BY <2>1 DEF Life, Solo, RowOK, VerdictOK, Running, Stored, Decided, Executing, Finishing
    <2>3. pc'[r] = "gone"
      BY <1>t, <2>1 DEF LifeTypes
    <2>5. RowOK(r)' /\ VerdictOK(r)'
      BY <2>1, <2>2, <2>3 DEF RowOK, VerdictOK, Running, Stored, Decided, Executing, Finishing, Finished
    <2>6. \A x \in Runs : x # r => pc'[x] = pc[x]
      BY <1>t, <2>1 DEF LifeTypes
    <2>7. pc'[r] \notin Running /\ active' # r /\ row'[r] # "running"
      BY <2>1, <2>2, <2>3 DEF Running, Executing, Finishing, Finished
    <2> QED
      BY <1>t, <1>u, <2>1, <2>5, <2>6, <2>7, OneMoves
  <1> QED
    BY <1>1, <1>2, <1>3, <1>4, <1>5, <1>6, <1>7 DEF Finish

LEMMA LifeNext ==
  ASSUME FinalSaveMayFail = FALSE, Counts, Life, [Next]_vars
  PROVE  Life'
  <1>t. LifeTypes
    BY LifeTyped DEF Counts
  <1>1. CASE Crash
    <2>1. /\ up /\ ~up' /\ active' = 0 /\ row' = row /\ verdict' = verdict /\ shown' = shown
          /\ pc' = [r \in Runs |-> IF pc[r] \in {"none", "gone"} THEN pc[r] ELSE "died"]
      BY <1>1, <1>t DEF Crash, LifeTypes
    <2>2. \A r \in Runs : /\ \/ pc'[r] = pc[r] /\ pc[r] \in {"none", "gone"}
                             \/ pc'[r] = "died"
                          /\ pc'[r] = "none" <=> pc[r] = "none"
      BY <2>1
    <2>3. \A r \in Runs : r # 0
      BY BenchHarnessAssumption DEF Runs
    <2>4. Solo'
      BY <2>1, <2>2, <2>3 DEF Life, Solo, Running, Executing, Finishing
    <2>5. \A r \in Runs : RowOK(r)' /\ VerdictOK(r)'
      BY <2>1, <2>2 DEF Life, RowOK, VerdictOK, Running, Stored, Decided, Executing, Finishing
    <2> QED
      BY <2>4, <2>5 DEF Life
  <1>2. CASE Recover
    <2>1. /\ ~up /\ up' /\ active' = active /\ pc' = pc /\ verdict' = verdict /\ shown' = shown
          /\ row' = [r \in Runs |-> IF row[r] = "running" THEN "failed" ELSE row[r]]
      BY <1>2 DEF Recover
    <2>2. \A r \in Runs : pc[r] \in {"none", "gone", "died"}
      BY <2>1 DEF Life, Solo
    <2>3. \A r \in Runs : /\ row'[r] # "running"
                          /\ row'[r] = "absent" <=> row[r] = "absent"
                          /\ row[r] # "running" => row'[r] = row[r]
      BY <2>1
    <2>4. Solo'
      BY <2>1, <2>3 DEF Life, Solo
    <2>5. ASSUME NEW r \in Runs PROVE RowOK(r)' /\ VerdictOK(r)'
      BY <1>t, <2>1, <2>2, <2>3, <2>5
         DEF LifeTypes, Life, RowOK, VerdictOK, Running, Stored, Decided, Executing, Finishing, Finished
    <2> QED
      BY <2>4, <2>5 DEF Life
  <1>3. CASE UNCHANGED vars
    BY <1>3, LifeStutter DEF vars
  <1> QED
    BY <1>1, <1>2, <1>3, LifeClient, LifeExecute, LifeFinish DEF Next

-----------------------------------------------------------------------------
(* What follows from the invariant *)

\* The inductive invariant of a run's life, with the counters it rests on.
THEOREM LifeInvariant ==
  ASSUME FinalSaveMayFail = FALSE
  PROVE  Spec => [](Counts /\ Life)
  <1>1. Init => Life
    BY LifeInit
  <1>2. Counts /\ Life /\ [Next]_vars => Life'
    BY LifeNext
  <1> QED
    BY <1>1, <1>2, CountsInvariant, PTL DEF Spec

\* No row says running but that of the run in progress, after any finish and
\* any restart (Recover's comment: it "would be a lie").
THEOREM NoStaleRow ==
  ASSUME FinalSaveMayFail = FALSE
  PROVE  Spec => []RunningRowIsLive
  <1>1. Counts /\ Life => RunningRowIsLive
    BY RunningIsActive, LifeTyped DEF Counts, RunningRowIsLive
  <1> QED
    BY <1>1, LifeInvariant, PTL

\* Cancel's answer is the end of the run, in memory and in the store.
THEOREM CancelAnswersTheEnd ==
  ASSUME FinalSaveMayFail = FALSE
  PROVE  Spec => []AnswerIsFinal
  <1>1. Counts /\ Life => AnswerIsFinal
    BY DEF Life, RowOK, VerdictOK, AnswerIsFinal, Stored, Decided
  <1> QED
    BY <1>1, LifeInvariant, PTL

\* One step of the harness is one step of the ledger, or none.
LEMMA LedgerMoves ==
  ASSUME LifeTypes, NEW r \in Runs,
         \A x \in Runs : x # r => View(x)' = View(x),
         \/ View(r)' = View(r)
         \/ View(r) = "running" /\ View(r)' \in Finished
         \/ /\ View(r) = "absent" /\ View(r)' = "running"
            /\ \A x \in Runs : View(x) # "running"
  PROVE  [Ledger!Next]_Views
  <1>1. CASE View(r)' = View(r)
    <2>1. Views' = Views
      BY <1>1 DEF Views
    <2> QED
      BY <2>1
  <1>2. CASE View(r) = "running" /\ View(r)' \in Finished
    <2>1. Views' = [Views EXCEPT ![r] = View(r)']
      BY DEF Views
    <2>2. Ledger!End(r)
      BY <1>2, <2>1 DEF Views, Ledger!End, Ledger!Finished, Finished
    <2> QED
      BY <2>2 DEF Ledger!Next
  <1>3. CASE /\ View(r) = "absent" /\ View(r)' = "running"
             /\ \A x \in Runs : View(x) # "running"
    <2>1. Views' = [Views EXCEPT ![r] = "running"]
      BY <1>3 DEF Views
    <2>2. Ledger!Begin(r)
      BY <1>3, <2>1 DEF Views, Ledger!Begin
    <2> QED
      BY <2>2 DEF Ledger!Next
  <1> QED
    BY <1>1, <1>2, <1>3

\* A step that moves nothing a reader sees.
LEMMA LedgerStutter ==
  ASSUME \A x \in Runs : View(x)' = View(x)
  PROVE  [Ledger!Next]_Views
  BY DEF Views

LEMMA LedgerClient ==
  ASSUME Counts, Life, NEW c \in Clients, Client(c)
  PROVE  [Ledger!Next]_Views
  <1>t. LifeTypes
    BY LifeTyped DEF Counts
  <1>0. \A x \in Runs : x # 0
    BY BenchHarnessAssumption DEF Runs
  <1>1. CASE StartRun(c)
    <2>1. PICK r \in Runs, n \in 1..MaxPrompts :
            /\ NextId(r)
            /\ row' = [row EXCEPT ![r] = "running"]
            /\ active' = r
            /\ pc' = [pc EXCEPT ![r] = "preparing"]
      BY <1>1 DEF StartRun
    <2>2. up /\ active = 0 /\ shown' = shown /\ row[r] = "absent"
      BY <1>1, <2>1 DEF StartRun, NextId
    <2>3. shown[r] = "running"
      BY <2>2 DEF Life, RowOK, VerdictOK
    <2>4. View(r) = "absent" /\ View(r)' = "running"
      BY <1>0, <2>1, <2>2, <2>3 DEF View
    <2>5. \A x \in Runs : x # r => View(x)' = View(x)
      BY <1>0, <1>t, <2>1, <2>2 DEF View, LifeTypes
    <2>6. \A x \in Runs : View(x) # "running"
      BY <1>0, <1>t, <2>2, RunningIsActive DEF View
    <2> QED
      BY <1>t, <2>4, <2>5, <2>6, LedgerMoves
  <1>2. CASE ~StartRun(c)
    <2>1. UNCHANGED <<active, row, shown>>
      <3>1. CASE StartCheck(c) \/ StartFails(c)
        BY <3>1 DEF StartCheck, StartFails
      <3>2. CASE CancelFind(c) \/ CancelMark(c) \/ CancelCtx(c)
        BY <3>2 DEF CancelFind, CancelMark, CancelCtx
      <3>3. CASE CancelAnswer(c) \/ CancelGivesUp(c)
        BY <3>3 DEF CancelAnswer, CancelGivesUp
      <3> QED
        BY <1>2, <3>1, <3>2, <3>3 DEF Client
    <2> QED
      BY <2>1, LedgerStutter DEF View
  <1> QED
    BY <1>1, <1>2

LEMMA LedgerFinish ==
  ASSUME FinalSaveMayFail = FALSE, Counts, Life, NEW r \in Runs, Finish(r)
  PROVE  [Ledger!Next]_Views
  <1>t. LifeTypes
    BY LifeTyped DEF Counts
  <1>1. CASE ReadCancelled(r) \/ Unloaded(r) \/ WriteBack(r) \/ CloseDone(r)
    <2>1. UNCHANGED <<active, row, shown>>
      BY <1>1 DEF ReadCancelled, Unloaded, WriteBack, CloseDone, Own
    <2> QED
      BY <2>1, LedgerStutter DEF View
  <1>2. CASE FinalSave(r)
    <2>1. /\ pc[r] = "saving" /\ row' = [row EXCEPT ![r] = verdict[r]]
          /\ shown' = shown /\ active' = active
      BY <1>2 DEF FinalSave, Goto
    <2>2. active = r
      BY <2>1 DEF Life, Solo, Running, Finishing
    <2>3. \A x \in Runs : View(x)' = View(x)
      BY <1>t, <2>1, <2>2 DEF View, LifeTypes
    <2> QED
      BY <2>3, LedgerStutter
  <1>3. CASE Publish(r)
    <2>1. /\ pc[r] = "publishing" /\ shown' = [shown EXCEPT ![r] = verdict[r]]
          /\ row' = row /\ active' = active
      BY <1>3 DEF Publish, Goto
    <2>2. active = r /\ shown[r] = "running" /\ verdict[r] \in Finished
      BY <2>1 DEF Life, Solo, VerdictOK, Running, Decided, Stored, Executing, Finishing
    <2>3. View(r) = "running" /\ View(r)' \in Finished
      BY <1>t, <2>1, <2>2 DEF View, LifeTypes
    <2>4. \A x \in Runs : x # r => View(x)' = View(x)
      BY <2>1, <2>2 DEF View
    <2> QED
      BY <1>t, <2>3, <2>4, LedgerMoves
  <1>4. CASE ClearActive(r)
    <2>1. /\ pc[r] = "clearing" /\ active' = IF active = r THEN 0 ELSE active
          /\ row' = row /\ shown' = shown
      BY <1>4 DEF ClearActive, Goto
    <2>2. active = r /\ shown[r] = row[r]
      BY <2>1 DEF Life, Solo, RowOK, VerdictOK, Running, Decided, Stored, Executing, Finishing
    <2>3. \A x \in Runs : x # 0
      BY BenchHarnessAssumption DEF Runs
    <2>4. \A x \in Runs : View(x)' = View(x)
      BY <2>1, <2>2, <2>3 DEF View
    <2> QED
      BY <2>4, LedgerStutter
  <1> QED
    BY <1>1, <1>2, <1>3, <1>4 DEF Finish

LEMMA LedgerNext ==
  ASSUME FinalSaveMayFail = FALSE, Counts, Life, [Next]_vars
  PROVE  [Ledger!Next]_Views
  <1>t. LifeTypes
    BY LifeTyped DEF Counts
  <1>0. \A x \in Runs : x # 0
    BY BenchHarnessAssumption DEF Runs
  <1>1. ASSUME NEW r \in Runs, Execute(r) PROVE \A x \in Runs : View(x)' = View(x)
    BY <1>1, ExecuteEffect DEF View
  <1>2. CASE Crash
    <2>1. active' = 0 /\ row' = row /\ shown' = shown
      BY <1>2 DEF Crash
    <2>2. ASSUME NEW x \in Runs, active # x PROVE View(x)' = View(x)
      BY <1>0, <2>1, <2>2 DEF View
    <2>3. CASE active \in Runs
      <3>1. PICK r \in Runs : active = r
        BY <2>3
      <3>2. \/ row[r] = "running" /\ shown[r] = "running"
            \/ row[r] \in Finished /\ shown[r] = "running"
            \/ row[r] = shown[r]
        BY <1>t, <3>1
           DEF LifeTypes, Life, Solo, RowOK, VerdictOK, Running, Decided, Stored, Executing, Finishing
      <3>3. View(r) = shown[r] /\ View(r)' = row[r]
        BY <1>0, <2>1, <3>1 DEF View
      <3>4. View(r)' = View(r) \/ (View(r) = "running" /\ View(r)' \in Finished)
        BY <3>2, <3>3
      <3>5. \A x \in Runs : x # r => View(x)' = View(x)
        BY <2>2, <3>1
      <3> QED
        BY <1>t, <3>4, <3>5, LedgerMoves
    <2>4. CASE active \notin Runs
      BY <2>2, <2>4, LedgerStutter
    <2> QED
      BY <2>3, <2>4
  <1>3. CASE Recover
    <2>1. /\ ~up /\ active' = active
          /\ row' = [r \in Runs |-> IF row[r] = "running" THEN "failed" ELSE row[r]]
      BY <1>3 DEF Recover
    <2>2. \A x \in Runs : active # x
      BY <2>1 DEF Life, Solo, Running, Executing, Finishing
    <2>3. \A x \in Runs : View(x) = row[x] /\ View(x)' = IF row[x] = "running" THEN "failed" ELSE row[x]
      BY <2>1, <2>2 DEF View
    <2>4. CASE \E r \in Runs : row[r] = "running"
      <3>1. PICK r \in Runs : row[r] = "running"
        BY <2>4
      <3>2. \A x \in Runs : x # r => row[x] # "running"
        BY <3>1 DEF Life, Solo
      <3>3. \A x \in Runs : x # r => View(x)' = View(x)
        BY <2>3, <3>2
      <3>4. View(r) = "running" /\ View(r)' \in Finished
        BY <2>3, <3>1 DEF Finished
      <3> QED
        BY <1>t, <3>3, <3>4, LedgerMoves
    <2>5. CASE \A r \in Runs : row[r] # "running"
      BY <2>3, <2>5, LedgerStutter
    <2> QED
      BY <2>4, <2>5
  <1>4. CASE UNCHANGED vars
    BY <1>4, LedgerStutter DEF vars, View
  <1> QED
    BY <1>1, <1>2, <1>3, <1>4, LedgerClient, LedgerFinish, LedgerStutter DEF Next

\* The harness implements the ledger: a run is begun only while no other is in
\* progress, and what a reader saw of a finished run never changes, through
\* the hand-over from memory to the store and through a stop.
THEOREM HarnessImplementsLedger ==
  ASSUME FinalSaveMayFail = FALSE
  PROVE  Spec => LedgerSpec
  <1>1. Init => Ledger!Init
    BY BenchHarnessAssumption DEF Init, Ledger!Init, Views, View, Runs
  <1>2. Counts /\ Life /\ [Next]_vars => [Ledger!Next]_Views
    BY LedgerNext
  <1> QED
    BY <1>1, <1>2, LifeInvariant, PTL DEF Spec, LedgerSpec, Ledger!Spec
=============================================================================
