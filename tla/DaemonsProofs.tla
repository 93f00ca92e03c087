--------------------------- MODULE DaemonsProofs ---------------------------
(***************************************************************************)
(* For any number of processes and builds: the database fits whoever works *)
(* with it, and a path seen on one card never answers for another.         *)
(*                                                                         *)
(* The invariant adds to the two what a process has read: the versions it  *)
(* takes for applied are, and the hardware it has seen is the hardware     *)
(* there is, because the card changes only while no process runs.          *)
(*                                                                         *)
(* And for any devices and any table of rules: each has a rule, and what a *)
(* process makes of them is the same in whatever order it detected them.   *)
(***************************************************************************)
EXTENDS Daemons, FiniteSetTheorems, FunctionTheorems, SequenceTheorems, WellFoundedInduction, TLAPS

(* What migrate has read is still so: a version is never taken back.       *)
SeenIsApplied == \A p \in Procs : seen[p] \subseteq recorded

(* What a process knows of the hardware is of the card in the machine.     *)
KnowsThisCard ==
  \A p \in Procs : /\ hw[p] \in {None, card} /\ checked[p] \in {None, card}
                   /\ pc[p] = "off" => hw[p] = None /\ checked[p] = None

IInv == TypeOK /\ SchemaFits /\ SeenIsApplied /\ KnowsThisCard /\ PathOfThisHardware

(* The parts that are only about the schema.                               *)
SchemaPart == SchemaFits /\ SeenIsApplied
CardPart == KnowsThisCard /\ PathOfThisHardware

LEMMA InitIInv == ASSUME Init PROVE IInv
<1> USE NumbersAssumption
<1>1. TypeOK BY DEF Init, TypeOK
<1>2. SchemaFits BY DEF Init, SchemaFits, Working
<1>3. SeenIsApplied /\ KnowsThisCard BY DEF Init, SeenIsApplied, KnowsThisCard
<1>4. PathOfThisHardware BY DEF Init, PathOfThisHardware
<1> QED BY <1>1, <1>2, <1>3, <1>4 DEF IInv

LEMMA SpendCounts == ASSUME faults \in Nat, Spend PROVE faults' \in Nat
<1> QED BY DEF Spend

(* What every action that ends a process leaves true.                      *)
LEMMA GoneKeeps ==
  ASSUME IInv, NEW p \in Procs, Gone(p), faults' \in Nat PROVE IInv'
<1> USE DEF IInv
<1>1. TypeOK' BY DEF Gone, Goto, TypeOK, store
<1>2. SchemaPart' BY DEF SchemaPart, SchemaFits, SeenIsApplied, Gone, Goto, TypeOK, store, Working, Known
<1>3. CardPart' BY DEF CardPart, KnowsThisCard, PathOfThisHardware, Gone, Goto, TypeOK, store
<1> QED BY <1>1, <1>2, <1>3 DEF SchemaPart, CardPart

LEMMA EditionsAreNumbers == Editions \cup {0} \subseteq Nat
<1> QED BY NumbersAssumption

(* A version applied in order leaves no gap.                               *)
LEMMA MigrateKeeps ==
  ASSUME IInv, NEW p \in Procs, NEW m \in Known(p), Migrate(p, m) PROVE IInv'
<1> USE DEF IInv
<1>0. m \in Nat /\ edition[p] \in Nat 
  <2>1. edition[p] \in Nat BY EditionsAreNumbers DEF TypeOK
  <2> QED BY <2>1 DEF Known
<1>1. TypeOK' BY <1>0 DEF Migrate, TypeOK
<1>2. \A k \in 1..m : k \in recorded \cup {m}
  <2> SUFFICES ASSUME NEW k \in 1..m, k \notin seen[p], k # m PROVE FALSE BY DEF SeenIsApplied
  <2>1. k \in Known(p) BY <1>0 DEF Known
  <2>2. m <= k BY <2>1 DEF Migrate, IsNext
  <2> QED BY <1>0, <2>2
<1>3. tables' = recorded' BY DEF Migrate, SchemaFits
<1>4. \A v \in recorded' : 1..v \subseteq recorded' BY <1>2 DEF Migrate, SchemaFits
<1>5. \A q \in Procs : Working(q)' => Known(q)' \subseteq tables' BY DEF Migrate, SchemaFits, Working, Known
<1>6. SeenIsApplied' BY DEF Migrate, SeenIsApplied, TypeOK
<1>7. CardPart' BY DEF CardPart, KnowsThisCard, PathOfThisHardware, Migrate
<1> QED BY <1>1, <1>3, <1>4, <1>5, <1>6, <1>7 DEF SchemaFits, CardPart

(* A start, up to its serving.                                             *)
LEMMA OpenKeeps ==
  ASSUME IInv, NEW p \in Procs, NEW k \in {"daemon", "command"}, NEW e \in Editions, Open(p, k, e), faults' \in Nat
  PROVE IInv'
<1> USE DEF IInv
<1>1. TypeOK' BY NumbersAssumption DEF Open, Goto, TypeOK, store
<1>2. SchemaPart' BY DEF SchemaPart, SchemaFits, SeenIsApplied, Open, Goto, TypeOK, store, Working, Known
<1>3. CardPart' BY DEF CardPart, KnowsThisCard, PathOfThisHardware, Open, Goto, TypeOK, store
<1> QED BY <1>1, <1>2, <1>3 DEF SchemaPart, CardPart

LEMMA StartKeeps ==
  ASSUME IInv, NEW p \in Procs, Opened(p) \/ Recover(p) \/ RecoverFails(p) PROVE IInv'
<1> USE DEF IInv
<1>1. CASE Opened(p)
  <2>1. TypeOK' BY <1>1 DEF Opened, Goto, TypeOK, store
  <2>2. Known(p) \subseteq tables BY <1>1 DEF Opened, SchemaFits, SeenIsApplied
  <2>3. SchemaPart' BY <1>1, <2>2 DEF SchemaPart, SchemaFits, SeenIsApplied, Opened, Goto, TypeOK, store, Working, Known
  <2>4. CardPart' BY <1>1 DEF CardPart, KnowsThisCard, PathOfThisHardware, Opened, Goto, TypeOK, store
  <2> QED BY <2>1, <2>3, <2>4 DEF SchemaPart, CardPart
<1>2. CASE Recover(p)
  <2>2. TypeOK' BY <1>2 DEF Recover, Goto, TypeOK
  <2>3. SchemaPart' BY <1>2 DEF SchemaPart, SchemaFits, SeenIsApplied, Recover, Goto, TypeOK, Working, Known
  <2>4. CardPart' BY <1>2 DEF CardPart, KnowsThisCard, PathOfThisHardware, Recover, Goto, TypeOK
  <2> QED BY <2>2, <2>3, <2>4 DEF SchemaPart, CardPart
<1>3. CASE RecoverFails(p)
  <2>0. faults' \in Nat BY <1>3, SpendCounts DEF RecoverFails, TypeOK
  <2>1. TypeOK' BY <1>3, <2>0 DEF RecoverFails, Goto, TypeOK, store
  <2>2. SchemaPart' BY <1>3 DEF SchemaPart, SchemaFits, SeenIsApplied, RecoverFails, Goto, TypeOK, store, Working, Known
  <2>3. CardPart' BY <1>3 DEF CardPart, KnowsThisCard, PathOfThisHardware, RecoverFails, Goto, TypeOK, store
  <2> QED BY <2>1, <2>2, <2>3 DEF SchemaPart, CardPart
<1> QED BY <1>1, <1>2, <1>3

(* What a daemon does once it serves: the schema is left alone.            *)
LEMMA ServeKeeps ==
  ASSUME IInv, NEW p \in Procs,
         DetectHardware(p) \/ Check(p) \/ RecordCheck(p) \/ StartRun(p) \/ SaveRun(p) \/ EndRun(p)
  PROVE IInv'
<1> USE DEF IInv
<1>1. SchemaPart'
  BY DEF SchemaPart, SchemaFits, SeenIsApplied, Working, Known, store, procs,
         DetectHardware, Check, RecordCheck, StartRun, SaveRun, EndRun
<1>2. CASE DetectHardware(p)
  <2>2. TypeOK' BY <1>2 DEF DetectHardware, TypeOK
  <2>3. CardPart' BY <1>2 DEF CardPart, KnowsThisCard, PathOfThisHardware, DetectHardware, Serving, TypeOK
  <2> QED BY <1>1, <2>2, <2>3 DEF SchemaPart, CardPart
<1>3. CASE Check(p)
  <2>1. TypeOK' BY <1>3 DEF Check, TypeOK, store
  <2>2. CardPart' BY <1>3 DEF CardPart, KnowsThisCard, PathOfThisHardware, Check, Serving, TypeOK, store
  <2> QED BY <1>1, <2>1, <2>2 DEF SchemaPart, CardPart
<1>4. CASE RecordCheck(p)
  <2>1. TypeOK' BY <1>4 DEF RecordCheck, TypeOK
  <2>2. checked[p] = card /\ hw[p] \in {None, card} BY <1>4 DEF RecordCheck, KnowsThisCard
  <2>3. PathOfThisHardware'
    BY <1>4, <2>2, CardsAssumption DEF RecordCheck, PathOfThisHardware, TypeOK
  <2>4. KnowsThisCard' BY <1>4 DEF RecordCheck, KnowsThisCard, TypeOK, Serving
  <2> QED BY <1>1, <2>1, <2>3, <2>4 DEF SchemaPart
<1> USE NumbersAssumption
<1>5. CASE StartRun(p) \/ SaveRun(p) \/ EndRun(p)
  <2>1. runs' \in [1..MaxRuns -> {"none", "running", "ended"}] /\ doing' \in [Procs -> Nat]
    <3>1. CASE StartRun(p)
      <4>1. PICK r \in DOMAIN runs : runs' = [runs EXCEPT ![r] = "running"] /\ doing' = [doing EXCEPT ![p] = r]
        BY <3>1 DEF StartRun
      <4>2. r \in 1..MaxRuns BY <4>1 DEF TypeOK
      <4>3. r \in Nat BY <4>2, NumbersAssumption
      <4> QED BY <4>1, <4>2, <4>3 DEF TypeOK
    <3>2. CASE SaveRun(p) BY <3>2 DEF SaveRun, TypeOK, procs
    <3>3. CASE EndRun(p) BY <3>3 DEF EndRun, TypeOK
    <3> QED BY <1>5, <3>1, <3>2, <3>3
  <2>2. TypeOK' BY <1>5, <2>1 DEF StartRun, SaveRun, EndRun, TypeOK, procs
  <2>3. CardPart' BY <1>5 DEF CardPart, KnowsThisCard, PathOfThisHardware, StartRun, SaveRun, EndRun, procs
  <2> QED BY <1>1, <2>2, <2>3 DEF SchemaPart, CardPart
<1> QED BY <1>2, <1>3, <1>4, <1>5

LEMMA NewCardKeeps == ASSUME IInv, NewCard PROVE IInv'
<1> USE DEF IInv
<1>0. faults' \in Nat BY SpendCounts DEF NewCard, TypeOK
<1>1. TypeOK' BY <1>0 DEF NewCard, TypeOK, store, procs
<1>2. SchemaPart' BY DEF SchemaPart, SchemaFits, SeenIsApplied, NewCard, store, procs, Working, Known
<1>3. CardPart' BY DEF CardPart, KnowsThisCard, PathOfThisHardware, NewCard, store, procs
<1> QED BY <1>1, <1>2, <1>3 DEF SchemaPart, CardPart

LEMMA StepIInv == ASSUME IInv, [Next]_vars PROVE IInv'
<1>0. faults \in Nat BY DEF IInv, TypeOK
<1>1. CASE NewCard BY <1>1, NewCardKeeps
<1>2. ASSUME NEW p \in Procs, Step(p) PROVE IInv'
  <2>1. CASE \E m \in Known(p) : Migrate(p, m) BY <2>1, MigrateKeeps
  <2>2. CASE \E m \in Known(p) : MigrateFails(p, m)
    <3>1. Gone(p) /\ faults' \in Nat BY <2>2, <1>0 DEF MigrateFails, Spend
    <3> QED BY <3>1, GoneKeeps
  <2>3. CASE CommandEnds(p)
    <3>1. Gone(p) /\ faults' \in Nat BY <2>3, <1>0 DEF CommandEnds
    <3> QED BY <3>1, GoneKeeps
  <2>4. CASE Opened(p) \/ Recover(p) \/ RecoverFails(p) BY <2>4, StartKeeps
  <2>5. CASE DetectHardware(p) \/ RecordCheck(p) \/ EndRun(p) BY <2>5, ServeKeeps
  <2> QED BY <1>2, <2>1, <2>2, <2>3, <2>4, <2>5 DEF Step
<1>3. ASSUME NEW p \in Procs, StartDaemon(p) PROVE IInv'
  <2>1. PICK e \in Editions : Open(p, "daemon", e) BY <1>3 DEF StartDaemon
  <2>2. faults' \in Nat BY <1>0, <1>3 DEF StartDaemon
  <2> QED BY <2>1, <2>2, OpenKeeps
<1>4. ASSUME NEW p \in Procs, StartCommand(p) PROVE IInv'
  <2>1. PICK e \in Editions : Open(p, "command", e) BY <1>4 DEF StartCommand
  <2>2. faults' \in Nat BY <1>0, <1>4 DEF StartCommand, Spend
  <2> QED BY <2>1, <2>2, OpenKeeps
<1>5. ASSUME NEW p \in Procs, Check(p) \/ StartRun(p) \/ SaveRun(p) PROVE IInv' BY <1>5, ServeKeeps
<1>6. ASSUME NEW p \in Procs, Stop(p) PROVE IInv'
  <2>1. Gone(p) /\ faults' \in Nat BY <1>0, <1>6 DEF Stop, Spend
  <2> QED BY <2>1, GoneKeeps
<1>7. CASE UNCHANGED vars
  BY <1>7 DEF vars, IInv, TypeOK, SchemaFits, SeenIsApplied, KnowsThisCard, PathOfThisHardware, Working, Known
<1> QED BY <1>1, <1>2, <1>3, <1>4, <1>5, <1>6, <1>7 DEF Next

LEMMA AlwaysIInv == Spec => []IInv
<1> QED BY InitIInv, StepIInv, PTL DEF Spec

(* The schema is recorded as it is, without a gap, and fits every process  *)
(* that works with it (migrate, Open).                                     *)
THEOREM SchemaAlwaysFits == Spec => []SchemaFits
<1>1. IInv => SchemaFits BY DEF IInv
<1> QED BY <1>1, AlwaysIInv, PTL

(* A path seen on one card is never the answer for another                 *)
(* (RecordBackendOn, LastObservedRuntimePaths).                            *)
THEOREM PathIsOfThisHardware == Spec => []PathOfThisHardware
<1>1. IInv => PathOfThisHardware BY DEF IInv
<1> QED BY <1>1, AlwaysIInv, PTL

-----------------------------------------------------------------------------
(* The hardware itself: what finish makes of the devices that were read.   *)
CONSTANTS GFXRows, IntegratedRows, Minimum, Sizes
Dv == INSTANCE Devices

LEMMA SameCount == ASSUME NEW S PROVE Dv!Cardinality(S) = Cardinality(S)
BY DEF Dv!Cardinality, Cardinality

(* ahead says of each position which are ahead of it, and does so as an    *)
(* order of all of them.                                                   *)
Orders(ahead, n) ==
  /\ ahead \in [1..n -> SUBSET (1..n)]
  /\ \A i \in 1..n : i \notin ahead[i]
  /\ \A i, j \in 1..n : i # j => i \in ahead[j] \/ j \in ahead[i]
  /\ \A i, j \in 1..n : i \in ahead[j] => ahead[i] \subseteq ahead[j]
Places(ahead, n) == [k \in 1..n |-> CHOOSE i \in 1..n : Cardinality(ahead[i]) = k - 1]

LEMMA CountsAhead ==
  ASSUME NEW n \in Nat, NEW ahead, Orders(ahead, n)
  PROVE  /\ \A i \in 1..n : Cardinality(ahead[i]) \in 0..(n - 1)
         /\ \A i, j \in 1..n : i \in ahead[j] => Cardinality(ahead[i]) < Cardinality(ahead[j])
<1>1. IsFiniteSet(1..n) /\ Cardinality(1..n) = n BY FS_Interval
<1>2. ASSUME NEW i \in 1..n PROVE IsFiniteSet(ahead[i]) /\ Cardinality(ahead[i]) \in 0..(n - 1)
  <2>1. ahead[i] \subseteq (1..n) \ {i} BY DEF Orders
  <2>2. IsFiniteSet((1..n) \ {i}) /\ Cardinality((1..n) \ {i}) = n - 1 BY <1>1, FS_RemoveElement
  <2>3. IsFiniteSet(ahead[i]) /\ Cardinality(ahead[i]) <= n - 1 BY <2>1, <2>2, FS_Subset
  <2>4. Cardinality(ahead[i]) \in Nat BY <2>3, FS_CardinalityType
  <2> QED BY <2>3, <2>4
<1>3. ASSUME NEW i \in 1..n, NEW j \in 1..n, i \in ahead[j] PROVE Cardinality(ahead[i]) < Cardinality(ahead[j])
  <2>1. ahead[i] \subseteq ahead[j] /\ ahead[i] # ahead[j] BY <1>3 DEF Orders
  <2>2. Cardinality(ahead[i]) <= Cardinality(ahead[j]) /\ Cardinality(ahead[i]) # Cardinality(ahead[j])
    BY <1>2, <2>1, FS_Subset
  <2>3. Cardinality(ahead[i]) \in Nat /\ Cardinality(ahead[j]) \in Nat BY <1>2
  <2> QED BY <2>2, <2>3
<1> QED BY <1>2, <1>3

(* Counting those ahead puts each at a place of its own, in order.         *)
LEMMA PlacesAreInOrder ==
  ASSUME NEW n \in Nat, NEW ahead, Orders(ahead, n)
  PROVE  /\ Places(ahead, n) \in Bijection(1..n, 1..n)
         /\ \A k, l \in 1..n : k < l => Places(ahead, n)[k] \in ahead[Places(ahead, n)[l]]
         /\ \A k, i \in 1..n : Cardinality(ahead[i]) = k - 1 <=> i = Places(ahead, n)[k]
<1> DEFINE count == [i \in 1..n |-> Cardinality(ahead[i]) + 1]
           place == Places(ahead, n)
<1>1. \A i \in 1..n : Cardinality(ahead[i]) \in 0..(n - 1) /\ count[i] \in 1..n BY CountsAhead
<1>2. \A i, j \in 1..n : i \in ahead[j] => count[i] < count[j] BY <1>1, CountsAhead
<1>3. \A i, j \in 1..n : count[i] = count[j] => i = j
  <2> SUFFICES ASSUME NEW i \in 1..n, NEW j \in 1..n, count[i] = count[j], i # j PROVE FALSE OBVIOUS
  <2>1. i \in ahead[j] \/ j \in ahead[i] BY DEF Orders
  <2>2. count[i] < count[j] \/ count[j] < count[i] BY <1>2, <2>1
  <2>3. count[i] \in Nat /\ count[j] \in Nat BY <1>1
  <2> HIDE DEF count
  <2> QED BY <2>2, <2>3
<1>4. count \in Injection(1..n, 1..n) BY <1>1, <1>3 DEF Injection, IsInjective
<1>5. count \in Surjection(1..n, 1..n) 
  <2>1. IsFiniteSet(1..n) BY FS_Interval
  <2> QED BY <1>4, <2>1, FS_Injection
<1>6. ASSUME NEW k \in 1..n PROVE place[k] \in 1..n /\ count[place[k]] = k
  <2>1. PICK i \in 1..n : count[i] = k BY <1>5 DEF Surjection
  <2>2. Cardinality(ahead[i]) = k - 1
    <3>1. Cardinality(ahead[i]) + 1 = k BY <2>1
    <3>2. Cardinality(ahead[i]) \in 0..(n - 1) BY <1>1
    <3> QED BY <3>1, <3>2
  <2>3. place[k] = CHOOSE j \in 1..n : Cardinality(ahead[j]) = k - 1 BY DEF Places
  <2>4. place[k] \in 1..n /\ Cardinality(ahead[place[k]]) = k - 1 BY <2>2, <2>3
  <2>5. count[place[k]] = (k - 1) + 1 BY <2>4
  <2> QED BY <2>4, <2>5
<1>7. place \in [1..n -> 1..n] BY <1>6 DEF Places
<1>8. \A k, l \in 1..n : place[k] = place[l] => k = l BY <1>6
<1>9. ASSUME NEW i \in 1..n PROVE place[count[i]] = i
  <2>1. count[i] \in 1..n BY <1>1
  <2> HIDE DEF count, place
  <2>2. place[count[i]] \in 1..n /\ count[place[count[i]]] = count[i] BY <1>6, <2>1
  <2> QED BY <1>3, <2>2
<1>12. ASSUME NEW k \in 1..n, NEW i \in 1..n PROVE Cardinality(ahead[i]) = k - 1 <=> i = place[k]
  <2>1. Cardinality(ahead[i]) \in Int /\ count[i] = Cardinality(ahead[i]) + 1 BY <1>1
  <2>2. Cardinality(ahead[i]) = k - 1 <=> count[i] = k
    <3> HIDE DEF count
    <3> QED BY <2>1
  <2> HIDE DEF count, place
  <2> QED BY <1>3, <1>6, <2>2
<1> HIDE DEF count, place
<1>10. place \in Bijection(1..n, 1..n)
  <2>1. place \in Injection(1..n, 1..n) BY <1>7, <1>8 DEF Injection, IsInjective
  <2>2. place \in Surjection(1..n, 1..n) BY <1>1, <1>7, <1>9 DEF Surjection
  <2> QED BY <2>1, <2>2 DEF Bijection
<1>11. ASSUME NEW k \in 1..n, NEW l \in 1..n, k < l PROVE place[k] \in ahead[place[l]]
  <2>1. place[k] # place[l] BY <1>6, <1>11
  <2>2. place[l] \notin ahead[place[k]] BY <1>2, <1>6, <1>11
  <2> QED BY <1>6, <2>1, <2>2 DEF Orders
<1> QED BY <1>10, <1>11, <1>12 DEF place

(* The devices a rank puts apart.                                          *)
LEMMA RankIs ==
  ASSUME NEW g
  PROVE  /\ Dv!Rank(g) \in 0..5
         /\ Dv!UsesGPU(g.backend) <=> Dv!Rank(g) <= 1
         /\ g.backend = "unknown" <=> Dv!Rank(g) \in {2, 3}
         /\ Dv!Counts(g) => Dv!Rank(g) = 0
         /\ Dv!Rank(g) = 0 /\ g.integrated = "yes" => Dv!Counts(g)
         /\ Dv!Rank(g) = 0 /\ g.vendor # "apple" => Dv!Counts(g)
         /\ Dv!Counts(g) => Dv!UsesGPU(g.backend) /\ g.vendor # "apple"
BY DEF Dv!Rank, Dv!Counts, Dv!UsesGPU, Dv!IsIntegrated

NoWorse(g, h) == Dv!Rank(g) < Dv!Rank(h) \/ (Dv!Rank(g) = Dv!Rank(h) /\ g.vram >= h.vram)
(* Devices in the order of finish.                                         *)
InOrder(gpus, n) ==
  /\ DOMAIN gpus = 1..n
  /\ \A k \in 1..n : gpus[k].vram \in Nat
  /\ \A k \in 1..n : gpus[k].vendor = "apple" =>
       gpus[k].integrated = "yes" /\ \A l \in 1..n : gpus[l].vendor = "apple"
  /\ \A k, l \in 1..n : k <= l => NoWorse(gpus[k], gpus[l])

LEMMA OrderIs ==
  ASSUME NEW n \in Nat, NEW gpus, DOMAIN gpus = 1..n, \A i \in 1..n : gpus[i].vram \in Nat
  PROVE  \E place \in Bijection(1..n, 1..n) :
           /\ Dv!OrderGPUs(gpus) = [k \in 1..n |-> gpus[place[k]]]
           /\ \A k, l \in 1..n : k <= l => NoWorse(gpus[place[k]], gpus[place[l]])
<1> DEFINE ahead == [j \in 1..n |-> {i \in 1..n : Dv!Before(gpus, i, j)}]
           place == Places(ahead, n)
<1>1. \A i \in 1..n : Dv!Rank(gpus[i]) \in Nat BY RankIs
<1>2. Orders(ahead, n) BY <1>1 DEF Orders, Dv!Before
<1>3. /\ place \in Bijection(1..n, 1..n)
      /\ \A k, l \in 1..n : k < l => place[k] \in ahead[place[l]]
      /\ \A k, i \in 1..n : Cardinality(ahead[i]) = k - 1 <=> i = place[k]
  <2> HIDE DEF ahead
  <2> QED BY <1>2, PlacesAreInOrder
<1> HIDE DEF ahead
<1>4. place \in [1..n -> 1..n] BY <1>3 DEF Bijection, Injection
<1>5. Dv!OrderGPUs(gpus) = [k \in 1..n |-> gpus[place[k]]]
  <2>1. Dv!OrderGPUs(gpus) = Dv!Sorted(gpus, ahead) BY DEF Dv!OrderGPUs, ahead
  <2>2. ASSUME NEW k \in 1..n
        PROVE  (CHOOSE i \in DOMAIN gpus : Dv!Cardinality(ahead[i]) = k - 1) = place[k]
    <3> DEFINE c == CHOOSE i \in DOMAIN gpus : Dv!Cardinality(ahead[i]) = k - 1
    <3> HIDE DEF place
    <3>1. \E i \in DOMAIN gpus : Dv!Cardinality(ahead[i]) = k - 1 BY <1>3, <1>4, SameCount
    <3>2. c \in DOMAIN gpus /\ Dv!Cardinality(ahead[c]) = k - 1 BY <3>1
    <3> HIDE DEF c
    <3>3. c = place[k] BY <1>3, <3>2, SameCount
    <3> QED BY <3>3 DEF c
  <2>3. Dv!Sorted(gpus, ahead) = [k \in DOMAIN gpus |-> gpus[CHOOSE i \in DOMAIN gpus : Dv!Cardinality(ahead[i]) = k - 1]]
    BY DEF Dv!Sorted
  <2> HIDE DEF place
  <2> QED BY <2>1, <2>2, <2>3
<1> HIDE DEF place
<1>6. ASSUME NEW k \in 1..n, NEW l \in 1..n, k <= l PROVE NoWorse(gpus[place[k]], gpus[place[l]])
  <2>1. place[k] \in 1..n /\ place[l] \in 1..n BY <1>4
  <2>2. CASE k = l BY <2>1, <2>2, <1>1 DEF NoWorse
  <2>3. CASE k < l
    <3>1. Dv!Before(gpus, place[k], place[l]) BY <1>3, <2>1, <2>3 DEF ahead
    <3> QED BY <1>1, <2>1, <3>1 DEF Dv!Before, NoWorse
  <2> QED BY <1>6, <2>2, <2>3
<1> QED BY <1>3, <1>5, <1>6

-----------------------------------------------------------------------------
(* The least number of a set, and what counts in it.                       *)
LEMMA LeastIs ==
  ASSUME NEW S, S \subseteq Nat, S # {} PROVE Dv!Min(S) \in S /\ \A k \in S : Dv!Min(S) <= k
<1>1. PICK m \in S : \A k \in S : ~(<<k, m>> \in OpToRel(<, Nat)) BY NatLessThanWellFounded, WFMin
<1>2. ASSUME NEW k \in S PROVE m <= k
  <2> SUFFICES ASSUME k < m PROVE FALSE OBVIOUS
  <2>1. <<k, m>> \in Nat \X Nat OBVIOUS
  <2> QED BY <1>1, <2>1 DEF OpToRel
<1> QED BY <1>2 DEF Dv!Min

(* The budget is of a device that counts, and none has more.               *)
LEMMA BudgetIs ==
  ASSUME NEW p, NEW n \in Nat, NEW gpus, InOrder(gpus, n), ~p.unified
  PROVE  /\ (\A k \in 1..n : ~Dv!Counts(gpus[k])) => Dv!Budget(p, gpus) = 0
         /\ (\E k \in 1..n : Dv!Counts(gpus[k])) =>
              \E k \in 1..n : /\ Dv!Counts(gpus[k]) /\ gpus[k].vram = Dv!Budget(p, gpus)
                              /\ \A l \in 1..n : Dv!Counts(gpus[l]) => k <= l /\ gpus[l].vram <= gpus[k].vram
<1> DEFINE own == {k \in DOMAIN gpus : Dv!Counts(gpus[k])}
<1>0. DOMAIN gpus = 1..n BY DEF InOrder
<1>1. CASE own = {} BY <1>0, <1>1 DEF Dv!Budget
<1>2. CASE own # {}
  <2>1. Dv!Min(own) \in own /\ \A l \in own : Dv!Min(own) <= l
    <3>1. own \subseteq Nat BY <1>0
    <3> HIDE DEF own
    <3> QED BY <1>2, <3>1, LeastIs
  <2>2. Dv!Budget(p, gpus) = gpus[Dv!Min(own)].vram BY <1>2 DEF Dv!Budget
  <2>4. Dv!Min(own) \in 1..n /\ Dv!Counts(gpus[Dv!Min(own)]) BY <1>0, <2>1
  <2>3. ASSUME NEW l \in own PROVE gpus[l].vram <= gpus[Dv!Min(own)].vram
    <3>0. l \in 1..n /\ Dv!Counts(gpus[l]) BY <1>0
    <3>1. NoWorse(gpus[Dv!Min(own)], gpus[l]) BY <3>0, <2>1, <2>4 DEF InOrder
    <3>2. Dv!Rank(gpus[Dv!Min(own)]) = 0 /\ Dv!Rank(gpus[l]) = 0 BY <2>4, <3>0, RankIs
    <3>3. gpus[l].vram \in Nat /\ gpus[Dv!Min(own)].vram \in Nat BY <3>0, <2>4 DEF InOrder
    <3> QED BY <3>1, <3>2, <3>3 DEF NoWorse
  <2> QED BY <1>0, <1>2, <2>1, <2>2, <2>3, <2>4
<1> QED BY <1>1, <1>2

-----------------------------------------------------------------------------
(* What finish makes of p.                                                 *)
Devs(rules, p) == [i \in DOMAIN p.gpus |-> Dv!Device(rules, p, p.gpus[i])]

LEMMA DeviceIs ==
  ASSUME NEW rules, NEW p, NEW g \in Dv!Readings
  PROVE  /\ Dv!Device(rules, p, g).vendor = g.vendor
         /\ Dv!Device(rules, p, g).vram = g.vram
         /\ g.integrated = "yes" => Dv!Device(rules, p, g).integrated = "yes"
         /\ g.vram \in Nat
BY DEF Dv!Device, Dv!Named, Dv!Readings

LEMMA DevicesAreInOrder ==
  ASSUME NEW rules, NEW p, Dv!MachineOK(p)
  PROVE  LET n == Len(p.gpus)  gpus == Dv!Finished(rules, p).gpus
         IN /\ n \in Nat /\ DOMAIN p.gpus = 1..n /\ gpus \in Seq(Range(gpus)) /\ Len(gpus) = n
            /\ InOrder(gpus, n)
            /\ \E place \in Bijection(1..n, 1..n) : \A k \in 1..n : gpus[k] = Devs(rules, p)[place[k]]
<1> DEFINE n == Len(p.gpus)  gpus == Dv!Finished(rules, p).gpus
<1>1. p.gpus \in Seq(Dv!Readings) BY DEF Dv!MachineOK, Dv!Profiles
<1>2. n \in Nat /\ DOMAIN p.gpus = 1..n /\ \A i \in 1..n : p.gpus[i] \in Dv!Readings BY <1>1
<1>3. gpus = Dv!OrderGPUs(Devs(rules, p)) BY DEF Dv!Finished, Devs
<1>4. DOMAIN Devs(rules, p) = 1..n BY <1>2 DEF Devs
<1>5. \A i \in 1..n : /\ Devs(rules, p)[i].vram \in Nat
                      /\ Devs(rules, p)[i].vendor = p.gpus[i].vendor
                      /\ p.gpus[i].integrated = "yes" => Devs(rules, p)[i].integrated = "yes"
  BY <1>2, DeviceIs DEF Devs
<1> HIDE DEF gpus, n
<1>6. PICK place \in Bijection(1..n, 1..n) :
        /\ gpus = [k \in 1..n |-> Devs(rules, p)[place[k]]]
        /\ \A k, l \in 1..n : k <= l => NoWorse(Devs(rules, p)[place[k]], Devs(rules, p)[place[l]])
  BY <1>2, <1>3, <1>4, <1>5, OrderIs
<1>7. place \in [1..n -> 1..n] BY <1>6 DEF Bijection, Injection
<1>8. \A k \in 1..n : gpus[k] = Devs(rules, p)[place[k]] /\ place[k] \in 1..n BY <1>6, <1>7
<1>9. InOrder(gpus, n)
  <2>1. DOMAIN gpus = 1..n BY <1>6
  <2>2. \A k \in 1..n : gpus[k].vram \in Nat BY <1>5, <1>8
  <2>3. ASSUME NEW k \in 1..n, gpus[k].vendor = "apple"
        PROVE  gpus[k].integrated = "yes" /\ \A l \in 1..n : gpus[l].vendor = "apple"
    <3>1. place[k] \in 1..n /\ p.gpus[place[k]].vendor = "apple" BY <1>5, <1>8, <2>3
    <3>2. p.gpus[place[k]].integrated = "yes" /\ \A j \in 1..n : p.gpus[j].vendor = "apple"
      BY <1>2, <3>1 DEF Dv!MachineOK
    <3>3. gpus[k].integrated = "yes" BY <1>5, <1>8, <3>1, <3>2
    <3>4. ASSUME NEW l \in 1..n PROVE gpus[l].vendor = "apple" BY <1>5, <1>8, <3>2
    <3> QED BY <3>3, <3>4
  <2>4. \A k, l \in 1..n : k <= l => NoWorse(gpus[k], gpus[l]) BY <1>6, <1>8
  <2> QED BY <2>1, <2>2, <2>3, <2>4 DEF InOrder
<1>10. gpus \in Seq(Range(gpus)) /\ Len(gpus) = n
  <2>1. DOMAIN gpus = 1..n BY <1>6
  <2>2. gpus \in [1..n -> Range(gpus)] BY <1>6, <2>1 DEF Range
  <2> QED BY <1>2, <2>2
<1> QED BY <1>2, <1>6, <1>8, <1>9, <1>10 DEF gpus, n

(* The class is of the best device there is.                               *)
LEMMA ClassHolds ==
  ASSUME NEW rules, NEW p, Dv!MachineOK(p) PROVE Dv!ClassIsRight(p, Dv!Finished(rules, p))
<1> DEFINE f == Dv!Finished(rules, p)  n == Len(p.gpus)  gpus == f.gpus
<1>1. n \in Nat /\ gpus \in Seq(Range(gpus)) /\ Len(gpus) = n /\ InOrder(gpus, n) BY DevicesAreInOrder
<1>2. f.budget = Dv!Budget(p, gpus) /\ f.tier = Dv!Tier(p, gpus, f.budget) BY DEF Dv!Finished
<1>3. DOMAIN gpus = 1..n BY <1>1 DEF InOrder
<1>4. p.unified \in BOOLEAN /\ p.budget \in Nat BY DEF Dv!MachineOK, Dv!Profiles
<1> DEFINE own == {gpus[i] : i \in {j \in DOMAIN gpus : Dv!Counts(gpus[j])}}
           usable == {i \in DOMAIN gpus : Dv!UsesGPU(gpus[i].backend)}
<1> HIDE DEF f, n, gpus
<1>5. ~p.unified => f.budget \in {g.vram : g \in own} \cup (IF own = {} THEN {0} ELSE {})
  <2> SUFFICES ASSUME ~p.unified PROVE f.budget \in {g.vram : g \in own} \cup (IF own = {} THEN {0} ELSE {}) OBVIOUS
  <2>1. CASE \A k \in 1..n : ~Dv!Counts(gpus[k]) 
    <3>1. own = {} BY <1>3, <2>1
    <3>2. f.budget = 0 BY <1>1, <1>2, <2>1, BudgetIs
    <3> QED BY <3>1, <3>2
  <2>2. CASE \E k \in 1..n : Dv!Counts(gpus[k])
    <3>1. PICK k \in 1..n : Dv!Counts(gpus[k]) /\ gpus[k].vram = f.budget BY <1>1, <1>2, <2>2, BudgetIs
    <3>2. gpus[k] \in own BY <1>3, <3>1
    <3> QED BY <3>1, <3>2
  <2> QED BY <2>1, <2>2
<1>6. ~p.unified => \A g \in own : g.vram <= f.budget
  <2> SUFFICES ASSUME ~p.unified, NEW l \in 1..n, Dv!Counts(gpus[l]) PROVE gpus[l].vram <= f.budget BY <1>3
  <2>1. \E k \in 1..n : Dv!Counts(gpus[k]) OBVIOUS
  <2>2. PICK k \in 1..n : /\ gpus[k].vram = f.budget
                          /\ \A i \in 1..n : Dv!Counts(gpus[i]) => gpus[i].vram <= gpus[k].vram
    BY <1>1, <1>2, <2>1, BudgetIs
  <2> QED BY <2>2
<1>7. n > 0 => \A k \in 1..n : Dv!Rank(gpus[1]) <= Dv!Rank(gpus[k])
  <2> SUFFICES ASSUME n > 0, NEW k \in 1..n PROVE Dv!Rank(gpus[1]) <= Dv!Rank(gpus[k]) OBVIOUS
  <2>1. NoWorse(gpus[1], gpus[k]) BY <1>1 DEF InOrder
  <2>2. Dv!Rank(gpus[1]) \in Nat /\ Dv!Rank(gpus[k]) \in Nat BY RankIs
  <2> QED BY <2>1, <2>2 DEF NoWorse
<1>8. gpus = << >> <=> n = 0 BY <1>1, EmptySeq
<1>9. f.tier = "gpu" => f.budget > 0 /\ (p.unified \/ (Dv!Counts(gpus[1]) /\ gpus[1].vram = f.budget))
  <2> SUFFICES ASSUME f.tier = "gpu"
               PROVE  f.budget > 0 /\ (p.unified \/ (Dv!Counts(gpus[1]) /\ gpus[1].vram = f.budget))
    OBVIOUS
  <2>1. n > 0 /\ f.budget # 0 /\ ((p.unified /\ gpus[1].vendor = "apple") \/ Dv!Counts(gpus[1]))
    BY <1>1, <1>2, <1>8 DEF Dv!Tier
  <2>2. CASE p.unified
    <3>1. f.budget \in Nat BY <1>2, <1>4, <2>2 DEF Dv!Budget
    <3> QED BY <2>1, <2>2, <3>1
  <2>3. CASE ~p.unified
    <3>1. Dv!Counts(gpus[1]) /\ 1 \in 1..n BY <1>1, <2>1, <2>3
    <3>2. PICK k \in 1..n : gpus[k].vram = f.budget /\ \A l \in 1..n : Dv!Counts(gpus[l]) => k <= l
      BY <1>1, <1>2, <2>3, <3>1, BudgetIs
    <3>3. k = 1 BY <3>1, <3>2
    <3>4. f.budget \in Nat BY <1>1, <3>2 DEF InOrder
    <3> QED BY <2>1, <3>1, <3>2, <3>3, <3>4
  <2> QED BY <1>4, <2>2, <2>3
<1>10. f.tier = "integrated" => own = {} /\ usable # {}
  <2> SUFFICES ASSUME f.tier = "integrated" PROVE own = {} /\ usable # {} OBVIOUS
  <2>1. n > 0 /\ Dv!UsesGPU(gpus[1].backend) /\ ~Dv!Counts(gpus[1])
    BY <1>1, <1>2, <1>8 DEF Dv!Tier
  <2>2. 1 \in 1..n BY <1>1, <2>1
  <2>3. gpus[1].vendor = "apple" => gpus[1].integrated = "yes" BY <1>1, <2>2 DEF InOrder
  <2>4. Dv!Rank(gpus[1]) = 1
    <3>1. Dv!Rank(gpus[1]) \in 0..5 /\ Dv!Rank(gpus[1]) <= 1 /\ Dv!Rank(gpus[1]) # 0 BY <2>1, <2>3, RankIs
    <3> QED BY <3>1
  <2>5. \A k \in 1..n : ~Dv!Counts(gpus[k]) BY <1>7, <2>1, <2>4, RankIs
  <2> QED BY <1>3, <2>1, <2>2, <2>5
<1>11. f.tier = "cpu_only" => usable = {}
  <2> SUFFICES ASSUME f.tier = "cpu_only", n > 0 PROVE usable = {} BY <1>1, <1>3
  <2>1. gpus[1].backend # "unknown" /\ ~Dv!UsesGPU(gpus[1].backend)
    BY <1>1, <1>2, <1>8 DEF Dv!Tier
  <2>2. \A k \in 1..n : ~Dv!UsesGPU(gpus[k].backend)
    <3> TAKE k \in 1..n
    <3>1. Dv!Rank(gpus[1]) > 1 /\ Dv!Rank(gpus[1]) <= Dv!Rank(gpus[k]) /\ Dv!Rank(gpus[1]) \in Nat /\ Dv!Rank(gpus[k]) \in Nat
      BY <1>7, <2>1, RankIs
    <3>2. ~(Dv!Rank(gpus[k]) <= 1) BY <3>1
    <3> QED BY <3>2, RankIs
  <2> QED BY <1>3, <2>2
<1> QED BY <1>5, <1>6, <1>9, <1>10, <1>11 DEF Dv!ClassIsRight, f, gpus

-----------------------------------------------------------------------------
(* The same devices in another order: turn says where each was.            *)
SameBut(p, q, turn) ==
  /\ \A field \in {"os", "arch", "release", "cpu", "ram", "unified", "budget", "listRead"} : q[field] = p[field]
  /\ Len(q.gpus) = Len(p.gpus) /\ turn \in Bijection(1..Len(p.gpus), 1..Len(p.gpus))
  /\ \A i \in 1..Len(p.gpus) : q.gpus[i] = p.gpus[turn[i]]

LEMMA OntoIs ==
  ASSUME NEW S, NEW T, NEW to \in Bijection(S, T)
  PROVE  /\ to \in [S -> T] /\ \A k \in S : to[k] \in T
         /\ \A k, l \in S : to[k] = to[l] => k = l
         /\ \A i \in T : \E k \in S : to[k] = i
<1>1. to \in Injection(S, T) /\ to \in Surjection(S, T) BY DEF Bijection
<1>2. to \in [S -> T] /\ \A k \in S : to[k] \in T BY <1>1 DEF Injection
<1>3. \A k, l \in S : to[k] = to[l] => k = l BY <1>1 DEF Injection, IsInjective
<1>4. \A i \in T : \E k \in S : to[k] = i BY <1>1 DEF Surjection
<1> QED BY <1>2, <1>3, <1>4

LEMMA SameNumber ==
  ASSUME NEW n \in Nat, NEW turn \in Bijection(1..n, 1..n), NEW A \in SUBSET (1..n), NEW B \in SUBSET (1..n),
         \A k \in 1..n : k \in B <=> turn[k] \in A
  PROVE  Dv!Cardinality(A) = Dv!Cardinality(B)
<1> DEFINE to == [k \in B |-> turn[k]]
<1>0. /\ turn \in [1..n -> 1..n] /\ \A k, l \in 1..n : turn[k] = turn[l] => k = l
      /\ \A i \in 1..n : \E k \in 1..n : turn[k] = i
  BY DEF Bijection, Injection, Surjection, IsInjective
<1>1. to \in [B -> A] BY <1>0
<1>2. \A k, l \in B : to[k] = to[l] => k = l BY <1>0
<1>3. \A i \in A : \E k \in B : to[k] = i BY <1>0
<1>4. to \in Bijection(B, A)
  <2> HIDE DEF to
  <2> QED BY <1>1, <1>2, <1>3, Fun_IsBij
<1>5. IsFiniteSet(B)
  <2>1. IsFiniteSet(1..n) /\ B \subseteq 1..n BY FS_Interval
  <2> QED BY <2>1, FS_Subset
<1>6. Cardinality(A) = Cardinality(B) BY <1>4, <1>5, FS_Bijection DEF ExistsBijection
<1> QED BY <1>6, SameCount

(* What is expected of a device is the same.                               *)
LEMMA SameDevice ==
  ASSUME NEW rules, NEW p, NEW q, NEW turn, SameBut(p, q, turn), NEW g
  PROVE  Dv!Device(rules, q, g) = Dv!Device(rules, p, g)
<1>1. q.os = p.os /\ q.arch = p.arch /\ q.release = p.release BY DEF SameBut
<1>2. \A r, h : Dv!Holds(r, q, h) <=> Dv!Holds(r, p, h) BY <1>1 DEF Dv!Holds
<1>3. \A h : {i \in DOMAIN rules : Dv!Holds(rules[i], q, h)} = {i \in DOMAIN rules : Dv!Holds(rules[i], p, h)} BY <1>2
<1>4. \A h : Dv!Expected(rules, q, h) = Dv!Expected(rules, p, h) BY <1>3 DEF Dv!Expected
<1>5. Dv!TooOld(q) <=> Dv!TooOld(p) BY <1>1 DEF Dv!TooOld
<1>6. \A h : Dv!ExpectedOf(rules, q, h) = Dv!ExpectedOf(rules, p, h) BY <1>4, <1>5 DEF Dv!ExpectedOf
<1> QED BY <1>6 DEF Dv!Device

LEMMA SameOrderedDevices ==
  ASSUME NEW rules, NEW p, NEW q, NEW turn, Dv!MachineOK(p), Dv!MachineOK(q), SameBut(p, q, turn)
  PROVE  \E to \in Bijection(1..Len(p.gpus), 1..Len(p.gpus)) :
           \A k \in 1..Len(p.gpus) : Dv!Finished(rules, q).gpus[k] = Dv!Finished(rules, p).gpus[to[k]]
<1> DEFINE n == Len(p.gpus)  f == Dv!Finished(rules, p).gpus  h == Dv!Finished(rules, q).gpus
<1>1. n \in Nat /\ Len(q.gpus) = n /\ DOMAIN p.gpus = 1..n /\ DOMAIN q.gpus = 1..n BY DevicesAreInOrder DEF SameBut
<1>2. PICK place \in Bijection(1..n, 1..n) : \A k \in 1..n : f[k] = Devs(rules, p)[place[k]] BY DevicesAreInOrder
<1>3. PICK other \in Bijection(1..n, 1..n) : \A k \in 1..n : h[k] = Devs(rules, q)[other[k]] BY <1>1, DevicesAreInOrder
<1>4. turn \in Bijection(1..n, 1..n) /\ \A i \in 1..n : q.gpus[i] = p.gpus[turn[i]] BY DEF SameBut
<1> HIDE DEF f, h, n
<1>5. /\ \A i \in 1..n : place[i] \in 1..n /\ turn[i] \in 1..n /\ other[i] \in 1..n
      /\ \A i, j \in 1..n : (place[i] = place[j] => i = j) /\ (turn[i] = turn[j] => i = j) /\ (other[i] = other[j] => i = j)
      /\ \A i \in 1..n : (\E k \in 1..n : place[k] = i) /\ (\E k \in 1..n : turn[k] = i) /\ \E k \in 1..n : other[k] = i
  <2>1. \A i \in 1..n : place[i] \in 1..n /\ \E k \in 1..n : place[k] = i BY <1>2 DEF Bijection, Injection, Surjection, IsInjective
  <2>2. \A i, j \in 1..n : place[i] = place[j] => i = j BY <1>2 DEF Bijection, Injection, Surjection, IsInjective
  <2>3. \A i \in 1..n : turn[i] \in 1..n /\ \E k \in 1..n : turn[k] = i BY <1>4 DEF Bijection, Injection, Surjection, IsInjective
  <2>4. \A i, j \in 1..n : turn[i] = turn[j] => i = j BY <1>4 DEF Bijection, Injection, Surjection, IsInjective
  <2>5. \A i \in 1..n : other[i] \in 1..n /\ \E k \in 1..n : other[k] = i BY <1>3 DEF Bijection, Injection, Surjection, IsInjective
  <2>6. \A i, j \in 1..n : other[i] = other[j] => i = j BY <1>3 DEF Bijection, Injection, Surjection, IsInjective
  <2> QED BY <2>1, <2>2, <2>3, <2>4, <2>5, <2>6
<1> DEFINE to == [k \in 1..n |-> CHOOSE j \in 1..n : place[j] = turn[other[k]]]
<1>6. \A k \in 1..n : to[k] \in 1..n /\ place[to[k]] = turn[other[k]]
  <2> TAKE k \in 1..n
  <2>1. \E j \in 1..n : place[j] = turn[other[k]] BY <1>5
  <2> QED BY <2>1
<1>7. to \in [1..n -> 1..n] BY <1>6
<1> HIDE DEF to
<1>8. ASSUME NEW k \in 1..n, NEW l \in 1..n, to[k] = to[l] PROVE k = l
  <2>1. turn[other[k]] = turn[other[l]] BY <1>6, <1>8
  <2>2. other[k] = other[l] BY <1>5, <2>1
  <2> QED BY <1>5, <2>2
<1>9. ASSUME NEW j \in 1..n PROVE \E k \in 1..n : to[k] = j
  <2>1. PICK i \in 1..n : turn[i] = place[j] BY <1>5
  <2>2. PICK k \in 1..n : other[k] = i BY <1>5
  <2>3. place[to[k]] = place[j] /\ to[k] \in 1..n BY <1>6, <2>1, <2>2
  <2>4. to[k] = j BY <1>5, <2>3
  <2> QED BY <2>4
<1>10. to \in Bijection(1..n, 1..n) BY <1>7, <1>8, <1>9, Fun_IsBij
<1>11. ASSUME NEW k \in 1..n PROVE h[k] = f[to[k]]
  <2>1. h[k] = Dv!Device(rules, q, q.gpus[other[k]]) BY <1>1, <1>3, <1>5 DEF Devs
  <2>2. q.gpus[other[k]] = p.gpus[turn[other[k]]] BY <1>4, <1>5
  <2>3. f[to[k]] = Dv!Device(rules, p, p.gpus[place[to[k]]]) BY <1>1, <1>2, <1>5, <1>6 DEF Devs
  <2> QED BY <1>6, <2>1, <2>2, <2>3, SameDevice
<1> QED BY <1>10, <1>11 DEF f, h, n

(* Two orders of the same devices.                                         *)
TwoOrders(f, h, to, n) ==
  /\ n \in Nat /\ InOrder(f, n) /\ InOrder(h, n)
  /\ to \in Bijection(1..n, 1..n) /\ \A k \in 1..n : h[k] = f[to[k]]

LEMMA ToIs ==
  ASSUME NEW n, NEW f, NEW h, NEW to, TwoOrders(f, h, to, n)
  PROVE  /\ \A k \in 1..n : to[k] \in 1..n /\ h[k] = f[to[k]]
         /\ \A i \in 1..n : \E k \in 1..n : to[k] = i /\ h[k] = f[i]
         /\ DOMAIN f = 1..n /\ DOMAIN h = 1..n
<1>1. to \in Bijection(1..n, 1..n) /\ \A k \in 1..n : h[k] = f[to[k]] BY DEF TwoOrders
<1>2. /\ \A k \in 1..n : to[k] \in 1..n
      /\ \A i \in 1..n : \E k \in 1..n : to[k] = i
  BY <1>1, OntoIs
<1>3. ASSUME NEW i \in 1..n PROVE \E k \in 1..n : to[k] = i /\ h[k] = f[i]
  <2>1. PICK k \in 1..n : to[k] = i BY <1>2
  <2>2. h[k] = f[i] BY <1>1, <2>1
  <2> QED BY <2>1, <2>2
<1>4. DOMAIN f = 1..n /\ DOMAIN h = 1..n BY DEF TwoOrders, InOrder
<1> QED BY <1>1, <1>2, <1>3, <1>4

LEMMA SameBudget ==
  ASSUME NEW n, NEW f, NEW h, NEW to, TwoOrders(f, h, to, n), NEW p, NEW q, NEW turn, SameBut(p, q, turn)
  PROVE  Dv!Budget(q, h) = Dv!Budget(p, f)
<1>0. /\ \A k \in 1..n : to[k] \in 1..n /\ h[k] = f[to[k]]
      /\ \A i \in 1..n : \E k \in 1..n : h[k] = f[i]
  BY ToIs
<1>1. q.unified = p.unified /\ q.budget = p.budget BY DEF SameBut
<1>2. CASE p.unified BY <1>1, <1>2 DEF Dv!Budget
<1>3. CASE ~p.unified /\ \A k \in 1..n : ~Dv!Counts(f[k])
  <2>1. \A k \in 1..n : ~Dv!Counts(h[k]) BY <1>0, <1>3
  <2> QED BY <1>1, <1>3, <2>1, BudgetIs DEF TwoOrders
<1>4. CASE ~p.unified /\ \E k \in 1..n : Dv!Counts(f[k])
  <2>1. PICK i \in 1..n : /\ Dv!Counts(f[i]) /\ f[i].vram = Dv!Budget(p, f)
                          /\ \A l \in 1..n : Dv!Counts(f[l]) => f[l].vram <= f[i].vram
    BY <1>4, BudgetIs DEF TwoOrders
  <2>2. \E k \in 1..n : Dv!Counts(h[k])
    <3>1. PICK k \in 1..n : h[k] = f[i] BY <1>0
    <3>2. Dv!Counts(h[k]) BY <2>1, <3>1
    <3> QED BY <3>2
  <2>3. PICK j \in 1..n : /\ Dv!Counts(h[j]) /\ h[j].vram = Dv!Budget(q, h)
                          /\ \A l \in 1..n : Dv!Counts(h[l]) => h[l].vram <= h[j].vram
    BY <1>1, <1>4, <2>2, BudgetIs DEF TwoOrders
  <2>4. h[j].vram <= f[i].vram
    <3>1. to[j] \in 1..n /\ h[j] = f[to[j]] BY <1>0
    <3>2. Dv!Counts(f[to[j]]) BY <2>3, <3>1
    <3>3. f[to[j]].vram <= f[i].vram BY <2>1, <3>1, <3>2
    <3> QED BY <3>1, <3>3
  <2>5. f[i].vram <= h[j].vram
    <3>1. PICK k \in 1..n : h[k] = f[i] BY <1>0
    <3>2. Dv!Counts(h[k]) BY <2>1, <3>1
    <3>3. h[k].vram <= h[j].vram BY <2>3, <3>2
    <3> QED BY <3>1, <3>3
  <2>6. f[i].vram \in Nat /\ h[j].vram \in Nat BY DEF TwoOrders, InOrder
  <2> QED BY <2>1, <2>3, <2>4, <2>5, <2>6
<1> QED BY <1>2, <1>3, <1>4

LEMMA SameTier ==
  ASSUME NEW n, NEW f, NEW h, NEW to, TwoOrders(f, h, to, n), NEW p, NEW q, NEW turn, SameBut(p, q, turn),
         f = << >> <=> n = 0, h = << >> <=> n = 0, NEW budget
  PROVE  Dv!Tier(q, h, budget) = Dv!Tier(p, f, budget)
<1>1. q.os = p.os /\ q.release = p.release /\ q.listRead = p.listRead /\ q.unified = p.unified BY DEF SameBut
<1>2. Dv!TooOld(q) <=> Dv!TooOld(p) BY <1>1 DEF Dv!TooOld
<1>3. n \in Nat BY DEF TwoOrders
<1>4. CASE n = 0 BY <1>1, <1>2, <1>4 DEF Dv!Tier
<1>5. CASE n > 0
  <2>0. 1 \in 1..n BY <1>3, <1>5
  <2>8. PICK k \in 1..n : h[k] = f[1] BY <2>0, ToIs
  <2>9. to[1] \in 1..n /\ h[1] = f[to[1]] /\ InOrder(f, n) /\ InOrder(h, n) BY <2>0, ToIs DEF TwoOrders
  <2>1. ASSUME NEW x, NEW j \in 1..n, InOrder(x, n) PROVE Dv!Rank(x[1]) <= Dv!Rank(x[j])
    <3>1. NoWorse(x[1], x[j]) BY <2>0, <2>1 DEF InOrder
    <3>2. Dv!Rank(x[1]) \in Nat /\ Dv!Rank(x[j]) \in Nat BY RankIs
    <3> QED BY <3>1, <3>2 DEF NoWorse
  <2>2. Dv!Rank(f[1]) = Dv!Rank(h[1])
    <3>1. Dv!Rank(f[1]) <= Dv!Rank(f[to[1]]) BY <2>1, <2>9
    <3>2. Dv!Rank(h[1]) <= Dv!Rank(h[k]) BY <2>1, <2>8, <2>9
    <3>4. Dv!Rank(f[1]) <= Dv!Rank(h[1]) /\ Dv!Rank(h[1]) <= Dv!Rank(f[1]) BY <2>8, <2>9, <3>1, <3>2
    <3>3. Dv!Rank(f[1]) \in Nat /\ Dv!Rank(h[1]) \in Nat BY RankIs
    <3> QED BY <3>3, <3>4
  <2>3. f[1].vendor = "apple" <=> h[1].vendor = "apple"
    <3>1. f[1].vendor = "apple" => f[to[1]].vendor = "apple" BY <2>0, <2>9 DEF InOrder
    <3>2. h[1].vendor = "apple" => h[k].vendor = "apple" BY <2>0, <2>9 DEF InOrder
    <3> QED BY <2>8, <2>9, <3>1, <3>2
  <2>4. /\ f[1].backend = "unknown" <=> h[1].backend = "unknown"
        /\ Dv!UsesGPU(f[1].backend) <=> Dv!UsesGPU(h[1].backend)
    BY <2>2, RankIs
  <2>5. Dv!Counts(f[1]) <=> Dv!Counts(h[1]) BY <2>2, <2>3, RankIs
  <2> QED BY <1>1, <1>2, <1>5, <2>3, <2>4, <2>5 DEF Dv!Tier
<1> QED BY <1>3, <1>4, <1>5

LEMMA SameNotes ==
  ASSUME NEW n, NEW f, NEW h, NEW to, TwoOrders(f, h, to, n) PROVE Dv!Notes(h) = Dv!Notes(f)
<1> DEFINE discrete(x) == {i \in DOMAIN x : x[i].integrated = "no"}
           asked(x) == {x[i].name : i \in {j \in DOMAIN x : x[j].actionable}}
<1>0. /\ \A k \in 1..n : to[k] \in 1..n /\ h[k] = f[to[k]]
      /\ \A i \in 1..n : \E k \in 1..n : to[k] = i /\ h[k] = f[i]
      /\ DOMAIN f = 1..n /\ DOMAIN h = 1..n
  BY ToIs
<1>1. Dv!Cardinality(discrete(f)) = Dv!Cardinality(discrete(h))
  <2>1. discrete(f) \in SUBSET (1..n) /\ discrete(h) \in SUBSET (1..n) BY <1>0
  <2>2. ASSUME NEW k \in 1..n PROVE k \in discrete(h) <=> to[k] \in discrete(f)
    <3>1. to[k] \in 1..n /\ h[k] = f[to[k]] BY <1>0
    <3> QED BY <1>0, <3>1
  <2>3. n \in Nat /\ to \in Bijection(1..n, 1..n) BY DEF TwoOrders
  <2> HIDE DEF discrete
  <2> QED BY <2>1, <2>2, <2>3, SameNumber
<1>2. (\E i \in discrete(h) : h[i].vendor = "intel") <=> (\E i \in discrete(f) : f[i].vendor = "intel")
  <2>1. ASSUME NEW k \in discrete(h), h[k].vendor = "intel" PROVE \E i \in discrete(f) : f[i].vendor = "intel"
    <3>1. k \in 1..n /\ to[k] \in 1..n /\ h[k] = f[to[k]] BY <1>0
    <3>2. to[k] \in discrete(f) /\ f[to[k]].vendor = "intel" BY <1>0, <2>1, <3>1
    <3> QED BY <3>2
  <2>2. ASSUME NEW i \in discrete(f), f[i].vendor = "intel" PROVE \E k \in discrete(h) : h[k].vendor = "intel"
    <3>1. PICK k \in 1..n : h[k] = f[i] BY <1>0
    <3>2. k \in discrete(h) /\ h[k].vendor = "intel" BY <1>0, <2>2, <3>1
    <3> QED BY <3>2
  <2> QED BY <2>1, <2>2
<1>3. asked(h) = asked(f)
  <2>1. ASSUME NEW k \in DOMAIN h, h[k].actionable PROVE h[k].name \in asked(f)
    <3>1. to[k] \in 1..n /\ h[k] = f[to[k]] BY <1>0
    <3> QED BY <1>0, <2>1, <3>1
  <2>2. ASSUME NEW i \in DOMAIN f, f[i].actionable PROVE f[i].name \in asked(h)
    <3>1. PICK k \in 1..n : h[k] = f[i] BY <1>0
    <3> QED BY <1>0, <2>2, <3>1
  <2>3. ASSUME NEW name \in asked(h) PROVE name \in asked(f)
    <3>1. PICK k \in {j \in DOMAIN h : h[j].actionable} : name = h[k].name OBVIOUS
    <3> HIDE DEF asked
    <3> QED BY <2>1, <3>1
  <2>4. ASSUME NEW name \in asked(f) PROVE name \in asked(h)
    <3>1. PICK k \in {j \in DOMAIN f : f[j].actionable} : name = f[k].name OBVIOUS
    <3> HIDE DEF asked
    <3> QED BY <2>2, <3>1
  <2> HIDE DEF asked
  <2> QED BY <2>3, <2>4
<1> QED BY <1>1, <1>2, <1>3 DEF Dv!Notes

LEMMA SameBag ==
  ASSUME NEW n, NEW f, NEW h, NEW to, TwoOrders(f, h, to, n)
  PROVE  Dv!ToBag([i \in DOMAIN h |-> Dv!Identity(h[i])]) = Dv!ToBag([i \in DOMAIN f |-> Dv!Identity(f[i])])
<1> DEFINE ids(x) == [i \in 1..n |-> Dv!Identity(x[i])]
           of(x, e) == {i \in DOMAIN ids(x) : ids(x)[i] = e}
<1>0. /\ \A k \in 1..n : to[k] \in 1..n /\ h[k] = f[to[k]]
      /\ \A i \in 1..n : \E k \in 1..n : to[k] = i /\ h[k] = f[i]
  BY ToIs
<1>1. DOMAIN f = 1..n /\ DOMAIN h = 1..n BY ToIs
<1>2. Dv!Range(ids(f)) = Dv!Range(ids(h))
  <2>1. ASSUME NEW k \in 1..n PROVE ids(h)[k] \in Dv!Range(ids(f))
    <3>1. to[k] \in 1..n /\ h[k] = f[to[k]] BY <1>0
    <3>2. ids(h)[k] = ids(f)[to[k]] BY <3>1
    <3> QED BY <3>1, <3>2 DEF Dv!Range
  <2>2. ASSUME NEW i \in 1..n PROVE ids(f)[i] \in Dv!Range(ids(h))
    <3>1. PICK k \in 1..n : h[k] = f[i] BY <1>0
    <3>2. ids(f)[i] = ids(h)[k] BY <3>1
    <3> QED BY <3>2 DEF Dv!Range
  <2> QED BY <2>1, <2>2 DEF Dv!Range
<1>3. ASSUME NEW e PROVE Dv!Cardinality(of(f, e)) = Dv!Cardinality(of(h, e))
  <2>1. of(f, e) \in SUBSET (1..n) /\ of(h, e) \in SUBSET (1..n) OBVIOUS
  <2>2. ASSUME NEW k \in 1..n PROVE k \in of(h, e) <=> to[k] \in of(f, e)
    <3>1. to[k] \in 1..n /\ h[k] = f[to[k]] BY <1>0
    <3>2. ids(h)[k] = ids(f)[to[k]] BY <3>1
    <3> QED BY <3>1, <3>2
  <2>3. n \in Nat /\ to \in Bijection(1..n, 1..n) BY DEF TwoOrders
  <2> HIDE DEF of
  <2> QED BY <2>1, <2>2, <2>3, SameNumber
<1>4. Dv!ToBag(ids(h)) = Dv!ToBag(ids(f)) BY <1>2, <1>3 DEF Dv!ToBag
<1> QED BY <1>1, <1>4

-----------------------------------------------------------------------------
LEMMA MachineIs ==
  ASSUME NEW rules, NEW p, NEW q, NEW turn, Dv!MachineOK(p), Dv!MachineOK(q), SameBut(p, q, turn)
  PROVE  Dv!SameMachine(Dv!Finished(rules, p), Dv!Finished(rules, q))
<1> DEFINE n == Len(p.gpus)  f == Dv!Finished(rules, p)  h == Dv!Finished(rules, q)
<1>1. /\ n \in Nat /\ InOrder(f.gpus, n) /\ f.gpus \in Seq(Range(f.gpus)) /\ Len(f.gpus) = n
      /\ InOrder(h.gpus, n) /\ h.gpus \in Seq(Range(h.gpus)) /\ Len(h.gpus) = n
  <2>1. Len(q.gpus) = n BY DEF SameBut
  <2> QED BY <2>1, DevicesAreInOrder
<1>2. (f.gpus = << >> <=> n = 0) /\ (h.gpus = << >> <=> n = 0) BY <1>1, EmptySeq
<1>3. PICK to \in Bijection(1..n, 1..n) : \A k \in 1..n : h.gpus[k] = f.gpus[to[k]] BY SameOrderedDevices
<1>4. /\ f.os = p.os /\ f.arch = p.arch /\ f.cpu = p.cpu /\ f.ram = p.ram
      /\ f.budget = Dv!Budget(p, f.gpus) /\ f.tier = Dv!Tier(p, f.gpus, f.budget) /\ f.notes = Dv!Notes(f.gpus)
  BY DEF Dv!Finished
<1>5. /\ h.os = q.os /\ h.arch = q.arch /\ h.cpu = q.cpu /\ h.ram = q.ram
      /\ h.budget = Dv!Budget(q, h.gpus) /\ h.tier = Dv!Tier(q, h.gpus, h.budget) /\ h.notes = Dv!Notes(h.gpus)
  BY DEF Dv!Finished
<1>6. q.os = p.os /\ q.arch = p.arch /\ q.cpu = p.cpu /\ q.ram = p.ram BY DEF SameBut
<1> HIDE DEF n, f, h
<1>7. TwoOrders(f.gpus, h.gpus, to, n) BY <1>1, <1>3 DEF TwoOrders
<1>8. h.budget = f.budget BY <1>4, <1>5, <1>7, SameBudget
<1>9. h.tier = f.tier BY <1>2, <1>4, <1>5, <1>7, <1>8, SameTier
<1>10. h.notes = f.notes BY <1>4, <1>5, <1>7, SameNotes
<1>11. Dv!ToBag([i \in DOMAIN h.gpus |-> Dv!Identity(h.gpus[i])]) = Dv!ToBag([i \in DOMAIN f.gpus |-> Dv!Identity(f.gpus[i])])
  BY <1>7, SameBag
<1>12. Dv!Fingerprint(f) = Dv!Fingerprint(h) BY <1>4, <1>5, <1>6, <1>11 DEF Dv!Fingerprint
<1> QED BY <1>8, <1>9, <1>10, <1>12 DEF Dv!SameMachine, f, h

(* The devices in the opposite order are the same devices.                 *)
LEMMA TurnedIsSame ==
  ASSUME NEW p, Dv!MachineOK(p)
  PROVE  LET q == [p EXCEPT !.gpus = Dv!Reverse(@)]
         IN Dv!MachineOK(q) /\ \E turn : SameBut(p, q, turn)
<1> DEFINE n == Len(p.gpus)  q == [p EXCEPT !.gpus = Dv!Reverse(@)]  turn == [i \in 1..n |-> (n - i) + 1]
<1>1. p \in Dv!Profiles /\ p.gpus \in Seq(Dv!Readings) BY DEF Dv!MachineOK, Dv!Profiles
<1>2. n \in Nat /\ DOMAIN p.gpus = 1..n /\ \A i \in 1..n : p.gpus[i] \in Dv!Readings BY <1>1
<1>3. \A i \in 1..n : turn[i] \in 1..n /\ turn[turn[i]] = i BY <1>2
<1>4. turn \in Bijection(1..n, 1..n) BY <1>3 DEF Bijection, Injection, Surjection, IsInjective
<1>5. q.gpus = [i \in 1..n |-> p.gpus[turn[i]]] BY <1>1, <1>2 DEF Dv!Reverse, Dv!Profiles
<1> HIDE DEF turn
<1>6. q.gpus \in Seq(Dv!Readings) /\ Len(q.gpus) = n /\ DOMAIN q.gpus = 1..n
  <2>1. q.gpus \in [1..n -> Dv!Readings] BY <1>2, <1>3, <1>5
  <2> QED BY <1>2, <1>5, <2>1
<1>7. SameBut(p, q, turn)
  <2>1. \A field \in {"os", "arch", "release", "cpu", "ram", "unified", "budget", "listRead"} : q[field] = p[field]
    BY <1>1 DEF Dv!Profiles
  <2> HIDE DEF q
  <2> QED BY <1>4, <1>5, <1>6, <2>1 DEF SameBut
<1>8. Dv!MachineOK(q)
  <2>1. q \in Dv!Profiles BY <1>1, <1>6 DEF Dv!Profiles
  <2> HIDE DEF q
  <2>2. ASSUME NEW i \in 1..n, q.gpus[i].vendor = "apple"
        PROVE  q.gpus[i].integrated = "yes" /\ \A j \in 1..n : q.gpus[j].vendor = "apple"
    <3>1. p.gpus[turn[i]].vendor = "apple" /\ turn[i] \in 1..n BY <1>3, <1>5, <2>2
    <3>2. p.gpus[turn[i]].integrated = "yes" /\ \A j \in 1..n : p.gpus[j].vendor = "apple" BY <1>2, <3>1 DEF Dv!MachineOK
    <3> QED BY <1>3, <1>5, <3>2
  <2> QED BY <1>6, <2>1, <2>2 DEF Dv!MachineOK
<1> QED BY <1>7, <1>8

(* A valid table has a rule for every device: its last has no condition.   *)
(* (parseSupport and holds, internal/hardware/support.go.)                 *)
THEOREM EveryDeviceHasABackend ==
  ASSUME NEW S, NEW rules \in Seq(S), NEW p, Dv!MachineOK(p) PROVE Dv!EveryDeviceExpected(rules, p)
<1> SUFFICES ASSUME Dv!ValidRules(rules), NEW i \in DOMAIN p.gpus
             PROVE  \E j \in DOMAIN rules : Dv!Holds(rules[j], p, p.gpus[i])
  BY DEF Dv!EveryDeviceExpected
<1> DEFINE last == rules[Len(rules)]  g == p.gpus[i]
<1>1. Len(rules) \in DOMAIN rules
  <2>1. rules # << >> BY DEF Dv!ValidRules
  <2>2. Len(rules) \in Nat /\ DOMAIN rules = 1..Len(rules) /\ Len(rules) # 0 BY <2>1, EmptySeq
  <2> QED BY <2>2
<1>2. Dv!NoConditions(last) BY DEF Dv!ValidRules
<1>3. g.compute \in Seq(Nat)
  <2>1. g \in Dv!Readings BY DEF Dv!MachineOK, Dv!Profiles
  <2> QED BY <2>1 DEF Dv!Readings
<1>4. ~Dv!IsBelow(g.compute, << >>)
  <2>1. \A k \in Nat : Dv!Component(<< >>, k) = IF k = 0 THEN << >>[k] ELSE 0 BY DEF Dv!Component
  <2>2. \A k \in Nat \ {0} : Dv!Component(g.compute, k) \in Nat BY <1>3 DEF Dv!Component
  <2>3. \A k \in 1..(Len(g.compute) + Len(<< >>)) : k \in Nat \ {0} OBVIOUS
  <2> QED BY <2>1, <2>2, <2>3 DEF Dv!IsBelow
<1> HIDE DEF g, last
<1>5. Dv!Holds(last, p, g) BY <1>2, <1>4 DEF Dv!NoConditions, Dv!Holds
<1> QED BY <1>1, <1>5 DEF g, last

(* The class, the budget, the notes and the fingerprint are the same in    *)
(* whatever order the devices were detected (finish, orderGPUs and         *)
(* Fingerprint, internal/hardware/derive.go).                              *)
THEOREM DetectionOrderIsNothing ==
  \A rules, p, q, turn :
    Dv!MachineOK(p) /\ Dv!MachineOK(q) /\ SameBut(p, q, turn)
      => Dv!SameMachine(Dv!Finished(rules, p), Dv!Finished(rules, q))
BY MachineIs

(* The class of a machine is that of the best device it has, its budget    *)
(* one device's memory, and neither depends on the order of detection      *)
(* (finish, gpuBudget and Fingerprint, internal/hardware/derive.go).       *)
THEOREM BestDeviceDecides ==
  ASSUME NEW rules, NEW p, Dv!MachineOK(p) PROVE Dv!ClassIsOfTheBest(rules, p)
<1> DEFINE q == [p EXCEPT !.gpus = Dv!Reverse(@)]
<1>1. Dv!ClassIsRight(p, Dv!Finished(rules, p)) BY ClassHolds
<1>2. Dv!SameMachine(Dv!Finished(rules, p), Dv!Finished(rules, p)) BY DEF Dv!SameMachine
<1>3. Dv!SameMachine(Dv!Finished(rules, p), Dv!Finished(rules, q))
  <2>1. Dv!MachineOK(q) /\ \E turn : SameBut(p, q, turn) BY TurnedIsSame
  <2> QED BY <2>1, MachineIs
<1> DEFINE finished == {<<turn, Dv!Finished(rules, IF turn THEN q ELSE p)>> : turn \in BOOLEAN}
<1>4. ASSUME NEW e \in finished, NEW f \in finished, ~e[1]
      PROVE  Dv!ClassIsRight(p, e[2]) /\ Dv!SameMachine(e[2], f[2])
  <2>1. e[2] = Dv!Finished(rules, p) BY <1>4
  <2>2. f[2] \in {Dv!Finished(rules, p), Dv!Finished(rules, q)} OBVIOUS
  <2> QED BY <1>1, <1>2, <1>3, <2>1, <2>2
<1> QED BY <1>4 DEF Dv!ClassIsOfTheBest
=============================================================================
