------------------------------ MODULE Devices ------------------------------
(***************************************************************************)
(* What the program makes of the graphics devices it read: the backend     *)
(* each is expected to run with (internal/hardware/support.go), their      *)
(* order, the memory a model may use, the class of the machine and its     *)
(* fingerprint (internal/hardware/derive.go: finish, Fingerprint).         *)
(*                                                                         *)
(* Unknown is 0 for an amount, << >> for a version, "" for a text and      *)
(* "unknown" for yes or no.  Names stand for themselves: a row's patterns  *)
(* are the set of names they match.                                        *)
(***************************************************************************)
EXTENDS Naturals, Sequences, FiniteSets, FiniteSetsExt, SequencesExt

CONSTANTS
  GFXRows,         \* sequence of [gfx, names]
  IntegratedRows,  \* sequence of [vendor, names, integrated]; no names match all
  Minimum,         \* operating system -> oldest version the runtime runs on
  Sizes            \* the bounds of the tiers with graphics memory, ascending

(* What is read of a machine and its devices.  An Apple chip's graphics    *)
(* are in the chip, with no other device beside them.                      *)
Readings ==
  [vendor : STRING, name : STRING, pci : STRING, bus : STRING, vram : Nat, integrated : {"yes", "no", "unknown"}, gfx : STRING,
   compute : Seq(Nat), version : Seq(Nat), driver : STRING, missing : BOOLEAN, problem : Nat, backend : STRING, actionable : BOOLEAN]
Profiles ==
  [os : STRING, arch : STRING, release : Seq(Nat), cpu : STRING, ram : Nat, unified : BOOLEAN, budget : Nat, listRead : BOOLEAN,
   gpus : Seq(Readings)]
MachineOK(p) ==
  /\ p \in Profiles
  /\ \A i \in DOMAIN p.gpus : p.gpus[i].vendor = "apple" =>
       p.gpus[i].integrated = "yes" /\ \A j \in DOMAIN p.gpus : p.gpus[j].vendor = "apple"

Backends == {"cuda", "metal", "rocm", "vulkan", "none", "unknown"}
UsesGPU(backend) == backend \in {"cuda", "metal", "rocm", "vulkan"}

(* compareVersions: a missing component counts as 0.                       *)
Component(v, i) == IF i <= Len(v) THEN v[i] ELSE 0
IsBelow(a, b) ==
  \E i \in 1..(Len(a) + Len(b)) :
      Component(a, i) < Component(b, i) /\ \A j \in 1..(i - 1) : Component(a, j) = Component(b, j)

(* A bug: the last rule may wait for a missing driver.                     *)
FitsAnyCard(r) == r.vendor = "" /\ r.os = {} /\ r.arch = {} /\ r.gfx = {} /\ r.names = {}
NoConditions(r) ==
  /\ r.vendor = "" /\ r.os = {} /\ r.arch = {} /\ r.gfx = {} /\ r.drivers = {} /\ r.names = {}
  /\ r.min = << >> /\ r.max = << >> /\ r.below = << >> /\ ~r.missing

(* parseSupport, of the rules.                                             *)
ValidRules(rules) ==
  /\ rules # << >> /\ IsInjective([i \in DOMAIN rules |-> rules[i].id])
  /\ \A i \in DOMAIN rules : rules[i].id # "" /\ rules[i].backend \in Backends
  /\ NoConditions(rules[Len(rules)])

(* A condition on what is unknown does not hold.                           *)
Holds(r, p, g) ==
  /\ r.vendor \in {"", g.vendor}
  /\ r.os = {} \/ p.os \in r.os
  /\ r.arch = {} \/ p.arch \in r.arch
  /\ r.gfx = {} \/ g.gfx \in r.gfx \ {""}
  /\ r.missing => g.missing
  /\ r.drivers = {} \/ g.driver \in r.drivers \ {""}
  /\ <<r.min, r.max>> = << << >>, << >> >> \/ g.compute # << >>
  /\ ~IsBelow(g.compute, r.min)
  /\ r.max = << >> \/ ~IsBelow(r.max, g.compute)
  /\ r.below = << >> \/ (g.version # << >> /\ IsBelow(g.version, r.below))
  /\ r.names = {} \/ g.name \in r.names
Expected(rules, p, g) == rules[Min({i \in DOMAIN rules : Holds(rules[i], p, g)})]

GFXFor(name) ==
  LET hits == {i \in DOMAIN GFXRows : name \in GFXRows[i].names}
  IN IF hits = {} THEN "" ELSE GFXRows[Min(hits)].gfx
IntegratedFor(g) ==
  LET hits == {i \in DOMAIN IntegratedRows :
                 IntegratedRows[i].vendor = g.vendor /\ (IntegratedRows[i].names = {} \/ g.name \in IntegratedRows[i].names)}
  IN IF hits = {} THEN "unknown" ELSE IntegratedRows[Min(hits)].integrated

TooOld(p) == p.os \in DOMAIN Minimum /\ p.release # << >> /\ IsBelow(p.release, Minimum[p.os])

(* finish, of one device: its target, whether it is integrated, its        *)
(* expected backend.                                                       *)
Named(g) ==
  [g EXCEPT !.gfx = IF g.vendor = "amd" /\ @ = "" THEN GFXFor(g.name) ELSE @,
            !.integrated = IF @ = "unknown" THEN IntegratedFor(g) ELSE @]
ExpectedOf(rules, p, g) ==
  IF TooOld(p) THEN [backend |-> "none", actionable |-> FALSE]
  ELSE IF g.problem # 0 /\ ~g.missing THEN [backend |-> "none", actionable |-> FALSE]
  ELSE LET r == Expected(rules, p, g) IN [backend |-> r.backend, actionable |-> r.actionable]
Device(rules, p, g) ==
  LET e == ExpectedOf(rules, p, Named(g)) IN [Named(g) EXCEPT !.backend = e.backend, !.actionable = e.actionable]

(* A device whose own memory is a budget.                                  *)
IsIntegrated(g) == g.integrated = "yes"
Counts(g) == UsesGPU(g.backend) /\ g.vendor # "apple" /\ (~IsIntegrated(g) \/ g.backend = "rocm")

Rank(g) ==
  (IF UsesGPU(g.backend) THEN 0 ELSE IF g.backend = "unknown" THEN 2 ELSE 4)
  + (IF IsIntegrated(g) /\ ~Counts(g) THEN 1 ELSE 0)
Sorted(seq, ahead) ==
  [k \in DOMAIN seq |-> seq[CHOOSE i \in DOMAIN seq : Cardinality(ahead[i]) = k - 1]]
(* A bug: the most memory first, whatever the device is.                   *)
OrderByMemory(gpus) ==
  LET Before(i, j) == gpus[i].vram > gpus[j].vram \/ (gpus[i].vram = gpus[j].vram /\ i < j)
  IN Sorted(gpus, [j \in DOMAIN gpus |-> {i \in DOMAIN gpus : Before(i, j)}])
Before(gpus, i, j) ==
  LET same == Rank(gpus[i]) = Rank(gpus[j])
  IN \/ Rank(gpus[i]) < Rank(gpus[j])
     \/ same /\ gpus[i].vram > gpus[j].vram
     \/ same /\ gpus[i].vram = gpus[j].vram /\ i < j
OrderGPUs(gpus) == Sorted(gpus, [j \in DOMAIN gpus |-> {i \in DOMAIN gpus : Before(gpus, i, j)}])

(* gpuBudget: the first device that counts, never a sum.                   *)
(* A bug: the memory of all of them.                                       *)
BudgetSum(p, gpus) ==
  IF p.unified THEN p.budget
  ELSE LET of(g) == IF Counts(g) THEN g.vram ELSE 0 IN FoldLeft(LAMBDA n, g : n + of(g), 0, gpus)
Budget(p, gpus) ==
  IF p.unified THEN p.budget
  ELSE LET own == {i \in DOMAIN gpus : Counts(gpus[i])} IN IF own = {} THEN 0 ELSE gpus[Min(own)].vram

SizeTier(bytes) == Cardinality({i \in DOMAIN Sizes : bytes >= Sizes[i]})
Tier(p, gpus, budget) ==
  IF TooOld(p) \/ (gpus = << >> /\ ~p.listRead) THEN "unknown"
  ELSE IF gpus = << >> THEN "cpu_only"
  ELSE IF gpus[1].backend = "unknown" THEN "unknown"
  ELSE IF ~UsesGPU(gpus[1].backend) THEN "cpu_only"
  ELSE IF ~((p.unified /\ gpus[1].vendor = "apple") \/ Counts(gpus[1])) THEN "integrated"
  ELSE IF budget = 0 THEN "unknown" ELSE "gpu"

(* gpuNotes: what is worth saying of the devices.                          *)
Notes(gpus) ==
  LET discrete == {i \in DOMAIN gpus : gpus[i].integrated = "no"}
  IN (IF Cardinality(discrete) > 1 THEN {"several"} ELSE {})
     \cup (IF \E i \in discrete : gpus[i].vendor = "intel" THEN {"arc"} ELSE {})
     \cup {gpus[i].name : i \in {j \in DOMAIN gpus : gpus[j].actionable}}

(* finish.                                                                 *)
Finished(rules, p) ==
  LET gpus == OrderGPUs([i \in DOMAIN p.gpus |-> Device(rules, p, p.gpus[i])])
      budget == Budget(p, gpus)
  IN [os |-> p.os, arch |-> p.arch, cpu |-> p.cpu, ram |-> p.ram, gpus |-> gpus, budget |-> budget,
      tier |-> Tier(p, gpus, budget), size |-> SizeTier(budget), notes |-> Notes(gpus)]

(* Fingerprint, with amounts in quarters of what is rounded to.            *)
Rounded(amount) == IF amount = 0 THEN << >> ELSE <<(amount + 2) \div 4>>
Identity(g) == <<IF g.pci = "" THEN <<g.vendor, g.name>> ELSE <<"pci", g.pci>>, Rounded(g.vram)>>
Fingerprint(f) ==
  <<f.os, f.arch, f.cpu, Rounded(f.ram), ToBag([i \in DOMAIN f.gpus |-> Identity(f.gpus[i])])>>
-----------------------------------------------------------------------------
(* Whatever is detected, and in whichever order: every device of a valid   *)
(* table has an expectation; the budget is one device's memory, and no     *)
(* device that counts has more; the class of the machine is that of the    *)
(* best device there is, with a size only where its memory is known; and   *)
(* neither that nor the fingerprint depends on the order of detection.     *)
SameMachine(f, turned) ==
  f.tier = turned.tier /\ f.budget = turned.budget /\ f.notes = turned.notes /\ Fingerprint(f) = Fingerprint(turned)
ClassIsRight(p, f) ==
  \A own \in {{f.gpus[i] : i \in {j \in DOMAIN f.gpus : Counts(f.gpus[j])}}} :
    LET usable == {i \in DOMAIN f.gpus : UsesGPU(f.gpus[i].backend)}
    IN /\ ~p.unified => f.budget \in {g.vram : g \in own} \cup (IF own = {} THEN {0} ELSE {})
       /\ ~p.unified => \A g \in own : g.vram <= f.budget
       /\ f.tier = "gpu" => f.budget > 0 /\ (p.unified \/ (Counts(f.gpus[1]) /\ f.gpus[1].vram = f.budget))
       /\ f.tier = "integrated" => own = {} /\ usable # {}
       /\ f.tier = "cpu_only" => usable = {}
ClassIsOfTheBest(rules, p) ==
  ValidRules(rules) =>
    LET finished == {<<turn, Finished(rules, IF turn THEN [p EXCEPT !.gpus = Reverse(@)] ELSE p)>> : turn \in BOOLEAN}
    IN \A e \in finished : \A f \in finished : ~e[1] => ClassIsRight(p, e[2]) /\ SameMachine(e[2], f[2])
EveryDeviceExpected(rules, p) ==
  ValidRules(rules) => \A i \in DOMAIN p.gpus : \E j \in DOMAIN rules : Holds(rules[j], p, p.gpus[i])
=============================================================================
