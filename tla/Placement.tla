------------------------------ MODULE Placement ------------------------------
(***************************************************************************)
(* Which memory a model would run in on a machine, decided once per       *)
(* machine before any model is looked at: Estimator.Place                 *)
(* (internal/estimate/placement.go) on what hardware detection derives    *)
(* (internal/hardware/derive.go).  Bytes are natural numbers of any unit; *)
(* names, sentences and the runtime's environment are left out.            *)
(*                                                                         *)
(* A machine is what was read of it (RAM, the share of unified memory     *)
(* macOS gives the graphics, the devices with the best one first, each    *)
(* with its memory and the path the support rules expect of it) and the   *)
(* path the runtime was seen to take (actual, NotSeen before a model was  *)
(* loaded).  The speeds are those of the table of parts, 0 for a part     *)
(* that is not in it.                                                      *)
(***************************************************************************)
EXTENDS Integers, Sequences

CONSTANT OSReserve   \* what the operating system keeps of RAM

ASSUME ReserveAssumption == OSReserve \in Nat

NotSeen == "not_seen"
GPUPaths == {"cuda", "metal", "rocm", "vulkan"}
ActualPaths == GPUPaths \cup {"cpu", NotSeen}
Backends == GPUPaths \cup {"none", "unknown"}

GPUs == [apple : BOOLEAN, integrated : BOOLEAN, integratedKnown : BOOLEAN,
         vram : Nat, vramKnown : BOOLEAN, backend : Backends,
         tooOld : BOOLEAN, speed : Nat]

MachineType == [ram : Nat, ramKnown : BOOLEAN, ramSpeed : Nat,
                unified : BOOLEAN, wired : Nat, wiredKnown : BOOLEAN,
                gpus : Seq(GPUs), actual : ActualPaths]

HasGPU(m) == m.gpus # << >>

(* counts: the device's own memory is a budget a model can be placed in.   *)
HasOwnMemory(g) ==
    /\ g.backend \in GPUPaths /\ ~g.apple
    /\ ~g.integrated \/ g.backend = "rocm"

(* orderGPUs: devices the runtime can use before the unknown and the rest, *)
(* those with memory of their own first, then the most memory.             *)
Rank(g) ==
    (IF g.backend \in GPUPaths THEN 0 ELSE IF g.backend = "unknown" THEN 2 ELSE 4)
    + (IF g.integrated /\ ~HasOwnMemory(g) THEN 1 ELSE 0)
InOrder(gpus) ==
    \A i, j \in DOMAIN gpus : i < j =>
        \/ Rank(gpus[i]) < Rank(gpus[j])
        \/ /\ Rank(gpus[i]) = Rank(gpus[j])
           /\ ~(gpus[j].vramKnown /\ gpus[j].vram > gpus[i].vram)

(* gpuBudget: the largest single device and never a sum; on unified memory *)
(* what macOS says.                                                        *)
Counting(m) == {i \in DOMAIN m.gpus : HasOwnMemory(m.gpus[i])}
Largest(m) == m.gpus[CHOOSE i \in Counting(m) : \A j \in Counting(m) : i <= j]
UsableKnown(m) ==
    IF m.unified THEN m.wiredKnown
    ELSE Counting(m) # {} /\ Largest(m).vramKnown
Usable(m) ==
    IF ~UsableKnown(m) THEN 0 ELSE IF m.unified THEN m.wired ELSE Largest(m).vram

(* discreteGPU finds a card that is not built into the processor.          *)
HasCard(m) == \E i \in DOMAIN m.gpus :
                  m.gpus[i].integratedKnown /\ ~m.gpus[i].integrated

\* Mutant: the reserve is subtracted unsigned, whatever the RAM.
SystemBytesWraps(m) == IF m.ramKnown THEN (m.ram - OSReserve) % 65536 ELSE 0

(* RAM less the system's reserve; 0 when it is not known.                  *)
SystemBytes(m) == IF m.ramKnown /\ m.ram > OSReserve THEN m.ram - OSReserve ELSE 0

(* The plan for the processor, with why a card that exists is not used.    *)
OnProcessor(m, source, unused) ==
    [path |-> "cpu", source |-> source, device |-> FALSE, shared |-> FALSE,
     kind |-> "system", budget |-> SystemBytes(m), known |-> m.ramKnown,
     system |-> SystemBytes(m), systemKnown |-> m.ramKnown, unused |-> unused]

(* The plan for the primary device: the memory macOS lets it use, system   *)
(* memory when it has none of its own, or the card's.  A card whose memory *)
(* is not known leaves the processor's plan, in which the code forgets to  *)
(* clear Device.                                                           *)
OnGraphics(m, path, source) ==
    LET g == m.gpus[1]
        isUnified == m.unified /\ g.apple
        shares == ~isUnified /\ g.integrated /\ g.backend # "rocm"
        plan(kind, budget, known) ==
            [path |-> path, source |-> source, device |-> TRUE, shared |-> shares,
             kind |-> kind, budget |-> budget, known |-> known,
             system |-> SystemBytes(m), systemKnown |-> m.ramKnown, unused |-> "none"]
    IN  IF isUnified THEN plan("unified", Usable(m), UsableKnown(m))
        ELSE IF shares THEN plan("system", SystemBytes(m), m.ramKnown)
        ELSE IF UsableKnown(m) THEN plan("graphics", Usable(m), TRUE)
        ELSE [OnProcessor(m, "expected", "memory_unknown") EXCEPT !.device = TRUE]

(* Place: what the runtime was seen to do goes before what its support     *)
(* rules expect of the primary device.                                     *)
Place(m) ==
    LET expected == m.gpus[1].backend
        ifCard(why) == IF HasCard(m) THEN why ELSE "none"
        notUsed == IF HasGPU(m) /\ m.gpus[1].apple THEN "not_used" ELSE ifCard("not_used")
    IN  IF m.actual = "cpu" THEN OnProcessor(m, "established", notUsed)
        ELSE IF ~HasGPU(m) THEN OnProcessor(m, "expected", "none")
        ELSE IF m.actual \in GPUPaths THEN OnGraphics(m, m.actual, "established")
        ELSE IF expected \in GPUPaths THEN OnGraphics(m, expected, "expected")
        ELSE OnProcessor(m, "expected",
                         ifCard(IF expected = "unknown" THEN "not_known" ELSE "cannot_use"))

(* An operating system older than the runtime supports (the os-minimum     *)
(* rule) blocks everything.                                                *)
Blocked(m) == HasGPU(m) /\ m.gpus[1].tooOld
=============================================================================
