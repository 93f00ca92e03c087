--------------------------------- MODULE Fit ---------------------------------
(***************************************************************************)
(* Whether one model file fits at one context on one placement, and where *)
(* its parts would live: Estimator.FitPlaced, categorise and kvBytes       *)
(* (internal/estimate/fit.go).  Sentences and the cache's precision (f16, *)
(* Ollama's default) are left out.                                         *)
(*                                                                         *)
(* A file is a record: its bytes, the vision encoder beside it (0 for      *)
(* none), its layers, the context it was trained for (0 when not known),   *)
(* the cache its layers keep per unit of context (full, and sliding up to  *)
(* window), the fixed state of recurrent layers, and the share of its      *)
(* weights a token uses (active, percent); tables says that the rest are   *)
(* lookup tables which stay in system memory.  quant is the position of    *)
(* its quant among those the engine looks for, 0 for none.                 *)
(***************************************************************************)
EXTENDS Placement

CONSTANTS
    Ladder,             \* ContextLadder, ascending
    MinUsefulContext,
    Overhead,           \* of each runtime path
    HeadroomPercent, FitsPercent

ASSUME LadderAssumption ==
    /\ Ladder \in Seq(Nat \ {0})
    /\ MinUsefulContext \in Nat \ {0}
ASSUME LimitAssumption ==
    /\ Overhead \in [GPUPaths \cup {"cpu"} -> Nat]
    /\ HeadroomPercent \in Nat /\ FitsPercent \in Nat
    /\ HeadroomPercent <= FitsPercent

FileType == [id : Nat, bytes : Nat, projector : Nat, layers : Nat, trained : Nat,
             full : Nat, sliding : Nat, window : Nat, state : Nat,
             active : 1..100, tables : BOOLEAN, quant : Nat]

Contexts == {Ladder[i] : i \in DOMAIN Ladder}

Least(a, b) == IF a <= b THEN a ELSE b

(* kvBytes: sliding layers stop growing at their window.                   *)
KVBytes(file, ctx) == file.full * ctx + file.sliding * Least(ctx, file.window) + file.state

\* Mutant: the context is not clamped.
EffectiveContextAsked(file, ctx) == ctx

(* Ollama clamps the context to what the model was trained for.            *)
EffectiveContext(file, ctx) ==
    IF file.trained > 0 THEN Least(ctx, file.trained) ELSE ctx

OnDevice(pl) == pl.kind # "system"

(* What stays in system memory by design.                                  *)
HostOnly(pl, file) ==
    IF file.tables /\ OnDevice(pl)
    THEN file.bytes - (file.bytes * file.active) \div 100 ELSE 0

(* terms.total and terms.device, at an effective context.                  *)
Total(pl, file, ctx) ==
    file.bytes + file.projector + KVBytes(file, ctx) + Overhead[pl.path]
DeviceBytes(pl, file, ctx) == Total(pl, file, ctx) - HostOnly(pl, file)

HeadLimit(pl) == (pl.budget * HeadroomPercent) \div 100
FitLimit(pl) == (pl.budget * FitsPercent) \div 100

HostOK(pl, file) ==
    \/ HostOnly(pl, file) = 0
    \/ ~pl.systemKnown
    \/ HostOnly(pl, file) <= pl.system

(* The contexts of the ladder below ctx at which the file fits whole.      *)
ShorterThatFit(pl, file, ctx) ==
    {c \in Contexts : /\ MinUsefulContext <= c /\ c < ctx
                      /\ DeviceBytes(pl, file, c) <= FitLimit(pl)}

(* The split: whole layers go to the graphics until it is full, beside the *)
(* overhead and the vision encoder.                                        *)
FixedBytes(pl, file) == Overhead[pl.path] + file.projector
PerLayer(pl, file, ctx) ==
    IF file.layers = 0 THEN 1
    ELSE (file.bytes - HostOnly(pl, file) + KVBytes(file, ctx)) \div file.layers
\* Mutant: what is fixed on the device is forgotten.
LayersOnAlone(pl, file, ctx) ==
    IF PerLayer(pl, file, ctx) = 0 THEN 0
    ELSE Least(file.layers, FitLimit(pl) \div PerLayer(pl, file, ctx))
LayersOn(pl, file, ctx) ==
    LET fixed == FixedBytes(pl, file)
        per == PerLayer(pl, file, ctx)
    IN  IF FitLimit(pl) > fixed /\ per > 0
        THEN Least(file.layers, (FitLimit(pl) - fixed) \div per) ELSE 0
SplitDevice(pl, file, ctx) ==
    LET on == LayersOn(pl, file, ctx)
    IN  IF on = 0 THEN 0 ELSE FixedBytes(pl, file) + on * PerLayer(pl, file, ctx)

(* What a split needs of system memory: what spills, or everything where   *)
(* the graphics share that memory.                                         *)
HostNeed(pl, file, ctx) ==
    Total(pl, file, ctx) - (IF pl.kind = "unified" THEN 0 ELSE SplitDevice(pl, file, ctx))

(* An estimate: category, where the bytes are, the layers on the device    *)
(* and the context suggested instead (0 for none).                         *)
Estimate(pl, file, ctx, category, resident, host, on, suggested) ==
    [category |-> category, ctx |-> ctx,
     resident |-> IF OnDevice(pl) THEN resident ELSE 0,
     host |-> IF OnDevice(pl) THEN host ELSE resident + host,
     layersOn |-> on, suggested |-> suggested]

Whole(pl, file, ctx, category, suggested) ==
    Estimate(pl, file, ctx, category, DeviceBytes(pl, file, ctx), HostOnly(pl, file),
             IF OnDevice(pl) THEN file.layers ELSE 0, suggested)

Split(pl, file, ctx) ==
    LET on == LayersOn(pl, file, ctx)
        device == SplitDevice(pl, file, ctx)
        spill == pl.systemKnown /\ HostNeed(pl, file, ctx) > pl.system
    IN  Estimate(pl, file, ctx,
                 IF spill \/ on = 0 THEN "not_recommended" ELSE "needs_cpu_offload",
                 device, Total(pl, file, ctx) - device, on, 0)

(* The longest of a set of contexts that has one.                          *)
Longest(S) == CHOOSE c \in S : \A d \in S : d <= c

(* categorise: whole with headroom, whole, whole at a shorter context, and *)
(* only then in parts.                                                     *)
Categorise(pl, file, ctx) ==
    LET need == DeviceBytes(pl, file, ctx)
        ok == HostOK(pl, file)
        shorter == ShorterThatFit(pl, file, ctx)
    IN  IF ~pl.known THEN Estimate(pl, file, ctx, "unknown", 0, 0, 0, 0)
        ELSE IF ok /\ need <= HeadLimit(pl) THEN Whole(pl, file, ctx, "fits_with_headroom", 0)
        ELSE IF ok /\ need <= FitLimit(pl) THEN Whole(pl, file, ctx, "fits", 0)
        ELSE IF ok /\ shorter # {}
             THEN Whole(pl, file, ctx, "reduced_context_only", Longest(shorter))
        ELSE IF ~OnDevice(pl) THEN Whole(pl, file, ctx, "not_recommended", 0)
        ELSE Split(pl, file, ctx)

(* FitPlaced.                                                              *)
FitPlaced(pl, file, numCtx) == Categorise(pl, file, EffectiveContext(file, numCtx))

FitsOnDevice(est) == est.category \in {"fits_with_headroom", "fits"}
-----------------------------------------------------------------------------
(* What a category says of one file at one context.  The parts add up to   *)
(* the whole; what fits stays under the limit of the memory it was         *)
(* compared with; a split's device part does too, and what it leaves has   *)
(* room in system memory; a context suggested instead is shorter, fits,    *)
(* and no longer one below the context asked for does.                     *)
SumsUp(pl, file, est) ==
    pl.known => est.resident + est.host = Total(pl, file, est.ctx)
FitsIsWhole(pl, file, est) ==
    FitsOnDevice(est) =>
        /\ OnDevice(pl) => /\ est.resident <= FitLimit(pl)
                           /\ pl.systemKnown /\ est.host > 0 => est.host <= pl.system
        /\ ~OnDevice(pl) => est.host <= FitLimit(pl)
SplitHasRoom(pl, file, est) ==
    est.category = "needs_cpu_offload" =>
        /\ OnDevice(pl) /\ est.layersOn \in 1..file.layers
        /\ est.resident <= FitLimit(pl)
        /\ pl.systemKnown => est.host <= pl.system
        /\ pl.systemKnown /\ pl.kind = "unified" => est.resident + est.host <= pl.system
SuggestionFits(pl, file, est) ==
    est.category = "reduced_context_only" =>
        /\ est.suggested < est.ctx
        /\ FitsOnDevice(FitPlaced(pl, file, est.suggested))
        /\ \A c \in Contexts : est.suggested < c /\ c < est.ctx =>
               ~FitsOnDevice(FitPlaced(pl, file, c))

KeepsItsWord(pl, file, est) ==
    /\ SumsUp(pl, file, est)
    /\ FitsIsWhole(pl, file, est)
    /\ SplitHasRoom(pl, file, est)
    /\ SuggestionFits(pl, file, est)
=============================================================================
