------------------------------ MODULE FitProofs ------------------------------
(***************************************************************************)
(* The categories keep their word on every machine and for every file,     *)
(* and the cards recommended are the best there is.  The grades of a speed *)
(* are earned, and the speeds are what the table and the runs say.  The    *)
(* verdict of any test rests on a prompt long enough, and of any runs the  *)
(* latest measurements count; the header of any file is read of a piece as *)
(* of the whole, and its layers count once.                                *)
(***************************************************************************)
EXTENDS Recommend, FiniteSetTheorems, WellFoundedInduction, TLAPS

(* What the arithmetic needs of a placement.                               *)
PlanOK(pl) ==
    /\ pl.path \in GPUPaths \cup {"cpu"}
    /\ pl.kind \in {"system", "unified", "graphics"}
    /\ pl.budget \in Nat /\ pl.system \in Nat
    /\ pl.known \in BOOLEAN /\ pl.systemKnown \in BOOLEAN

LEMMA Division ==
    ASSUME NEW a \in Nat, NEW b \in Nat, b > 0
    PROVE  /\ a \div b \in Nat
           /\ b * (a \div b) <= a
  OBVIOUS

LEMMA Products ==
    ASSUME NEW k \in Nat, NEW n \in Nat, NEW p \in Nat, k <= n
    PROVE  k * p \in Nat /\ n * p \in Nat /\ k * p <= n * p
  OBVIOUS

LEMMA LongestIsOne ==
    ASSUME NEW S, S \subseteq Nat, S # {}, NEW top \in Nat, \A c \in S : c <= top
    PROVE  /\ Longest(S) \in S
           /\ \A d \in S : d <= Longest(S)
<1> DEFINE T == {top - c : c \in S}
<1>a. \A c \in S : c \in Nat /\ top - c \in Nat
  OBVIOUS
<1>1. T \subseteq Nat /\ T # {}
  <2>1. T \subseteq Nat
    BY <1>a
  <2>2. PICK c \in S : TRUE
    OBVIOUS
  <2>3. top - c \in T
    OBVIOUS
  <2> QED
    BY <2>1, <2>3
<1>2. PICK x \in T : \A y \in T : ~(<<y, x>> \in OpToRel(<, Nat))
  BY <1>1, NatLessThanWellFounded, WFMin
<1>3. \A y \in T : x <= y
  <2> TAKE y \in T
  <2>1. y \in Nat /\ x \in Nat
    BY <1>1
  <2>2. CASE y < x
    <3>1. <<y, x>> \in Nat \X Nat
      BY <2>1
    <3>2. <<y, x>> \in OpToRel(<, Nat)
      BY <2>2, <3>1 DEF OpToRel
    <3> QED
      BY <3>2, <1>2
  <2> QED
    BY <2>1, <2>2
<1>4. PICK c \in S : x = top - c
  BY <1>2
<1>5. \A d \in S : d <= c
  BY <1>3, <1>4
<1> QED
  BY <1>5 DEF Longest
-----------------------------------------------------------------------------
(* The memory terms are natural numbers that add up.                       *)
LEMMA Cache ==
    ASSUME NEW file \in FileType, NEW ctx \in Nat
    PROVE  KVBytes(file, ctx) \in Nat
<1> DEFINE cells == Least(ctx, file.window)
<1>1. /\ file.full \in Nat /\ file.sliding \in Nat /\ file.state \in Nat
      /\ file.window \in Nat /\ cells \in Nat
  BY DEF FileType, Least
<1>2. file.full * ctx \in Nat /\ file.sliding * cells \in Nat
  BY <1>1, Products
<1> HIDE DEF cells
<1>3. file.full * ctx + file.sliding * cells + file.state \in Nat
  BY <1>1, <1>2
<1> QED
  BY <1>3 DEF KVBytes, cells

LEMMA HostShare ==
    ASSUME NEW pl, NEW file \in FileType
    PROVE  /\ HostOnly(pl, file) \in Nat
           /\ HostOnly(pl, file) <= file.bytes
           /\ ~OnDevice(pl) => HostOnly(pl, file) = 0
<1> DEFINE used == (file.bytes * file.active) \div 100
<1>1. file.bytes \in Nat /\ file.active \in Nat /\ file.active <= 100
  BY DEF FileType
<1>2. /\ file.active * file.bytes \in Nat
      /\ file.active * file.bytes <= 100 * file.bytes
  BY <1>1, Products
<1>3. used \in Nat /\ used <= file.bytes
  BY <1>1, <1>2
<1> HIDE DEF used
<1> QED
  BY <1>1, <1>3 DEF HostOnly, used

LEMMA Terms ==
    ASSUME NEW pl, PlanOK(pl), NEW file \in FileType, NEW ctx \in Nat
    PROVE  /\ FixedBytes(pl, file) \in Nat
           /\ Total(pl, file, ctx) \in Nat
           /\ DeviceBytes(pl, file, ctx) \in Nat
           /\ DeviceBytes(pl, file, ctx) + HostOnly(pl, file) = Total(pl, file, ctx)
           /\ file.bytes - HostOnly(pl, file) + KVBytes(file, ctx) \in Nat
           /\ FixedBytes(pl, file) + (file.bytes - HostOnly(pl, file) + KVBytes(file, ctx))
                 <= Total(pl, file, ctx)
<1>1. KVBytes(file, ctx) \in Nat
  BY Cache
<1>2. HostOnly(pl, file) \in Nat /\ HostOnly(pl, file) <= file.bytes
  BY HostShare
<1>3. file.bytes \in Nat /\ file.projector \in Nat
  BY DEF FileType
<1>4. Overhead[pl.path] \in Nat
  BY LimitAssumption DEF PlanOK
<1> QED
  BY <1>1, <1>2, <1>3, <1>4 DEF FixedBytes, Total, DeviceBytes

LEMMA Limits ==
    ASSUME NEW pl, PlanOK(pl)
    PROVE  /\ HeadLimit(pl) \in Nat /\ FitLimit(pl) \in Nat
           /\ HeadLimit(pl) <= FitLimit(pl)
<1>1. pl.budget \in Nat /\ HeadroomPercent \in Nat /\ FitsPercent \in Nat
  BY LimitAssumption DEF PlanOK
<1>2. /\ HeadroomPercent * pl.budget \in Nat /\ FitsPercent * pl.budget \in Nat
      /\ HeadroomPercent * pl.budget <= FitsPercent * pl.budget
  BY <1>1, LimitAssumption, Products
<1>3. /\ pl.budget * HeadroomPercent \in Nat /\ pl.budget * FitsPercent \in Nat
      /\ pl.budget * HeadroomPercent <= pl.budget * FitsPercent
  BY <1>1, <1>2
<1> QED
  BY <1>3 DEF HeadLimit, FitLimit

(* A split puts whole layers on the device, as many as there are and as    *)
(* have room beside what is fixed there, and never more than there is.     *)
LEMMA SplitFits ==
    ASSUME NEW pl, PlanOK(pl), NEW file \in FileType, NEW ctx \in Nat
    PROVE  LET on == LayersOn(pl, file, ctx)
               device == SplitDevice(pl, file, ctx)
           IN  /\ on \in 0..file.layers
               /\ device \in Nat /\ device <= FitLimit(pl)
               /\ device <= Total(pl, file, ctx)
<1> DEFINE fixed == FixedBytes(pl, file)
           per == PerLayer(pl, file, ctx)
           on == LayersOn(pl, file, ctx)
           limit == FitLimit(pl)
           spread == file.bytes - HostOnly(pl, file) + KVBytes(file, ctx)
           total == Total(pl, file, ctx)
<1>1. /\ fixed \in Nat /\ spread \in Nat /\ total \in Nat /\ fixed + spread <= total
  BY Terms
<1>2. limit \in Nat
  BY Limits
<1>3. file.layers \in Nat
  BY DEF FileType
<1>4. per = IF file.layers = 0 THEN 1 ELSE spread \div file.layers
  BY DEF PerLayer
<1>5. SplitDevice(pl, file, ctx) = IF on = 0 THEN 0 ELSE fixed + on * per
  BY DEF SplitDevice
<1>6. on = IF limit > fixed /\ per > 0
           THEN Least(file.layers, (limit - fixed) \div per) ELSE 0
  BY DEF LayersOn
<1> HIDE DEF fixed, per, on, limit, spread, total
<1>7. per \in Nat /\ (file.layers > 0 => file.layers * per <= spread)
  BY <1>1, <1>3, <1>4, Division
<1>8. CASE limit > fixed /\ per > 0
  <2> DEFINE room == (limit - fixed) \div per
  <2>1. limit - fixed \in Nat
    BY <1>1, <1>2, <1>8
  <2>2. room \in Nat /\ per * room <= limit - fixed
    BY <2>1, <1>7, <1>8, Division
  <2>3. on = Least(file.layers, room)
    BY <1>6, <1>8
  <2> HIDE DEF room
  <2>4. on \in Nat /\ on <= file.layers /\ on <= room
    BY <2>2, <2>3, <1>3 DEF Least
  <2>5. on * per \in Nat /\ on * per <= room * per /\ on * per <= file.layers * per
    BY <2>2, <2>4, <1>3, <1>7, Products
  <2>6. room * per = per * room
    BY <2>2, <1>7
  <2>7. on # 0 => on * per <= spread
    BY <2>4, <2>5, <1>1, <1>3, <1>7
  <2>8. on \in 0..file.layers
    BY <2>4, <1>3
  <2> DEFINE load == on * per
             most == per * room
  <2>9. load \in Nat /\ load <= most /\ (on # 0 => load <= spread)
    BY <2>5, <2>6, <2>7
  <2>10. most \in Int /\ most <= limit - fixed
    BY <2>2, <1>7
  <2> HIDE DEF load, most
  <2>11. load \in Nat /\ load <= limit - fixed /\ (on # 0 => load <= spread)
    BY <2>9, <2>10, <1>1, <1>2
  <2>12. /\ (IF on = 0 THEN 0 ELSE fixed + load) \in Nat
         /\ (IF on = 0 THEN 0 ELSE fixed + load) <= limit
         /\ (IF on = 0 THEN 0 ELSE fixed + load) <= total
    BY <2>11, <1>1, <1>2
  <2> QED
    BY <2>8, <2>12, <1>5 DEF on, limit, total, load
<1>9. CASE ~(limit > fixed /\ per > 0)
  <2>1. on = 0
    BY <1>6, <1>9
  <2> QED
    BY <2>1, <1>1, <1>2, <1>3, <1>5 DEF on, limit, total
<1> QED
  BY <1>8, <1>9
-----------------------------------------------------------------------------
(* Whole on the device is what the two terms of the comparison say.        *)
LEMMA FitsIff ==
    ASSUME NEW pl, PlanOK(pl), pl.known, NEW file \in FileType, NEW ctx \in Nat
    PROVE  FitsOnDevice(Categorise(pl, file, ctx)) <=>
              HostOK(pl, file) /\ DeviceBytes(pl, file, ctx) <= FitLimit(pl)
<1> DEFINE need == DeviceBytes(pl, file, ctx)
<1>1. need \in Nat /\ HeadLimit(pl) \in Nat /\ FitLimit(pl) \in Nat
      /\ HeadLimit(pl) <= FitLimit(pl)
  BY Terms, Limits
<1>2. \A suggested : \A c \in {"fits_with_headroom", "fits", "reduced_context_only", "not_recommended"} :
          Whole(pl, file, ctx, c, suggested).category = c
  BY DEF Whole, Estimate
<1>3. Split(pl, file, ctx).category \in {"not_recommended", "needs_cpu_offload"}
  BY DEF Split, Estimate
<1> QED
  BY <1>1, <1>2, <1>3 DEF Categorise, FitsOnDevice

(* The contexts of the ladder below one asked for are natural numbers with *)
(* a longest, when there are any.                                          *)
LEMMA LongestShorter ==
    ASSUME NEW pl, NEW file, NEW ctx \in Nat, ShorterThatFit(pl, file, ctx) # {}
    PROVE  LET c == Longest(ShorterThatFit(pl, file, ctx))
           IN  /\ c \in ShorterThatFit(pl, file, ctx) /\ c \in Nat
               /\ \A d \in ShorterThatFit(pl, file, ctx) : d <= c
<1>1. Contexts \subseteq Nat
  BY LadderAssumption DEF Contexts
<1>2. ShorterThatFit(pl, file, ctx) \subseteq Nat
  BY <1>1 DEF ShorterThatFit
<1>3. \A d \in ShorterThatFit(pl, file, ctx) : d <= ctx
  BY <1>2 DEF ShorterThatFit
<1> QED
  BY <1>2, <1>3, LongestIsOne

LEMMA WholeIs ==
    ASSUME NEW pl, PlanOK(pl), NEW file \in FileType, NEW ctx \in Nat,
           NEW category, NEW suggested
    PROVE  LET est == Whole(pl, file, ctx, category, suggested)
           IN  /\ est.category = category /\ est.ctx = ctx /\ est.suggested = suggested
               /\ OnDevice(pl) => /\ est.resident = DeviceBytes(pl, file, ctx)
                                  /\ est.host = HostOnly(pl, file)
               /\ ~OnDevice(pl) => est.resident = 0 /\ est.host = DeviceBytes(pl, file, ctx)
               /\ est.resident + est.host = Total(pl, file, ctx)
<1>1. DeviceBytes(pl, file, ctx) \in Nat
  BY Terms
<1>2. HostOnly(pl, file) \in Nat /\ (~OnDevice(pl) => HostOnly(pl, file) = 0)
  BY HostShare
<1>3. DeviceBytes(pl, file, ctx) + HostOnly(pl, file) = Total(pl, file, ctx)
  BY Terms
<1> QED
  BY <1>1, <1>2, <1>3 DEF Whole, Estimate

(* A whole fit: the device's part is under the limit, the rest has room.   *)
LEMMA WholeKeepsItsWord ==
    ASSUME NEW pl, PlanOK(pl), NEW file \in FileType, NEW ctx \in Nat,
           HostOK(pl, file), DeviceBytes(pl, file, ctx) <= FitLimit(pl),
           NEW category \in {"fits_with_headroom", "fits"}
    PROVE  KeepsItsWord(pl, file, Whole(pl, file, ctx, category, 0))
<1> DEFINE est == Whole(pl, file, ctx, category, 0)
<1>1. /\ est.category = category /\ est.ctx = ctx
      /\ OnDevice(pl) => /\ est.resident = DeviceBytes(pl, file, ctx)
                         /\ est.host = HostOnly(pl, file)
      /\ ~OnDevice(pl) => est.resident = 0 /\ est.host = DeviceBytes(pl, file, ctx)
      /\ est.resident + est.host = Total(pl, file, ctx)
  BY WholeIs
<1> HIDE DEF est
<1>2. HostOnly(pl, file) \in Nat
  BY HostShare
<1>3. SumsUp(pl, file, est)
  BY <1>1 DEF SumsUp
<1>4. FitsIsWhole(pl, file, est)
  BY <1>1, <1>2 DEF FitsIsWhole, HostOK
<1>5. SplitHasRoom(pl, file, est) /\ SuggestionFits(pl, file, est)
  BY <1>1 DEF SplitHasRoom, SuggestionFits
<1> QED
  BY <1>3, <1>4, <1>5 DEF KeepsItsWord, est

(* A shorter context: it fits, and of those below the one asked for it is  *)
(* the longest that does.                                                  *)
LEMMA ReducedKeepsItsWord ==
    ASSUME NEW pl, PlanOK(pl), pl.known, NEW file \in FileType, NEW ctx \in Nat,
           file.trained > 0 => ctx <= file.trained,
           HostOK(pl, file), ShorterThatFit(pl, file, ctx) # {}
    PROVE  KeepsItsWord(pl, file, Whole(pl, file, ctx, "reduced_context_only",
                                        Longest(ShorterThatFit(pl, file, ctx))))
<1> DEFINE shorter == ShorterThatFit(pl, file, ctx)
           c == Longest(shorter)
           est == Whole(pl, file, ctx, "reduced_context_only", c)
<1>1. /\ est.category = "reduced_context_only" /\ est.ctx = ctx /\ est.suggested = c
      /\ est.resident + est.host = Total(pl, file, ctx)
  BY WholeIs
<1>2. c \in shorter /\ c \in Nat /\ \A d \in shorter : d <= c
  BY LongestShorter
<1>3. file.trained \in Nat
  BY DEF FileType
<1>4. Contexts \subseteq Nat /\ MinUsefulContext \in Nat
  BY LadderAssumption DEF Contexts
<1>5. MinUsefulContext <= c /\ c < ctx /\ DeviceBytes(pl, file, c) <= FitLimit(pl)
  BY <1>2 DEF ShorterThatFit
<1>6. \A d \in Nat : d < ctx => FitPlaced(pl, file, d) = Categorise(pl, file, d)
  BY <1>3 DEF FitPlaced, EffectiveContext, Least
<1>7. FitsOnDevice(FitPlaced(pl, file, c))
  BY <1>2, <1>5, <1>6, FitsIff
<1>8. ASSUME NEW d \in Contexts, c < d, d < ctx
      PROVE  ~FitsOnDevice(FitPlaced(pl, file, d))
  <2>1. d \in Nat /\ MinUsefulContext <= d
    BY <1>2, <1>4, <1>5, <1>8
  <2>2. d \notin shorter
    BY <1>2, <1>8, <2>1
  <2>3. ~(DeviceBytes(pl, file, d) <= FitLimit(pl))
    BY <1>8, <2>1, <2>2 DEF ShorterThatFit
  <2> QED
    BY <1>6, <1>8, <2>1, <2>3, FitsIff
<1> HIDE DEF est, c, shorter
<1>9. SumsUp(pl, file, est) /\ FitsIsWhole(pl, file, est) /\ SplitHasRoom(pl, file, est)
  BY <1>1 DEF SumsUp, FitsIsWhole, FitsOnDevice, SplitHasRoom
<1>10. SuggestionFits(pl, file, est)
  BY <1>1, <1>5, <1>7, <1>8 DEF SuggestionFits
<1> QED
  BY <1>9, <1>10 DEF KeepsItsWord, est, c, shorter

(* A split: each part has room where it goes.                              *)
LEMMA SplitKeepsItsWord ==
    ASSUME NEW pl, PlanOK(pl), OnDevice(pl), NEW file \in FileType, NEW ctx \in Nat
    PROVE  KeepsItsWord(pl, file, Split(pl, file, ctx))
<1> DEFINE est == Split(pl, file, ctx)
           on == LayersOn(pl, file, ctx)
           device == SplitDevice(pl, file, ctx)
           total == Total(pl, file, ctx)
<1>1. /\ est.ctx = ctx /\ est.layersOn = on
      /\ est.resident = device /\ est.host = total - device
      /\ est.category \in {"needs_cpu_offload", "not_recommended"}
      /\ est.category = "needs_cpu_offload" =>
            on # 0 /\ ~(pl.systemKnown /\ HostNeed(pl, file, ctx) > pl.system)
  BY DEF Split, Estimate
<1>2. /\ on \in 0..file.layers /\ device \in Nat
      /\ device <= FitLimit(pl) /\ device <= total
  BY SplitFits
<1>3. total \in Nat /\ file.layers \in Nat /\ pl.system \in Nat
  BY Terms DEF FileType, PlanOK
<1>4. HostNeed(pl, file, ctx) = total - (IF pl.kind = "unified" THEN 0 ELSE device)
  BY DEF HostNeed
<1> HIDE DEF est, on, device, total
<1>5. SumsUp(pl, file, est)
  BY <1>1, <1>2, <1>3 DEF SumsUp, total
<1>6. FitsIsWhole(pl, file, est) /\ SuggestionFits(pl, file, est)
  BY <1>1 DEF FitsIsWhole, FitsOnDevice, SuggestionFits
<1>7. SplitHasRoom(pl, file, est)
  BY <1>1, <1>2, <1>3, <1>4 DEF SplitHasRoom
<1> QED
  BY <1>5, <1>6, <1>7 DEF KeepsItsWord, est

LEMMA CategoriseKeepsItsWord ==
    ASSUME NEW pl, PlanOK(pl), NEW file \in FileType, NEW ctx \in Nat,
           file.trained > 0 => ctx <= file.trained
    PROVE  KeepsItsWord(pl, file, Categorise(pl, file, ctx))
<1> DEFINE est == Categorise(pl, file, ctx)
           need == DeviceBytes(pl, file, ctx)
           ok == HostOK(pl, file)
           shorter == ShorterThatFit(pl, file, ctx)
<1>0. need \in Nat /\ HeadLimit(pl) \in Nat /\ FitLimit(pl) \in Nat
      /\ HeadLimit(pl) <= FitLimit(pl)
  BY Terms, Limits
<1>1. CASE ~pl.known
  <2>1. est = Estimate(pl, file, ctx, "unknown", 0, 0, 0, 0)
    BY <1>1 DEF Categorise
  <2>2. est.category = "unknown"
    BY <2>1 DEF Estimate
  <2> QED
    BY <1>1, <2>2 DEF KeepsItsWord, SumsUp, FitsIsWhole, FitsOnDevice, SplitHasRoom, SuggestionFits
<1>2. CASE pl.known /\ ok /\ need <= FitLimit(pl)
  <2>1. PICK category \in {"fits_with_headroom", "fits"} :
            est = Whole(pl, file, ctx, category, 0)
    BY <1>2 DEF Categorise
  <2> QED
    BY <1>2, <2>1, WholeKeepsItsWord
<1>3. CASE pl.known /\ ok /\ ~(need <= FitLimit(pl)) /\ shorter # {}
  <2>1. est = Whole(pl, file, ctx, "reduced_context_only", Longest(shorter))
    BY <1>0, <1>3 DEF Categorise
  <2> QED
    BY <1>3, <2>1, ReducedKeepsItsWord
<1>4. CASE /\ pl.known /\ ~(ok /\ need <= FitLimit(pl)) /\ ~(ok /\ shorter # {})
           /\ ~OnDevice(pl)
  <2>1. est = Whole(pl, file, ctx, "not_recommended", 0)
    BY <1>0, <1>4 DEF Categorise
  <2>2. /\ est.category = "not_recommended" /\ est.ctx = ctx
        /\ est.resident + est.host = Total(pl, file, ctx)
    BY <2>1, WholeIs
  <2> QED
    BY <2>2 DEF KeepsItsWord, SumsUp, FitsIsWhole, FitsOnDevice, SplitHasRoom, SuggestionFits
<1>5. CASE /\ pl.known /\ ~(ok /\ need <= FitLimit(pl)) /\ ~(ok /\ shorter # {})
           /\ OnDevice(pl)
  <2>1. est = Split(pl, file, ctx)
    BY <1>0, <1>5 DEF Categorise
  <2> QED
    BY <1>5, <2>1, SplitKeepsItsWord
<1> QED
  BY <1>1, <1>2, <1>3, <1>4, <1>5 DEF PlanOK

THEOREM FitKeepsItsWord ==
    ASSUME NEW pl, PlanOK(pl), NEW file \in FileType, NEW numCtx \in Nat
    PROVE  KeepsItsWord(pl, file, FitPlaced(pl, file, numCtx))
<1> DEFINE ctx == EffectiveContext(file, numCtx)
<1>1. file.trained \in Nat
  BY DEF FileType
<1>2. ctx \in Nat /\ (file.trained > 0 => ctx <= file.trained)
  BY <1>1 DEF EffectiveContext, Least
<1> QED
  BY <1>2, CategoriseKeepsItsWord DEF FitPlaced
-----------------------------------------------------------------------------
(* Every machine's placement is one the arithmetic is about.               *)
LEMMA SmallestIsOne ==
    ASSUME NEW S, S \subseteq Nat, S # {}
    PROVE  (CHOOSE c \in S : \A d \in S : c <= d) \in S
<1>1. PICK x \in S : \A y \in S : ~(<<y, x>> \in OpToRel(<, Nat))
  BY NatLessThanWellFounded, WFMin
<1>2. \A y \in S : x <= y
  <2> TAKE y \in S
  <2>1. y \in Nat /\ x \in Nat
    OBVIOUS
  <2>2. CASE y < x
    <3>1. <<y, x>> \in Nat \X Nat
      BY <2>1
    <3>2. <<y, x>> \in OpToRel(<, Nat)
      BY <2>2, <3>1 DEF OpToRel
    <3> QED
      BY <3>2, <1>1
  <2> QED
    BY <2>1, <2>2
<1> QED
  BY <1>2

LEMMA UsableIsBytes ==
    ASSUME NEW m \in MachineType
    PROVE  Usable(m) \in Nat /\ UsableKnown(m) \in BOOLEAN /\ SystemBytes(m) \in Nat
<1>1. /\ m.wired \in Nat /\ m.ram \in Nat /\ m.wiredKnown \in BOOLEAN
      /\ m.gpus \in Seq(GPUs)
  BY DEF MachineType
<1>2. SystemBytes(m) \in Nat
  BY <1>1, ReserveAssumption DEF SystemBytes
<1>3. Counting(m) \subseteq DOMAIN m.gpus /\ DOMAIN m.gpus \subseteq Nat
  BY <1>1 DEF Counting
<1>4. ASSUME Counting(m) # {} PROVE Largest(m) \in GPUs
  <2> DEFINE i == CHOOSE k \in Counting(m) : \A j \in Counting(m) : k <= j
  <2>1. i \in Counting(m)
    BY <1>3, <1>4, SmallestIsOne
  <2> HIDE DEF i
  <2>2. m.gpus[i] \in GPUs
    BY <1>1, <1>3, <2>1
  <2> QED
    BY <2>2 DEF Largest, i
<1>5. Counting(m) # {} => Largest(m).vram \in Nat /\ Largest(m).vramKnown \in BOOLEAN
  BY <1>4 DEF GPUs
<1> QED
  BY <1>1, <1>2, <1>5 DEF Usable, UsableKnown

LEMMA PlaceIsOK ==
    ASSUME NEW m \in MachineType
    PROVE  PlanOK(Place(m))
<1>1. /\ Usable(m) \in Nat /\ UsableKnown(m) \in BOOLEAN /\ SystemBytes(m) \in Nat
      /\ m.ramKnown \in BOOLEAN
  BY UsableIsBytes DEF MachineType
<1>2. \A source, unused : PlanOK(OnProcessor(m, source, unused))
  BY <1>1 DEF OnProcessor, PlanOK
<1>3. ASSUME NEW path \in GPUPaths, NEW source PROVE PlanOK(OnGraphics(m, path, source))
  <2>1. PlanOK([OnProcessor(m, "expected", "memory_unknown") EXCEPT !.device = TRUE])
    BY <1>1 DEF OnProcessor, PlanOK
  <2> QED
    BY <1>1, <1>3, <2>1 DEF OnGraphics, PlanOK
<1> QED
  BY <1>2, <1>3 DEF Place

(* Spec changes neither the machine nor the catalogue.                     *)
Given == machine \in MachineType /\ Files \subseteq FileType

LEMMA GivenStays == Spec => []Given
<1>1. Init => Given
  <2> SUFFICES ASSUME Init PROVE Given
    OBVIOUS
  <2>1. machine \in MachineType
    BY MachinesAssumption DEF Init
  <2>2. \A entry \in Range(catalogue) : Range(entry.files) \subseteq FileType
    BY CataloguesAssumption DEF Init
  <2> QED
    BY <2>1, <2>2 DEF Files, Entries, Given
<1>2. Given /\ [Next]_vars => Given'
  BY DEF Next, Ask, Answer, vars, Files, Entries, Given
<1> QED
  BY <1>1, <1>2, PTL DEF Spec

(* Whatever they are, each category does what its name says.               *)
THEOREM CategoriesKeepTheirWord == Spec => []CategoryKeepsItsWord
<1>1. Given => CategoryKeepsItsWord
  <2> SUFFICES ASSUME Given, NEW file \in Files, NEW ctx \in Contexts
               PROVE  KeepsItsWord(plan, file, FitPlaced(plan, file, ctx))
    BY DEF CategoryKeepsItsWord
  <2>1. PlanOK(plan)
    BY PlaceIsOK DEF plan, Given
  <2>2. ctx \in Nat
    BY LadderAssumption DEF Contexts
  <2> QED
    BY <2>1, <2>2, FitKeepsItsWord DEF Given
<1> QED
  BY <1>1, GivenStays, PTL
-----------------------------------------------------------------------------
(* A longer context never needs less.                                      *)
LEMMA LongerNeedsMore ==
    ASSUME NEW pl, PlanOK(pl), NEW file \in FileType,
           NEW c \in Nat, NEW d \in Nat, c <= d
    PROVE  DeviceBytes(pl, file, c) <= DeviceBytes(pl, file, d)
<1> DEFINE low == Least(c, file.window)
           high == Least(d, file.window)
<1>1. file.full \in Nat /\ file.sliding \in Nat /\ file.state \in Nat /\ file.window \in Nat
  BY DEF FileType
<1>2. low \in Nat /\ high \in Nat /\ low <= high
  BY <1>1 DEF Least
<1>3. KVBytes(file, c) = file.full * c + file.sliding * low + file.state
      /\ KVBytes(file, d) = file.full * d + file.sliding * high + file.state
  BY DEF KVBytes
<1> HIDE DEF low, high
<1>4. c * file.full \in Nat /\ d * file.full \in Nat /\ c * file.full <= d * file.full
  BY <1>1, Products
<1>5. low * file.sliding \in Nat /\ high * file.sliding \in Nat
      /\ low * file.sliding <= high * file.sliding
  BY <1>1, <1>2, Products
<1>6. file.full * c = c * file.full /\ file.full * d = d * file.full
      /\ file.sliding * low = low * file.sliding /\ file.sliding * high = high * file.sliding
  BY <1>1, <1>2
<1>7. KVBytes(file, c) \in Nat /\ KVBytes(file, d) \in Nat
      /\ KVBytes(file, c) <= KVBytes(file, d)
  BY <1>1, <1>3, <1>4, <1>5, <1>6, Cache
<1>8. /\ file.bytes \in Nat /\ file.projector \in Nat
      /\ Overhead[pl.path] \in Nat /\ HostOnly(pl, file) \in Nat
  BY LimitAssumption, HostShare DEF FileType, PlanOK
<1> QED
  BY <1>7, <1>8 DEF DeviceBytes, Total

(* The contexts the engine tries are those the fit screen would reach, and *)
(* one of them fits when its device part is under the limit.               *)
LEMMA TriedFits ==
    ASSUME PlanOK(plan), plan.known, NEW file \in FileType, NEW wanted \in Nat
    PROVE  LET e == EffectiveContext(file, wanted)
           IN  /\ e \in Nat /\ Tried(file, wanted) \subseteq Nat
               /\ \A c \in Contexts : c \in Tried(file, wanted) <=> MinUsefulContext <= c /\ c <= e
               /\ \A c \in Tried(file, wanted) :
                      c \in Fitting(file, wanted) <=>
                         HostOK(plan, file) /\ DeviceBytes(plan, file, c) <= FitLimit(plan)
<1> DEFINE e == EffectiveContext(file, wanted)
<1>1. file.trained \in Nat /\ Contexts \subseteq Nat
  BY LadderAssumption DEF FileType, Contexts
<1>2. e \in Nat /\ e <= wanted /\ (file.trained > 0 => e <= file.trained)
      /\ (e = wanted \/ (file.trained > 0 /\ e = file.trained))
  BY <1>1 DEF EffectiveContext, Least
<1>3. Tried(file, wanted) \subseteq Contexts
  BY DEF Tried
<1>4. ASSUME NEW c \in Contexts
      PROVE  c \in Tried(file, wanted) <=> MinUsefulContext <= c /\ c <= e
  <2>1. c \in Nat
    BY <1>1
  <2>2. (c <= wanted /\ (file.trained > 0 => c <= file.trained)) <=> c <= e
    BY <1>1, <1>2, <2>1
  <2> QED
    BY <2>2 DEF Tried
<1>5. ASSUME NEW c \in Tried(file, wanted)
      PROVE  c \in Fitting(file, wanted) <=>
                HostOK(plan, file) /\ DeviceBytes(plan, file, c) <= FitLimit(plan)
  <2>1. c \in Nat /\ (file.trained > 0 => c <= file.trained)
    BY <1>1, <1>3 DEF Tried
  <2>2. EffectiveContext(file, c) = c
    BY <2>1, <1>1 DEF EffectiveContext, Least
  <2>3. FitPlaced(plan, file, c) = Categorise(plan, file, c)
    BY <2>2 DEF FitPlaced
  <2> QED
    BY <2>1, <2>3, FitsIff DEF Fitting
<1> QED
  BY <1>1, <1>2, <1>3, <1>4, <1>5

(* What is not whole at the context asked for is whole at the shorter ones *)
(* the fit screen looks through, and at no other the engine tries.         *)
LEMMA ShorterIsFitting ==
    ASSUME PlanOK(plan), plan.known, NEW file \in FileType, NEW wanted \in Nat,
           HostOK(plan, file),
           ~(DeviceBytes(plan, file, EffectiveContext(file, wanted)) <= FitLimit(plan))
    PROVE  Fitting(file, wanted) = ShorterThatFit(plan, file, EffectiveContext(file, wanted))
<1> DEFINE e == EffectiveContext(file, wanted)
           shorter == ShorterThatFit(plan, file, e)
<1>1. Contexts \subseteq Nat
  BY LadderAssumption DEF Contexts
<1>2. e \in Nat
  BY TriedFits
<1>3. Fitting(file, wanted) \subseteq Tried(file, wanted)
      /\ Tried(file, wanted) \subseteq Contexts
  BY DEF Fitting, Tried
<1>4. ASSUME NEW c \in Fitting(file, wanted) PROVE c \in shorter
  <2>1. c \in Contexts /\ MinUsefulContext <= c /\ c <= e
        /\ DeviceBytes(plan, file, c) <= FitLimit(plan)
    BY <1>3, TriedFits
  <2>2. c # e
    BY <2>1
  <2>3. c < e
    BY <1>1, <1>2, <2>1, <2>2
  <2> QED
    BY <2>1, <2>3 DEF ShorterThatFit
<1>5. ASSUME NEW c \in shorter PROVE c \in Fitting(file, wanted)
  <2>1. c \in Contexts /\ MinUsefulContext <= c /\ c < e
        /\ DeviceBytes(plan, file, c) <= FitLimit(plan)
    BY DEF ShorterThatFit
  <2>2. c <= e
    BY <1>1, <1>2, <2>1
  <2>3. c \in Tried(file, wanted)
    BY <2>1, <2>2, TriedFits
  <2> QED
    BY <2>1, <2>3, TriedFits
<1> QED
  BY <1>4, <1>5

(* The two searches for a context agree, for every file on every plan.     *)
LEMMA SearchesAgree ==
    ASSUME PlanOK(plan), NEW file \in FileType, NEW wanted \in Nat
    PROVE  LET est == FitPlaced(plan, file, wanted)
               runs == Fitting(file, wanted)
           IN  /\ FitsOnDevice(est) => runs = Tried(file, wanted)
               /\ est.category = "reduced_context_only" => Longest(runs) = est.suggested
               /\ est.category \in {"needs_cpu_offload", "not_recommended"} => runs = {}
<1> DEFINE e == EffectiveContext(file, wanted)
           est == FitPlaced(plan, file, wanted)
           runs == Fitting(file, wanted)
           shorter == ShorterThatFit(plan, file, e)
           ok == HostOK(plan, file)
           whole == DeviceBytes(plan, file, e) <= FitLimit(plan)
<1>1. est = Categorise(plan, file, e)
  BY DEF FitPlaced
<1>2. CASE ~plan.known
  <2>1. est.category = "unknown"
    BY <1>1, <1>2 DEF Categorise, Estimate
  <2> QED
    BY <2>1 DEF FitsOnDevice
<1>3. CASE plan.known
  <2>0. /\ e \in Nat /\ runs \subseteq Tried(file, wanted)
        /\ Tried(file, wanted) \subseteq Nat
        /\ HeadLimit(plan) \in Nat /\ FitLimit(plan) \in Nat
        /\ HeadLimit(plan) <= FitLimit(plan) /\ DeviceBytes(plan, file, e) \in Nat
    BY <1>3, TriedFits, Terms, Limits DEF Fitting
  <2>1. CASE ok /\ whole
    <3>1. FitsOnDevice(est)
      BY <1>1, <1>3, <2>0, <2>1, FitsIff
    <3>2. ASSUME NEW c \in Tried(file, wanted) PROVE c \in runs
      <4>1. c \in Nat /\ c <= e
        BY <1>3, <2>0, TriedFits DEF Tried
      <4>2. DeviceBytes(plan, file, c) <= DeviceBytes(plan, file, e)
        BY <4>1, <2>0, LongerNeedsMore
      <4>3. DeviceBytes(plan, file, c) \in Nat
        BY <4>1, Terms
      <4>4. DeviceBytes(plan, file, c) <= FitLimit(plan)
        BY <2>0, <2>1, <4>2, <4>3
      <4> QED
        BY <1>3, <2>1, <4>4, TriedFits
    <3> QED
      BY <2>0, <3>1, <3>2 DEF FitsOnDevice
  <2>2. CASE ~(ok /\ whole)
    <3>1. ~FitsOnDevice(est)
      BY <1>1, <1>3, <2>0, <2>2, FitsIff
    <3>2. ok => runs = shorter
      BY <1>3, <2>2, ShorterIsFitting
    <3>3. ~ok => runs = {}
      BY <1>3, <2>0, TriedFits
    <3>4. CASE ok /\ shorter # {}
      <4>1. est = Whole(plan, file, e, "reduced_context_only", Longest(shorter))
        BY <1>1, <1>3, <2>0, <2>2, <3>4 DEF Categorise
      <4>2. est.category = "reduced_context_only" /\ est.suggested = Longest(shorter)
        BY <4>1, <2>0, WholeIs
      <4> QED
        BY <3>1, <3>2, <3>4, <4>2
    <3>5. CASE ~(ok /\ shorter # {})
      <4>1. est = Whole(plan, file, e, "not_recommended", 0) \/ est = Split(plan, file, e)
        BY <1>1, <1>3, <2>0, <2>2, <3>5 DEF Categorise
      <4>2. est.category \in {"needs_cpu_offload", "not_recommended"}
        BY <4>1 DEF Whole, Split, Estimate
      <4> QED
        BY <3>1, <3>2, <3>3, <3>5, <4>2
    <3> QED
      BY <3>4, <3>5
  <2> QED
    BY <2>1, <2>2
<1> QED
  BY <1>2, <1>3

(* The fit screen (categorise, from the context asked for downwards) and   *)
(* the engine (consider, through the whole ladder) find the same context   *)
(* for every file, whatever the machine.                                   *)
THEOREM SuggestionsAlwaysAgree == Spec => []SuggestionsAgree
<1>1. Given => SuggestionsAgree
  <2> SUFFICES ASSUME Given, NEW file \in Files, NEW wanted \in Contexts
               PROVE  LET est == FitPlaced(plan, file, wanted)
                          runs == Fitting(file, wanted)
                      IN  /\ FitsOnDevice(est) => runs = Tried(file, wanted)
                          /\ est.category = "reduced_context_only" => Longest(runs) = est.suggested
                          /\ est.category \in {"needs_cpu_offload", "not_recommended"} => runs = {}
    BY DEF SuggestionsAgree
  <2>1. PlanOK(plan)
    BY PlaceIsOK DEF plan, Given
  <2>2. wanted \in Nat /\ file \in FileType
    BY LadderAssumption DEF Contexts, Given
  <2> QED
    BY <2>1, <2>2, SearchesAgree
<1> QED
  BY <1>1, GivenStays, PTL
-----------------------------------------------------------------------------
(* Two placements that differ only in how much room there is.              *)
Roomier(pl, big) ==
    /\ PlanOK(pl) /\ PlanOK(big)
    /\ big.path = pl.path /\ big.kind = pl.kind
    /\ big.known = pl.known /\ big.systemKnown = pl.systemKnown
    /\ pl.budget <= big.budget /\ pl.system <= big.system

LEMMA QuotientGrows ==
    ASSUME NEW a \in Nat, NEW b \in Nat, NEW p \in Nat \ {0}, a <= b
    PROVE  a \div p <= b \div p
  OBVIOUS

LEMMA RoomierLimits ==
    ASSUME NEW pl, NEW big, Roomier(pl, big)
    PROVE  HeadLimit(pl) <= HeadLimit(big) /\ FitLimit(pl) <= FitLimit(big)
<1>1. /\ pl.budget \in Nat /\ big.budget \in Nat /\ pl.budget <= big.budget
      /\ HeadroomPercent \in Nat /\ FitsPercent \in Nat
  BY LimitAssumption DEF Roomier, PlanOK
<1>2. /\ pl.budget * HeadroomPercent \in Nat /\ big.budget * HeadroomPercent \in Nat
      /\ pl.budget * HeadroomPercent <= big.budget * HeadroomPercent
  BY <1>1, Products
<1>3. /\ pl.budget * FitsPercent \in Nat /\ big.budget * FitsPercent \in Nat
      /\ pl.budget * FitsPercent <= big.budget * FitsPercent
  BY <1>1, Products
<1> QED
  BY <1>2, <1>3, QuotientGrows DEF HeadLimit, FitLimit

(* A file needs the same of both.                                          *)
LEMMA RoomierNeeds ==
    ASSUME NEW pl, NEW big, Roomier(pl, big), NEW file \in FileType, NEW ctx
    PROVE  /\ OnDevice(big) = OnDevice(pl) /\ HostOnly(big, file) = HostOnly(pl, file)
           /\ Total(big, file, ctx) = Total(pl, file, ctx)
           /\ DeviceBytes(big, file, ctx) = DeviceBytes(pl, file, ctx)
           /\ FixedBytes(big, file) = FixedBytes(pl, file)
           /\ PerLayer(big, file, ctx) = PerLayer(pl, file, ctx)
           /\ HostOK(pl, file) => HostOK(big, file)
<1>1. HostOnly(big, file) = HostOnly(pl, file) /\ HostOnly(pl, file) \in Nat
      /\ OnDevice(big) = OnDevice(pl)
  BY HostShare DEF HostOnly, OnDevice, Roomier
<1>2. HostOK(pl, file) => HostOK(big, file)
  BY <1>1 DEF HostOK, Roomier, PlanOK
<1> QED
  BY <1>1, <1>2 DEF Total, DeviceBytes, FixedBytes, PerLayer, Roomier

(* More layers go to the graphics, and more is left for the rest.          *)
LEMMA RoomierSplits ==
    ASSUME NEW pl, NEW big, Roomier(pl, big), NEW file \in FileType, NEW ctx \in Nat,
           Split(pl, file, ctx).category = "needs_cpu_offload"
    PROVE  Split(big, file, ctx).category = "needs_cpu_offload"
<1> DEFINE fixed == FixedBytes(pl, file)
           per == PerLayer(pl, file, ctx)
           on == LayersOn(pl, file, ctx)
           more == LayersOn(big, file, ctx)
<1>1. /\ fixed \in Nat /\ FixedBytes(big, file) = fixed /\ PerLayer(big, file, ctx) = per
      /\ Total(pl, file, ctx) \in Nat /\ Total(big, file, ctx) = Total(pl, file, ctx)
  BY Terms, RoomierNeeds DEF Roomier
<1>2. FitLimit(pl) \in Nat /\ FitLimit(big) \in Nat /\ FitLimit(pl) <= FitLimit(big)
  BY Limits, RoomierLimits DEF Roomier
<1>3. on \in 0..file.layers /\ more \in 0..file.layers
      /\ SplitDevice(pl, file, ctx) \in Nat /\ SplitDevice(big, file, ctx) \in Nat
  BY SplitFits DEF Roomier
<1>4. on # 0 /\ ~(pl.systemKnown /\ HostNeed(pl, file, ctx) > pl.system)
  BY DEF Split, Estimate
<1>5. FitLimit(pl) > fixed /\ per > 0
  BY <1>4 DEF LayersOn
<1>6. per \in Nat \ {0}
  <2>1. file.bytes - HostOnly(pl, file) + KVBytes(file, ctx) \in Nat /\ file.layers \in Nat
    BY Terms DEF FileType, Roomier
  <2>2. per \in Nat
    BY <2>1, Division DEF PerLayer
  <2> QED
    BY <1>5, <2>2
<1> HIDE DEF fixed, per
<1>7. on <= more
  <2> DEFINE a == (FitLimit(pl) - fixed) \div per
             b == (FitLimit(big) - fixed) \div per
  <2>1. FitLimit(pl) - fixed \in Nat /\ FitLimit(big) - fixed \in Nat
        /\ FitLimit(pl) - fixed <= FitLimit(big) - fixed
    BY <1>1, <1>2, <1>5
  <2>2. a \in Nat /\ b \in Nat /\ a <= b
    BY <2>1, <1>6, QuotientGrows, Division
  <2>3. on = Least(file.layers, a) /\ more = Least(file.layers, b)
    BY <1>1, <1>2, <1>5 DEF LayersOn, fixed, per
  <2>4. file.layers \in Nat
    BY DEF FileType
  <2> HIDE DEF a, b
  <2> QED
    BY <2>2, <2>3, <2>4 DEF Least
<1> HIDE DEF on, more
<1>8. SplitDevice(pl, file, ctx) = fixed + on * per
      /\ SplitDevice(big, file, ctx) = fixed + more * per
  BY <1>1, <1>3, <1>4, <1>7 DEF SplitDevice, fixed, per, on, more
<1>9. SplitDevice(pl, file, ctx) <= SplitDevice(big, file, ctx)
  <2>1. on \in Nat /\ more \in Nat
    BY <1>3
  <2>2. on * per \in Nat /\ more * per \in Nat /\ on * per <= more * per
    BY <2>1, <1>6, <1>7, Products
  <2> QED
    BY <1>1, <1>8, <2>2
<1>10. ~(big.systemKnown /\ HostNeed(big, file, ctx) > big.system)
  BY <1>1, <1>3, <1>4, <1>9 DEF HostNeed, Roomier, PlanOK
<1>11. more # 0
  BY <1>3, <1>4, <1>7
<1> QED
  BY <1>10, <1>11 DEF Split, Estimate, more

NoWorse(before, after) ==
    \/ Grade(after) > Grade(before)
    \/ Grade(after) = Grade(before) /\ after.suggested >= before.suggested

LEMMA RoomierIsNoWorse ==
    ASSUME NEW pl, NEW big, Roomier(pl, big), NEW file \in FileType, NEW ctx \in Nat
    PROVE  NoWorse(Categorise(pl, file, ctx), Categorise(big, file, ctx))
<1> DEFINE need == DeviceBytes(pl, file, ctx)
           ok == HostOK(pl, file)
           shorter == ShorterThatFit(pl, file, ctx)
           wider == ShorterThatFit(big, file, ctx)
           before == Categorise(pl, file, ctx)
           after == Categorise(big, file, ctx)
<1>1. /\ need \in Nat /\ DeviceBytes(big, file, ctx) = need
      /\ HeadLimit(pl) \in Nat /\ FitLimit(pl) \in Nat /\ HeadLimit(pl) <= FitLimit(pl)
      /\ HeadLimit(big) \in Nat /\ FitLimit(big) \in Nat /\ HeadLimit(big) <= FitLimit(big)
      /\ HeadLimit(pl) <= HeadLimit(big) /\ FitLimit(pl) <= FitLimit(big)
      /\ ok => HostOK(big, file)
      /\ OnDevice(big) = OnDevice(pl) /\ big.known = pl.known /\ pl.known \in BOOLEAN
  BY Terms, Limits, RoomierLimits, RoomierNeeds DEF Roomier, PlanOK
<1>2. shorter \subseteq wider
  <2> SUFFICES ASSUME NEW c \in shorter PROVE c \in wider
    OBVIOUS
  <2>1. c \in Contexts /\ MinUsefulContext <= c /\ c < ctx /\ DeviceBytes(pl, file, c) <= FitLimit(pl)
    BY DEF ShorterThatFit
  <2>2. c \in Nat
    BY <2>1, LadderAssumption DEF Contexts
  <2>3. DeviceBytes(pl, file, c) \in Nat /\ DeviceBytes(big, file, c) = DeviceBytes(pl, file, c)
    BY <2>2, Terms, RoomierNeeds DEF Roomier
  <2> QED
    BY <2>1, <2>3, <1>1 DEF ShorterThatFit
<1>3. \A p : \A suggested : \A c : Whole(p, file, ctx, c, suggested).category = c
                                   /\ Whole(p, file, ctx, c, suggested).suggested = suggested
  BY DEF Whole, Estimate
<1>4. \A p : /\ Split(p, file, ctx).category \in {"not_recommended", "needs_cpu_offload"}
             /\ Split(p, file, ctx).suggested = 0
  BY DEF Split, Estimate
<1>5. wider # {} => Longest(wider) \in Nat /\ (shorter # {} => Longest(shorter) <= Longest(wider)
                                                               /\ Longest(shorter) \in Nat)
  <2> SUFFICES ASSUME wider # {}
               PROVE  Longest(wider) \in Nat
                      /\ (shorter # {} => Longest(shorter) <= Longest(wider) /\ Longest(shorter) \in Nat)
    OBVIOUS
  <2>1. Longest(wider) \in Nat /\ \A d \in wider : d <= Longest(wider)
    BY LongestShorter
  <2>2. shorter # {} => Longest(shorter) \in shorter /\ Longest(shorter) \in Nat
    BY LongestShorter
  <2> QED
    BY <2>1, <2>2, <1>2
<1> HIDE DEF need, ok, shorter, wider
<1>6. CASE ~pl.known
  <2>1. before.category = "unknown" /\ before.suggested = 0 /\ after.category = "unknown" /\ after.suggested = 0
    BY <1>1, <1>6 DEF Categorise, Estimate
  <2> QED
    BY <2>1 DEF NoWorse, Grade
<1>7. CASE pl.known /\ ok /\ need <= HeadLimit(pl)
  <2>1. before = Whole(pl, file, ctx, "fits_with_headroom", 0)
    BY <1>7 DEF Categorise, need, ok
  <2>2. after = Whole(big, file, ctx, "fits_with_headroom", 0)
    BY <1>1, <1>7 DEF Categorise
  <2> QED
    BY <2>1, <2>2, <1>3 DEF NoWorse, Grade
<1>8. CASE pl.known /\ ok /\ ~(need <= HeadLimit(pl)) /\ need <= FitLimit(pl)
  <2>1. before = Whole(pl, file, ctx, "fits", 0)
    BY <1>8 DEF Categorise, need, ok
  <2>2. after \in {Whole(big, file, ctx, "fits_with_headroom", 0), Whole(big, file, ctx, "fits", 0)}
    BY <1>1, <1>8 DEF Categorise
  <2> QED
    BY <2>1, <2>2, <1>3 DEF NoWorse, Grade
<1>9. CASE pl.known /\ ok /\ ~(need <= FitLimit(pl)) /\ shorter # {}
  <2>1. before = Whole(pl, file, ctx, "reduced_context_only", Longest(shorter))
    BY <1>1, <1>9 DEF Categorise, need, ok, shorter
  <2>2. after \in {Whole(big, file, ctx, "fits_with_headroom", 0), Whole(big, file, ctx, "fits", 0),
                   Whole(big, file, ctx, "reduced_context_only", Longest(wider))}
    BY <1>1, <1>2, <1>9 DEF Categorise, wider
  <2>3. wider # {}
    BY <1>2, <1>9
  <2>4. before.category = "reduced_context_only" /\ before.suggested = Longest(shorter)
    BY <2>1, <1>3
  <2>5. CASE after.category \in {"fits_with_headroom", "fits"}
    BY <2>4, <2>5 DEF NoWorse, Grade
  <2>6. CASE after = Whole(big, file, ctx, "reduced_context_only", Longest(wider))
    <3>1. after.category = "reduced_context_only" /\ after.suggested = Longest(wider)
      BY <2>6, <1>3
    <3>2. after.suggested >= before.suggested
      BY <2>3, <2>4, <3>1, <1>5, <1>9
    <3> QED
      BY <2>4, <3>1, <3>2 DEF NoWorse, Grade
  <2> QED
    BY <2>2, <2>5, <2>6, <1>3
<1>10. CASE pl.known /\ ~(ok /\ need <= FitLimit(pl)) /\ ~(ok /\ shorter # {})
  <2>1. before = IF ~OnDevice(pl) THEN Whole(pl, file, ctx, "not_recommended", 0) ELSE Split(pl, file, ctx)
    BY <1>1, <1>10 DEF Categorise, need, ok, shorter
  <2>2. before.category \in {"not_recommended", "needs_cpu_offload"} /\ before.suggested = 0
        /\ (before.category = "needs_cpu_offload" => OnDevice(pl) /\ Split(pl, file, ctx).category = "needs_cpu_offload")
    BY <2>1, <1>3, <1>4
  <2>3. after \in {Whole(big, file, ctx, "fits_with_headroom", 0), Whole(big, file, ctx, "fits", 0),
                   Whole(big, file, ctx, "reduced_context_only", Longest(wider)),
                   IF ~OnDevice(big) THEN Whole(big, file, ctx, "not_recommended", 0) ELSE Split(big, file, ctx)}
    BY <1>1, <1>10 DEF Categorise, wider
  <2>4. CASE after.category \in {"fits_with_headroom", "fits", "reduced_context_only"}
    BY <2>2, <2>4 DEF NoWorse, Grade
  <2>5. CASE after = IF ~OnDevice(big) THEN Whole(big, file, ctx, "not_recommended", 0) ELSE Split(big, file, ctx)
    <3>1. after.category \in {"not_recommended", "needs_cpu_offload"} /\ after.suggested = 0
      BY <2>5, <1>3, <1>4
    <3>2. before.category = "needs_cpu_offload" => after.category = "needs_cpu_offload"
      BY <2>2, <2>5, <1>1, RoomierSplits
    <3> QED
      BY <2>2, <3>1, <3>2 DEF NoWorse, Grade
  <2> QED
    BY <2>3, <2>4, <2>5, <1>3
<1> QED
  BY <1>1, <1>6, <1>7, <1>8, <1>9, <1>10

(* A machine with more memory of any kind is placed alike, with more room. *)
LEMMA MoreMemoryIsRoomier ==
    ASSUME machine \in MachineType, NEW big \in MachineType, MoreMemory(big)
    PROVE  Roomier(plan, Place(big))
<1>1. /\ big.ramKnown = machine.ramKnown /\ big.unified = machine.unified
      /\ big.wiredKnown = machine.wiredKnown /\ big.actual = machine.actual
      /\ big.ram >= machine.ram /\ big.wired >= machine.wired
      /\ machine.ram \in Nat /\ big.ram \in Nat /\ machine.wired \in Nat /\ big.wired \in Nat
      /\ machine.gpus \in Seq(GPUs) /\ big.gpus \in Seq(GPUs)
  BY DEF MoreMemory, MachineType
<1>2. DOMAIN big.gpus = DOMAIN machine.gpus /\ HasGPU(big) = HasGPU(machine)
  BY <1>1 DEF MoreMemory, HasGPU
<1>3. ASSUME NEW i \in DOMAIN machine.gpus
      PROVE  /\ machine.gpus[i] \in GPUs /\ big.gpus[i] \in GPUs
             /\ big.gpus[i].vram >= machine.gpus[i].vram
             /\ big.gpus[i].apple = machine.gpus[i].apple
             /\ big.gpus[i].integrated = machine.gpus[i].integrated
             /\ big.gpus[i].integratedKnown = machine.gpus[i].integratedKnown
             /\ big.gpus[i].vramKnown = machine.gpus[i].vramKnown
             /\ big.gpus[i].backend = machine.gpus[i].backend
  <2>1. machine.gpus = [k \in DOMAIN big.gpus |-> [big.gpus[k] EXCEPT !.vram = machine.gpus[k].vram]]
    BY DEF MoreMemory, MachineType
  <2>2. machine.gpus[i] = [big.gpus[i] EXCEPT !.vram = machine.gpus[i].vram]
    BY <2>1, <1>2
  <2>3. machine.gpus[i] \in GPUs /\ big.gpus[i] \in GPUs
    BY <1>1, <1>2
  <2> QED
    BY <2>2, <2>3 DEF GPUs, MoreMemory
<1>4. Counting(big) = Counting(machine)
  BY <1>2, <1>3 DEF Counting, HasOwnMemory
<1>5. Counting(machine) # {} => /\ Largest(big).vramKnown = Largest(machine).vramKnown
                                /\ Largest(big).vram >= Largest(machine).vram
                                /\ Largest(machine).vram \in Nat /\ Largest(big).vram \in Nat
  <2> SUFFICES ASSUME Counting(machine) # {}
               PROVE  /\ Largest(big).vramKnown = Largest(machine).vramKnown
                      /\ Largest(big).vram >= Largest(machine).vram
                      /\ Largest(machine).vram \in Nat /\ Largest(big).vram \in Nat
    OBVIOUS
  <2> DEFINE i == CHOOSE k \in Counting(machine) : \A j \in Counting(machine) : k <= j
  <2>1. Counting(machine) \subseteq DOMAIN machine.gpus /\ DOMAIN machine.gpus \subseteq Nat
    BY <1>1 DEF Counting
  <2>2. i \in DOMAIN machine.gpus
    BY <2>1, SmallestIsOne
  <2>3. Largest(machine) = machine.gpus[i] /\ Largest(big) = big.gpus[i]
    BY <1>4 DEF Largest
  <2> HIDE DEF i
  <2> QED
    BY <2>2, <2>3, <1>3 DEF GPUs
<1>6. /\ UsableKnown(big) = UsableKnown(machine) /\ Usable(machine) <= Usable(big)
      /\ SystemBytes(machine) <= SystemBytes(big)
  BY <1>1, <1>4, <1>5, ReserveAssumption DEF UsableKnown, Usable, SystemBytes
<1>7. PlanOK(plan) /\ PlanOK(Place(big))
  BY PlaceIsOK DEF plan
<1> DEFINE Alike(p, q) == /\ q.path = p.path /\ q.kind = p.kind
                          /\ q.known = p.known /\ q.systemKnown = p.systemKnown
                          /\ p.budget <= q.budget /\ p.system <= q.system
<1>8. \A s, t, u, v : Alike(OnProcessor(machine, s, t), OnProcessor(big, u, v))
  BY <1>1, <1>6 DEF OnProcessor
<1>9. ASSUME HasGPU(machine), NEW path, NEW s
      PROVE  Alike(OnGraphics(machine, path, s), OnGraphics(big, path, s))
  <2>1. 1 \in DOMAIN machine.gpus
    BY <1>1, <1>9 DEF HasGPU
  <2>2. /\ big.gpus[1].apple = machine.gpus[1].apple
        /\ big.gpus[1].integrated = machine.gpus[1].integrated
        /\ big.gpus[1].backend = machine.gpus[1].backend
    BY <2>1, <1>3
  <2>3. Alike([OnProcessor(machine, "expected", "memory_unknown") EXCEPT !.device = TRUE],
              [OnProcessor(big, "expected", "memory_unknown") EXCEPT !.device = TRUE])
    BY <1>1, <1>6 DEF OnProcessor
  <2>4. UsableKnown(machine) => 0 <= Usable(machine)
    BY UsableIsBytes
  <2> QED
    BY <2>2, <2>3, <1>1, <1>6 DEF OnGraphics
<1>10. HasGPU(machine) => big.gpus[1].backend = machine.gpus[1].backend
  BY <1>1, <1>3 DEF HasGPU
<1> HIDE DEF Alike
<1>11. Alike(plan, Place(big))
  BY <1>1, <1>2, <1>8, <1>9, <1>10 DEF plan, Place
<1> QED
  BY <1>7, <1>11 DEF Roomier, Alike

(* With more memory of any kind no file gets a worse category, and none a  *)
(* shorter context instead: for every machine, ladder and limit, although  *)
(* whole layers are divided and rounded on the way.                        *)
THEOREM MoreMemoryIsNeverWorse == Spec => []MoreMemoryNeverWorse
<1>1. Given => MoreMemoryNeverWorse
  <2> SUFFICES ASSUME Given, NEW big \in Machines, MoreMemory(big), NEW file \in Files, NEW numCtx \in Contexts
               PROVE  NoWorse(FitPlaced(plan, file, numCtx), FitPlaced(Place(big), file, numCtx))
    BY DEF MoreMemoryNeverWorse, NoWorse
  <2>1. Roomier(plan, Place(big))
    BY MachinesAssumption, MoreMemoryIsRoomier DEF Given
  <2>2. numCtx \in Nat /\ file \in FileType
    BY LadderAssumption DEF Contexts, Given
  <2>3. EffectiveContext(file, numCtx) \in Nat
    BY <2>2 DEF EffectiveContext, Least, FileType
  <2> QED
    BY <2>1, <2>2, <2>3, RoomierIsNoWorse DEF FitPlaced
<1> QED
  BY <1>1, GivenStays, PTL
-----------------------------------------------------------------------------
(* Every set of natural numbers but the empty one has a least.             *)
LEMMA LeastNatural ==
    ASSUME NEW S, S \subseteq Nat, S # {}
    PROVE  \E n \in S : \A k \in S : n <= k
<1>1. PICK x \in S : \A y \in S : ~(<<y, x>> \in OpToRel(<, Nat))
  BY NatLessThanWellFounded, WFMin
<1>2. \A y \in S : x <= y
  <2> SUFFICES ASSUME NEW y \in S, y < x PROVE FALSE
    OBVIOUS
  <2>1. <<y, x>> \in Nat \X Nat
    OBVIOUS
  <2> QED
    BY <1>1, <2>1 DEF OpToRel
<1> QED
  BY <1>2

(* Finite sets, if there are any, have a smallest one among them.          *)
LEMMA SmallestSet ==
    ASSUME NEW C, C # {}, \A s \in C : IsFiniteSet(s)
    PROVE  \E s \in C : \A t \in C : Cardinality(s) <= Cardinality(t)
<1> DEFINE sizes == {Cardinality(s) : s \in C}
<1>1. sizes \subseteq Nat /\ sizes # {}
  BY FS_CardinalityType
<1>2. PICK n \in sizes : \A k \in sizes : n <= k
  <2> HIDE DEF sizes
  <2> QED
    BY <1>1, LeastNatural
<1>3. PICK s \in C : n = Cardinality(s)
  BY <1>2
<1> QED
  BY <1>2, <1>3

(* A finite set of natural numbers, not empty, has a largest.              *)
LEMMA MostIsOne ==
    ASSUME NEW S, S \subseteq Nat, S # {}, IsFiniteSet(S)
    PROVE  Max(S) \in S /\ \A n \in S : n <= Max(S)
<1> DEFINE HasMost(T) == \E m \in T : \A n \in T : n <= m
           C == {T \in SUBSET S : T # {} /\ ~HasMost(T)}
<1>1. C = {}
  <2> SUFFICES ASSUME C # {} PROVE FALSE
    OBVIOUS
  <2>1. \A T \in C : IsFiniteSet(T)
    BY FS_Subset
  <2>2. PICK T \in C : \A U \in C : Cardinality(T) <= Cardinality(U)
    <3> HIDE DEF C
    <3> QED
      BY <2>1, SmallestSet
  <2>3. PICK x \in T : TRUE
    BY <2>2
  <2>4. Cardinality(T \ {x}) < Cardinality(T)
    <3>1. Cardinality(T \ {x}) = Cardinality(T) - 1 /\ Cardinality(T) \in Nat
      BY <2>1, <2>2, <2>3, FS_RemoveElement, FS_CardinalityType
    <3> QED
      BY <3>1
  <2>5. T \ {x} \notin C
    <3>1. IsFiniteSet(T \ {x}) /\ IsFiniteSet(T)
      BY <2>1, <2>2, FS_Subset
    <3>2. Cardinality(T \ {x}) \in Nat /\ Cardinality(T) \in Nat
      BY <3>1, FS_CardinalityType
    <3> HIDE DEF C
    <3> QED
      BY <2>2, <2>4, <3>2
  <2>6. CASE T \ {x} = {}
    BY <2>2, <2>3, <2>6
  <2>7. CASE T \ {x} # {}
    <3>1. PICK m \in T \ {x} : \A n \in T \ {x} : n <= m
      BY <2>2, <2>5, <2>7
    <3>2. x \in Nat /\ m \in Nat /\ T \subseteq Nat
      BY <2>2, <2>3, <3>1
    <3>3. HasMost(T)
      <4>1. CASE m <= x
        BY <2>3, <3>1, <3>2, <4>1
      <4>2. CASE x <= m
        BY <2>3, <3>1, <3>2, <4>2
      <4> QED
        BY <3>2, <4>1, <4>2
    <3> QED
      BY <2>2, <3>3
  <2> QED
    BY <2>6, <2>7
<1>2. PICK m \in S : \A n \in S : n <= m
  BY <1>1
<1>3. \A n \in S : m >= n
  BY <1>2
<1>4. Max(S) \in S /\ \A n \in S : Max(S) >= n
  BY <1>3 DEF Max
<1> QED
  BY <1>4

-----------------------------------------------------------------------------
(* A fold chooses the function that its recursion over the subsets of a    *)
(* finite set defines.  That there is one: it is built on the subsets of   *)
(* one element more at a time.                                             *)
UpTo(S, n) == {s \in SUBSET S : Cardinality(s) <= n}
Recurs(h, base, pick, step, D) ==
    \A s \in D : h[s] = IF s = {} THEN base ELSE step[<<s, h[s \ {pick[s]}]>>]

(* Taking an element out of a subset leaves a smaller one.                 *)
LEMMA SmallerSubset ==
    ASSUME NEW S, IsFiniteSet(S), NEW n \in Nat, NEW s \in SUBSET S, NEW x \in s
    PROVE  /\ Cardinality(s) \in Nat /\ Cardinality(s \ {x}) = Cardinality(s) - 1
           /\ s \ {x} \in SUBSET S
           /\ Cardinality(s) <= n + 1 => s \ {x} \in UpTo(S, n)
<1>1. IsFiniteSet(s)
  BY FS_Subset
<1>2. Cardinality(s) \in Nat /\ Cardinality(s \ {x}) = Cardinality(s) - 1
  BY <1>1, FS_CardinalityType, FS_RemoveElement
<1> QED
  BY <1>2 DEF UpTo

(* The function that a recursion over subsets defines exists.              *)
LEMMA RecursionExists ==
    ASSUME NEW S, IsFiniteSet(S), NEW V, NEW base \in V,
           NEW pick, \A s \in SUBSET S : s # {} => pick[s] \in s,
           NEW step \in [(SUBSET S) \X V -> V]
    PROVE  \E h \in [SUBSET S -> V] : Recurs(h, base, pick, step, SUBSET S)
<1> DEFINE Has(n) == \E h \in [UpTo(S, n) -> V] : Recurs(h, base, pick, step, UpTo(S, n))
           Wrong == {n \in Nat : ~Has(n)}
<1>1. Wrong = {}
  <2> SUFFICES ASSUME Wrong # {} PROVE FALSE
    OBVIOUS
  <2>1. PICK n \in Wrong : \A k \in Wrong : n <= k
    <3>1. Wrong \subseteq Nat
      OBVIOUS
    <3> HIDE DEF Wrong
    <3> QED
      BY <3>1, LeastNatural
  <2>2. CASE n = 0
    <3>1. UpTo(S, 0) = {{}}
      <4>1. \A s \in SUBSET S : Cardinality(s) \in Nat /\ (Cardinality(s) = 0 <=> s = {})
        BY FS_Subset, FS_EmptySet, FS_CardinalityType
      <4> QED
        BY <4>1, FS_EmptySet DEF UpTo
    <3> DEFINE g == [s \in {{}} |-> base]
    <3>2. Recurs(g, base, pick, step, {{}}) /\ g \in [{{}} -> V]
      BY DEF Recurs
    <3> HIDE DEF g
    <3>3. \E h \in [{{}} -> V] : Recurs(h, base, pick, step, {{}})
      BY <3>2
    <3>4. UpTo(S, n) = {{}}
      BY <2>2, <3>1
    <3>5. Has(n)
      BY <3>3, <3>4
    <3> QED
      BY <2>1, <3>5
  <2>3. CASE n # 0
    <3>1. n - 1 \in Nat /\ n - 1 \notin Wrong /\ n = (n - 1) + 1
      BY <2>1, <2>3
    <3>2. PICK h \in [UpTo(S, n - 1) -> V] : Recurs(h, base, pick, step, UpTo(S, n - 1))
      BY <3>1
    <3> DEFINE g == [s \in UpTo(S, n) |-> IF s = {} THEN base ELSE step[<<s, h[s \ {pick[s]}]>>]]
    <3>3. ASSUME NEW s \in UpTo(S, n), s # {}
          PROVE  g[s \ {pick[s]}] = h[s \ {pick[s]}] /\ h[s \ {pick[s]}] \in V
      <4>1. s \in SUBSET S /\ pick[s] \in s
        BY <3>3 DEF UpTo
      <4>2. s \ {pick[s]} \in UpTo(S, n - 1)
        BY <3>1, <4>1, SmallerSubset DEF UpTo
      <4> DEFINE t == s \ {pick[s]}
      <4>3. t \in UpTo(S, n)
        BY <3>1, <4>1, <4>2, SmallerSubset DEF UpTo
      <4> HIDE DEF t
      <4>4. h[t] = IF t = {} THEN base ELSE step[<<t, h[t \ {pick[t]}]>>]
        BY <3>2, <4>2 DEF Recurs, t
      <4>5. g[t] = h[t]
        BY <4>3, <4>4
      <4> QED
        BY <3>2, <4>2, <4>5 DEF t
    <3>4. Recurs(g, base, pick, step, UpTo(S, n))
      BY <3>3 DEF Recurs
    <3>5. g \in [UpTo(S, n) -> V]
      <4>1. ASSUME NEW s \in UpTo(S, n), s # {} PROVE step[<<s, h[s \ {pick[s]}]>>] \in V
        <5>1. <<s, h[s \ {pick[s]}]>> \in (SUBSET S) \X V
          BY <3>3, <4>1 DEF UpTo
        <5> QED
          BY <5>1
      <4> QED
        BY <4>1
    <3> HIDE DEF g
    <3> QED
      BY <2>1, <3>4, <3>5
  <2> QED
    BY <2>2, <2>3
<1>2. Cardinality(S) \in Nat /\ UpTo(S, Cardinality(S)) = SUBSET S
  BY FS_Subset, FS_CardinalityType DEF UpTo
<1>3. Has(Cardinality(S))
  BY <1>1, <1>2
<1> QED
  BY <1>2, <1>3

(* The sums that SumFunctionOnSet's fold chooses the function of.          *)
Picked(s) == CHOOSE x \in s : TRUE
SumsOn(h, f, D) == h = [s \in D |-> IF s = {} THEN 0 ELSE f[Picked(s)] + h[s \ {Picked(s)}]]

(* The sum over the subsets, as SumFunctionOnSet's fold adds it up, exists. *)
LEMMA SumExists ==
    ASSUME NEW S, IsFiniteSet(S), NEW f, \A x \in S : f[x] \in Nat
    PROVE  \E h : SumsOn(h, f, SUBSET S)
<1> DEFINE pick == [s \in SUBSET S |-> Picked(s)]
           step == [sv \in (SUBSET S) \X Nat |->
                       IF sv[1] = {} THEN 0 ELSE f[Picked(sv[1])] + sv[2]]
<1>1. \A s \in SUBSET S : s # {} => Picked(s) \in s
  BY DEF Picked
<1>2. step \in [(SUBSET S) \X Nat -> Nat]
  <2>1. ASSUME NEW sv \in (SUBSET S) \X Nat PROVE step[sv] \in Nat
    BY <1>1
  <2> QED
    BY <2>1
<1>3. \A s \in SUBSET S : s # {} => pick[s] \in s
  BY <1>1
<1> HIDE DEF pick, step
<1>4. PICK h \in [SUBSET S -> Nat] : Recurs(h, 0, pick, step, SUBSET S)
  BY <1>2, <1>3, RecursionExists
<1>5. ASSUME NEW s \in SUBSET S, s # {}
      PROVE  h[s] = f[Picked(s)] + h[s \ {Picked(s)}]
  <2>1. h[s] = step[<<s, h[s \ {Picked(s)}]>>]
    BY <1>4, <1>5 DEF Recurs, pick
  <2>2. h[s \ {Picked(s)}] \in Nat
    BY <1>4
  <2> QED
    BY <1>5, <2>1, <2>2 DEF step
<1>6. h[{}] = 0
  BY <1>4 DEF Recurs
<1>7. SumsOn(h, f, SUBSET S)
  BY <1>4, <1>5, <1>6 DEF SumsOn
<1> QED
  BY <1>7

(* A sum of natural numbers is one, and more than 0 if one of them is.     *)
LEMMA SumIsNatural ==
    ASSUME NEW S, IsFiniteSet(S), NEW f, \A x \in S : f[x] \in Nat
    PROVE  /\ SumFunctionOnSet(f, S) \in Nat
           /\ (\E x \in S : f[x] > 0) => SumFunctionOnSet(f, S) > 0
<1> DEFINE sum == CHOOSE h : SumsOn(h, f, SUBSET S)
           Wrong == {s \in SUBSET S : ~(/\ sum[s] \in Nat
                                        /\ (\E x \in s : f[x] > 0) => sum[s] > 0)}
<1>1. SumFunctionOnSet(f, S) = sum[S]
  BY DEF SumFunctionOnSet, FoldFunctionOnSet, MapThenFoldSet, SumsOn, Picked
<1>2. SumsOn(sum, f, SUBSET S)
  BY SumExists
<1> HIDE DEF sum
<1>3. \A s \in SUBSET S : sum[s] = IF s = {} THEN 0 ELSE f[Picked(s)] + sum[s \ {Picked(s)}]
  BY <1>2 DEF SumsOn
<1>4. Wrong = {}
  <2> SUFFICES ASSUME Wrong # {} PROVE FALSE
    OBVIOUS
  <2>1. PICK s \in Wrong : \A t \in Wrong : Cardinality(s) <= Cardinality(t)
    <3>1. \A t \in Wrong : IsFiniteSet(t)
      BY FS_Subset
    <3> HIDE DEF Wrong
    <3> QED
      BY <3>1, SmallestSet
  <2>2. s # {}
    <3>1. sum[{}] = 0
      BY <1>3
    <3>2. {} \notin Wrong
      BY <3>1
    <3> QED
      BY <3>2
  <2>3. Picked(s) \in s
    BY <2>2 DEF Picked
  <2>4. s \ {Picked(s)} \notin Wrong
    <3>1. Cardinality(s \ {Picked(s)}) = Cardinality(s) - 1 /\ Cardinality(s) \in Nat
      BY <2>1, <2>3, SmallerSubset, 0 \in Nat
    <3> HIDE DEF Wrong
    <3> QED
      BY <2>1, <3>1
  <2> DEFINE t == s \ {Picked(s)}
  <2>5. t \in SUBSET S /\ f[Picked(s)] \in Nat
    BY <2>1, <2>3
  <2>6. sum[s] = f[Picked(s)] + sum[t]
    BY <1>3, <2>1, <2>2
  <2>7. sum[t] \in Nat /\ ((\E x \in t : f[x] > 0) => sum[t] > 0)
    BY <2>4, <2>5
  <2>8. \A x \in s : x # Picked(s) => x \in t
    OBVIOUS
  <2> HIDE DEF t
  <2>9. sum[s] \in Nat /\ ((\E x \in s : f[x] > 0) => sum[s] > 0)
    BY <2>5, <2>6, <2>7, <2>8
  <2> QED
    BY <2>1, <2>9
<1> QED
  BY <1>1, <1>4

-----------------------------------------------------------------------------
(* The ranking, when RanksBefore orders what was considered one before the *)
(* other: each candidate once, in that order.                              *)
InLine(C) ==
    /\ \A a \in C : ~RanksBefore(a, a)
    /\ \A a, b \in C : a # b => RanksBefore(a, b) \/ RanksBefore(b, a)
    /\ \A a, b, c \in C : RanksBefore(a, b) /\ RanksBefore(b, c) => RanksBefore(a, c)

(* Of two candidates, fewer are ahead of the one that ranks before.        *)
LEMMA AheadGrows ==
    ASSUME NEW C, IsFiniteSet(C), InLine(C), NEW a \in C, NEW b \in C, RanksBefore(a, b)
    PROVE  Cardinality(Ahead(C, a)) < Cardinality(Ahead(C, b))
<1>1. Ahead(C, a) \subseteq Ahead(C, b) /\ a \in Ahead(C, b) /\ a \notin Ahead(C, a)
  BY DEF InLine, Ahead
<1>2. IsFiniteSet(Ahead(C, b))
  BY FS_Subset DEF Ahead
<1>3. /\ Cardinality(Ahead(C, a)) <= Cardinality(Ahead(C, b))
      /\ Cardinality(Ahead(C, a)) # Cardinality(Ahead(C, b))
  BY <1>1, <1>2, FS_Subset
<1>4. Cardinality(Ahead(C, a)) \in Nat /\ Cardinality(Ahead(C, b)) \in Nat
  BY <1>1, <1>2, FS_Subset, FS_CardinalityType
<1> QED
  BY <1>3, <1>4

(* Counting those ahead puts every candidate at a place of its own, in order. *)
LEMMA RankingSorts ==
    ASSUME NEW C, IsFiniteSet(C), InLine(C)
    PROVE  /\ Cardinality(C) \in Nat
           /\ Ranking(C) \in [1..Cardinality(C) -> C]
           /\ \A i, j \in 1..Cardinality(C) : i < j => RanksBefore(Ranking(C)[i], Ranking(C)[j])
           /\ \A c \in C : \E i \in 1..Cardinality(C) : Ranking(C)[i] = c
<1> DEFINE n == Cardinality(C)
           place == [c \in C |-> Cardinality(Ahead(C, c)) + 1]
<1>1. n \in Nat
  BY FS_CardinalityType
<1>2. ASSUME NEW c \in C PROVE Cardinality(Ahead(C, c)) \in Nat /\ place[c] \in 1..n
  <2>1. Ahead(C, c) \subseteq C \ {c}
    BY DEF InLine, Ahead
  <2>2. IsFiniteSet(C \ {c}) /\ Cardinality(C \ {c}) = n - 1
    BY FS_RemoveElement
  <2>3. IsFiniteSet(Ahead(C, c)) /\ Cardinality(Ahead(C, c)) <= n - 1
    BY <2>1, <2>2, FS_Subset
  <2>4. Cardinality(Ahead(C, c)) \in Nat
    BY <2>3, FS_CardinalityType
  <2> QED
    BY <1>1, <2>3, <2>4
<1>3. \A a, b \in C : RanksBefore(a, b) => place[a] < place[b]
  BY <1>2, AheadGrows
<1>4. \A a, b \in C : place[a] = place[b] => a = b
  BY <1>2, <1>3 DEF InLine
<1>5. place \in Injection(C, 1..n)
  BY <1>2, <1>4 DEF Injection, IsInjective
<1>6. place \in Surjection(C, 1..n)
  <2>1. IsFiniteSet(1..n) /\ Cardinality(1..n) = n
    BY <1>1, FS_Interval
  <2> QED
    BY <1>5, <2>1, FS_Injection
<1>7. \A i \in 1..n : \E c \in C : place[c] = i
  BY <1>6 DEF Surjection
<1> HIDE DEF n
<1>8. ASSUME NEW i \in 1..n PROVE Ranking(C)[i] \in C /\ place[Ranking(C)[i]] = i
  <2>1. \E c \in C : Cardinality(Ahead(C, c)) = i - 1
    <3>1. PICK c \in C : place[c] = i
      BY <1>7
    <3>2. Cardinality(Ahead(C, c)) + 1 = i /\ Cardinality(Ahead(C, c)) \in Nat
      BY <1>2, <3>1
    <3>3. Cardinality(Ahead(C, c)) = i - 1
      BY <3>2
    <3> QED
      BY <3>3
  <2>2. Ranking(C)[i] = CHOOSE c \in C : Cardinality(Ahead(C, c)) = i - 1
    BY DEF Ranking, n
  <2>3. Ranking(C)[i] \in C /\ Cardinality(Ahead(C, Ranking(C)[i])) = i - 1
    BY <2>1, <2>2
  <2>4. Cardinality(Ahead(C, Ranking(C)[i])) + 1 = i
    BY <1>1, <1>2, <2>3
  <2> QED
    BY <2>3, <2>4
<1>9. Ranking(C) \in [1..n -> C]
  BY <1>8 DEF Ranking, n
<1> HIDE DEF place
<1>10. ASSUME NEW i \in 1..n, NEW j \in 1..n, i < j PROVE RanksBefore(Ranking(C)[i], Ranking(C)[j])
  <2>1. Ranking(C)[i] # Ranking(C)[j]
    BY <1>1, <1>8, <1>10
  <2>2. ~RanksBefore(Ranking(C)[j], Ranking(C)[i])
    BY <1>1, <1>3, <1>8, <1>10
  <2> QED
    BY <1>8, <2>1, <2>2 DEF InLine
<1>11. ASSUME NEW c \in C PROVE Ranking(C)[place[c]] = c /\ place[c] \in 1..n
  BY <1>2, <1>4, <1>8
<1> QED
  BY <1>1, <1>9, <1>10, <1>11 DEF n

-----------------------------------------------------------------------------
(* The cards after the i first of the ranking have been looked at.         *)
Shown(cards, c) == \E k \in DOMAIN cards : cards[k] = c
PassedOver(cards, cur, c) ==
    \/ ~IsNews(c, cur)
    \/ Len(cards) = MaxRecommendations /\ \A k \in DOMAIN cards : RanksBefore(cards[k], c)
    \/ \E k \in DOMAIN cards : RanksBefore(cards[k], c) /\ cards[k].entry.family = c.entry.family
Chosen(C, cur, cards, i) ==
    /\ cards \in Seq(C) /\ Len(cards) <= MaxRecommendations
    /\ \A k \in DOMAIN cards : IsNews(cards[k], cur) /\ \E j \in 1..i : cards[k] = Ranking(C)[j]
    /\ \A k, l \in DOMAIN cards : k < l =>
           RanksBefore(cards[k], cards[l]) /\ cards[k].entry.family # cards[l].entry.family
    /\ \A j \in 1..i : Shown(cards, Ranking(C)[j]) \/ PassedOver(cards, cur, Ranking(C)[j])

(* Used on its own: with sequences in sight the provers do not see it.     *)
LEMMA Between == ASSUME NEW m \in Nat, NEW n \in Nat, m <= n, m >= n PROVE m = n
  OBVIOUS

(* Looking at one candidate more (Keep) keeps what is shown chosen well.   *)
LEMMA KeepChooses ==
    ASSUME NEW C, IsFiniteSet(C), InLine(C), NEW cur, NEW cards,
           NEW i \in 1..Cardinality(C), Chosen(C, cur, cards, i - 1)
    PROVE  Chosen(C, cur, Keep(cur, cards, Ranking(C)[i]), i)
<1> DEFINE c == Ranking(C)[i]
<1>1. /\ Cardinality(C) \in Nat /\ c \in C
      /\ \A j \in 1..(i - 1) : j \in 1..Cardinality(C) /\ RanksBefore(Ranking(C)[j], c)
      /\ \A j \in 1..i : j # i => j \in 1..(i - 1)
      /\ \A j \in 1..(i - 1) : j \in 1..i
  BY RankingSorts
<1>2. /\ cards \in Seq(C) /\ Len(cards) \in Nat /\ Len(cards) <= MaxRecommendations
      /\ DOMAIN cards = 1..Len(cards) /\ MaxRecommendations \in Nat
  BY FactorsAssumption DEF Chosen
<1>3. \A k \in DOMAIN cards : RanksBefore(cards[k], c)
  BY <1>1 DEF Chosen
<1> HIDE DEF c
<1>4. CASE \/ Len(cards) >= MaxRecommendations
           \/ \E k \in DOMAIN cards : cards[k].entry.family = c.entry.family
           \/ ~IsNews(c, cur)
  <2>1. Keep(cur, cards, c) = cards
    BY <1>4 DEF Keep
  <2>2. PassedOver(cards, cur, c)
    <3>1. ASSUME Len(cards) >= MaxRecommendations PROVE PassedOver(cards, cur, c)
      <4>1. Len(cards) = MaxRecommendations
        <5>1. Len(cards) \in Nat /\ MaxRecommendations \in Nat /\ Len(cards) <= MaxRecommendations
          BY <1>2
        <5> HIDE <1>2
        <5> QED
          BY <3>1, <5>1, Between
      <4> QED
        BY <1>3, <4>1 DEF PassedOver
    <3>2. ASSUME ~IsNews(c, cur) PROVE PassedOver(cards, cur, c)
      BY <3>2 DEF PassedOver
    <3>3. ASSUME NEW k \in DOMAIN cards, cards[k].entry.family = c.entry.family
          PROVE  PassedOver(cards, cur, c)
      BY <1>3, <3>3 DEF PassedOver
    <3> QED
      BY <1>4, <3>1, <3>2, <3>3
  <2>3. \A j \in 1..i : Shown(cards, Ranking(C)[j]) \/ PassedOver(cards, cur, Ranking(C)[j])
    BY <1>1, <2>2 DEF Chosen, c
  <2>4. \A k \in DOMAIN cards : IsNews(cards[k], cur) /\ \E j \in 1..i : cards[k] = Ranking(C)[j]
    BY <1>1 DEF Chosen
  <2>5. Chosen(C, cur, cards, i)
    BY <2>3, <2>4 DEF Chosen
  <2> QED
    BY <2>1, <2>5 DEF c
<1>5. CASE /\ Len(cards) < MaxRecommendations
           /\ \A k \in DOMAIN cards : cards[k].entry.family # c.entry.family
           /\ IsNews(c, cur)
  <2> DEFINE more == Append(cards, c)
             n == Len(cards) + 1
  <2>0. ~(Len(cards) >= MaxRecommendations)
    BY <1>2, <1>5
  <2>1. Keep(cur, cards, c) = more
    BY <1>5, <2>0 DEF Keep
  <2>2. /\ more \in Seq(C) /\ Len(more) = n /\ DOMAIN more = 1..n /\ n \in Nat /\ more[n] = c
        /\ \A k \in DOMAIN cards : k \in 1..n /\ more[k] = cards[k]
        /\ \A k \in 1..n : k # n => k \in DOMAIN cards
    BY <1>1, <1>2
  <2> HIDE DEF more, n
  <2>3. Len(more) <= MaxRecommendations
    BY <1>2, <1>5, <2>2 DEF n
  <2>4. \A k \in DOMAIN more : IsNews(more[k], cur) /\ \E j \in 1..i : more[k] = Ranking(C)[j]
    <3> SUFFICES ASSUME NEW k \in 1..n PROVE IsNews(more[k], cur) /\ \E j \in 1..i : more[k] = Ranking(C)[j]
      BY <2>2
    <3>1. CASE k = n
      BY <1>5, <2>2, <3>1 DEF c
    <3>2. CASE k # n
      <4>1. k \in DOMAIN cards /\ more[k] = cards[k]
        BY <2>2, <3>2
      <4>2. IsNews(cards[k], cur) /\ \E j \in 1..(i - 1) : cards[k] = Ranking(C)[j]
        BY <4>1 DEF Chosen
      <4> QED
        BY <1>1, <4>1, <4>2
    <3> QED
      BY <3>1, <3>2
  <2>5. \A k, l \in DOMAIN more : k < l =>
           RanksBefore(more[k], more[l]) /\ more[k].entry.family # more[l].entry.family
    <3> SUFFICES ASSUME NEW k \in 1..n, NEW l \in 1..n, k < l
                 PROVE  RanksBefore(more[k], more[l]) /\ more[k].entry.family # more[l].entry.family
      BY <2>2
    <3>1. k # n
      BY <2>2
    <3>2. k \in DOMAIN cards /\ more[k] = cards[k]
      BY <2>2, <3>1
    <3>3. CASE l = n
      BY <1>3, <1>5, <2>2, <3>2, <3>3
    <3>4. CASE l # n
      <4>1. l \in DOMAIN cards /\ more[l] = cards[l]
        BY <2>2, <3>4
      <4> QED
        BY <3>2, <4>1 DEF Chosen
    <3> QED
      BY <3>3, <3>4
  <2>6. \A j \in 1..i : Shown(more, Ranking(C)[j]) \/ PassedOver(more, cur, Ranking(C)[j])
    <3> SUFFICES ASSUME NEW j \in 1..i PROVE Shown(more, Ranking(C)[j]) \/ PassedOver(more, cur, Ranking(C)[j])
      OBVIOUS
    <3>1. CASE j = i
      <4>1. n \in DOMAIN more /\ more[n] = Ranking(C)[j]
        BY <2>2, <3>1 DEF c, n
      <4> QED
        BY <4>1 DEF Shown
    <3>2. CASE j # i
      <4>1. Shown(cards, Ranking(C)[j]) \/ PassedOver(cards, cur, Ranking(C)[j])
        BY <1>1, <3>2 DEF Chosen
      <4>2. Len(cards) # MaxRecommendations
        BY <1>2, <2>0
      <4>3. CASE Shown(cards, Ranking(C)[j])
        BY <2>2, <4>3 DEF Shown
      <4>4. CASE PassedOver(cards, cur, Ranking(C)[j])
        <5>1. CASE ~IsNews(Ranking(C)[j], cur)
          BY <5>1 DEF PassedOver
        <5>2. CASE \E k \in DOMAIN cards : /\ RanksBefore(cards[k], Ranking(C)[j])
                                           /\ cards[k].entry.family = Ranking(C)[j].entry.family
          BY <2>2, <5>2 DEF PassedOver
        <5> QED
          BY <4>2, <4>4, <5>1, <5>2 DEF PassedOver
      <4> QED
        BY <4>1, <4>3, <4>4
    <3> QED
      BY <3>1, <3>2
  <2>7. Chosen(C, cur, more, i)
    BY <2>2, <2>3, <2>4, <2>5, <2>6 DEF Chosen
  <2> QED
    BY <2>1, <2>7 DEF c
<1>6. Len(cards) >= MaxRecommendations \/ Len(cards) < MaxRecommendations
  BY <1>2
<1> QED
  BY <1>4, <1>5, <1>6

KeepsOn(h, cur, q, D) ==
    h = [s \in D |-> IF s = {} THEN << >> ELSE Keep(cur, h[s \ {Max(s)}], q[Max(s)])]

(* The function that FoldLeft chooses for the cards exists.                *)
LEMMA KeepsExist ==
    ASSUME NEW C, NEW n \in Nat, NEW q \in [1..n -> C], NEW cur
    PROVE  \E h : KeepsOn(h, cur, q, SUBSET (1..n))
<1> DEFINE S == 1..n
           pick == [s \in SUBSET S |-> Max(s)]
           step == [sv \in (SUBSET S) \X Seq(C) |->
                       IF sv[1] = {} THEN << >> ELSE Keep(cur, sv[2], q[Max(sv[1])])]
<1>1. IsFiniteSet(S)
  BY FS_Interval
<1>2. \A s \in SUBSET S : s # {} => Max(s) \in s
  <2> SUFFICES ASSUME NEW s \in SUBSET S, s # {} PROVE Max(s) \in s
    OBVIOUS
  <2>0. s \subseteq Nat
    OBVIOUS
  <2>1. s \subseteq Nat /\ IsFiniteSet(s)
    <3> HIDE DEF S, pick, step
    <3> QED
      BY <1>1, <2>0, FS_Subset
  <2> HIDE DEF S, pick, step
  <2>2. Max(s) \in s /\ \A i \in s : i <= Max(s)
    BY <2>1, MostIsOne
  <2> QED
    BY <2>2
<1>3. \A s \in SUBSET S : s # {} => pick[s] \in s
  BY <1>2
<1>4. step \in [(SUBSET S) \X Seq(C) -> Seq(C)]
  <2>1. ASSUME NEW s \in SUBSET S, NEW v \in Seq(C), s # {}
        PROVE  Keep(cur, v, q[Max(s)]) \in Seq(C)
    <3>1. q[Max(s)] \in C
      BY <1>2, <2>1
    <3> QED
      BY <3>1 DEF Keep
  <2>2. << >> \in Seq(C)
    OBVIOUS
  <2> HIDE DEF S
  <2>3. ASSUME NEW sv \in (SUBSET S) \X Seq(C)
        PROVE  (IF sv[1] = {} THEN << >> ELSE Keep(cur, sv[2], q[Max(sv[1])])) \in Seq(C)
    BY <2>1, <2>2
  <2> QED
    BY <2>3
<1>5. PICK h \in [SUBSET S -> Seq(C)] : Recurs(h, << >>, pick, step, SUBSET S)
  <2>1. << >> \in Seq(C)
    OBVIOUS
  <2> HIDE DEF S, pick, step
  <2> QED
    BY <1>1, <1>3, <1>4, <2>1, RecursionExists
<1>6. ASSUME NEW s \in SUBSET S, s # {}
      PROVE  h[s] = Keep(cur, h[s \ {Max(s)}], q[Max(s)])
  <2>1. h[s] = step[<<s, h[s \ {Max(s)}]>>]
    BY <1>5, <1>6 DEF Recurs
  <2>2. h[s \ {Max(s)}] \in Seq(C)
    BY <1>5
  <2> QED
    BY <1>6, <2>1, <2>2
<1>7. h[{}] = << >>
  BY <1>5 DEF Recurs
<1>8. KeepsOn(h, cur, q, SUBSET S)
  <2> HIDE DEF S
  <2> QED
    BY <1>5, <1>6, <1>7 DEF KeepsOn
<1> QED
  BY <1>8

(* The fold takes its steps in the order of the ranking.                   *)
LEMMA MaxOfFirst ==
    ASSUME NEW n \in Nat, NEW i \in 1..n
    PROVE  /\ Max(1..i) = i /\ (1..i) \ {i} = 1..(i - 1)
           /\ 1..i # {} /\ 1..i \in SUBSET (1..n) /\ 1..(i - 1) \in SUBSET (1..n)
<1>1. IsFiniteSet(1..i)
  BY FS_Interval
<1>2. /\ 1..i \subseteq Nat /\ i \in 1..i
      /\ (1..i) \ {i} = 1..(i - 1)
      /\ 1..i \in SUBSET (1..n) /\ 1..(i - 1) \in SUBSET (1..n)
  OBVIOUS
<1>3. Max(1..i) \in 1..i /\ i <= Max(1..i)
  BY <1>1, <1>2, MostIsOne
<1>4. Max(1..i) = i
  BY <1>3
<1> QED
  BY <1>2, <1>4

(* The cards, then, are what looking at the ranking from its first to its  *)
(* last chooses.                                                           *)
LEMMA CardsAreChosen ==
    ASSUME NEW C, IsFiniteSet(C), InLine(C), NEW cur
    PROVE  Chosen(C, cur, Cards(C, cur), Cardinality(C))
<1> DEFINE n == Cardinality(C)
           q == Ranking(C)
           it == CHOOSE h : KeepsOn(h, cur, q, SUBSET DOMAIN q)
           Wrong == {i \in 0..n : ~Chosen(C, cur, it[1..i], i)}
<1>1. n \in Nat /\ q \in [1..n -> C] /\ DOMAIN q = 1..n
  BY RankingSorts
<1>2. Cards(C, cur) = it[1..n]
  <2>1. Cards(C, cur) = it[DOMAIN q]
    BY DEF Cards, FoldLeft, MapThenFoldSet, KeepsOn
  <2> QED
    BY <1>1, <2>1
<1>3. KeepsOn(it, cur, q, SUBSET (1..n))
  BY <1>1, KeepsExist
<1> HIDE DEF n, q, it
<1>4. Wrong = {}
  <2> SUFFICES ASSUME Wrong # {} PROVE FALSE
    OBVIOUS
  <2>1. PICK i \in Wrong : \A k \in Wrong : i <= k
    <3>1. Wrong \subseteq Nat
      BY <1>1
    <3> HIDE DEF Wrong
    <3> QED
      BY <3>1, LeastNatural
  <2>2. CASE i = 0
    <3>1. it[{}] = << >>
      BY <1>3 DEF KeepsOn
    <3>2. Chosen(C, cur, << >>, 0)
      BY FactorsAssumption DEF Chosen
    <3>3. 1..0 = {}
      OBVIOUS
    <3>4. Chosen(C, cur, it[1..i], i)
      BY <2>2, <3>1, <3>2, <3>3
    <3> QED
      BY <2>1, <3>4
  <2>3. CASE i # 0
    <3>1. i \in 1..n /\ i - 1 \in 0..n /\ i - 1 < i
      BY <1>1, <2>1, <2>3
    <3>2. Chosen(C, cur, it[1..(i - 1)], i - 1)
      BY <1>1, <2>1, <3>1
    <3>3. it[1..i] = Keep(cur, it[1..(i - 1)], q[i])
      <4>1. \A s \in SUBSET (1..n) :
                it[s] = IF s = {} THEN << >> ELSE Keep(cur, it[s \ {Max(s)}], q[Max(s)])
        BY <1>3 DEF KeepsOn
      <4>2. /\ Max(1..i) = i /\ (1..i) \ {i} = 1..(i - 1)
            /\ 1..i # {} /\ 1..i \in SUBSET (1..n)
        BY <1>1, <3>1, MaxOfFirst
      <4> QED
        BY <4>1, <4>2
    <3>4. Chosen(C, cur, it[1..i], i)
      BY <3>1, <3>2, <3>3, KeepChooses DEF n, q
    <3> QED
      BY <2>1, <3>4
  <2> QED
    BY <2>2, <2>3
<1> QED
  BY <1>1, <1>2, <1>4 DEF n

(* CardsAreTheBest of an answer, whether it is given yet or not.           *)
SplitOnlyThen(a) ==
    \A i \in DOMAIN a.cards :
        a.cards[i].est.category = "needs_cpu_offload" =>
            ~asked.gpuOnly /\ (asked.allowSplit \/ \A entry \in Entries : ~RunsWhole(entry))
NothingLeftOut(a) ==
    LET cards == a.cards
        before(c) == {i \in DOMAIN cards : RanksBefore(cards[i], c)}
    IN  /\ Len(cards) <= MaxRecommendations
        /\ \A i, j \in DOMAIN cards : i < j =>
               /\ RanksBefore(cards[i], cards[j])
               /\ cards[i].entry.family # cards[j].entry.family
        /\ \A i \in DOMAIN cards : IsNews(cards[i], a.current)
        /\ \A c \in a.considered \ Range(cards) :
               \/ ~IsNews(c, a.current)
               \/ Cardinality(before(c)) = MaxRecommendations
               \/ \E i \in before(c) : cards[i].entry.family = c.entry.family

(* Cards chosen so leave nothing better out.                               *)
LEMMA NothingBetterIsLeft ==
    ASSUME NEW C, IsFiniteSet(C), InLine(C), NEW cur
    PROVE  NothingLeftOut(Choose(C, cur))
<1> DEFINE cards == Cards(C, cur)
           before(c) == {i \in DOMAIN cards : RanksBefore(cards[i], c)}
           n == Cardinality(C)
           a == Choose(C, cur)
<1>1. a.cards = cards /\ a.considered = C /\ a.current = cur
  BY DEF Choose, Result
<1>2. Chosen(C, cur, cards, n)
  BY CardsAreChosen
<1> HIDE DEF cards, n, a
<1>3. /\ Len(cards) <= MaxRecommendations /\ DOMAIN cards = 1..Len(cards)
      /\ MaxRecommendations \in Nat /\ Len(cards) \in Nat
  BY <1>2, FactorsAssumption DEF Chosen
<1>4. ASSUME NEW c \in C \ Range(cards)
      PROVE  \/ ~IsNews(c, cur)
             \/ Cardinality(before(c)) = MaxRecommendations
             \/ \E i \in before(c) : cards[i].entry.family = c.entry.family
  <2>1. PICK j \in 1..n : Ranking(C)[j] = c
    BY RankingSorts DEF n
  <2>2. Shown(cards, c) \/ PassedOver(cards, cur, c)
    BY <1>2, <2>1 DEF Chosen
  <2>3. ~Shown(cards, c)
    BY DEF Shown, Range
  <2>4. CASE Len(cards) = MaxRecommendations /\ \A k \in DOMAIN cards : RanksBefore(cards[k], c)
    <3>1. before(c) = 1..MaxRecommendations
      BY <1>3, <2>4
    <3>2. Cardinality(1..MaxRecommendations) = MaxRecommendations
      <4>1. Cardinality(1..MaxRecommendations) =
                IF 1 > MaxRecommendations THEN 0 ELSE MaxRecommendations - 1 + 1
        BY <1>3, FS_Interval, 1 \in Int
      <4> QED
        BY <1>3, <4>1
    <3> QED
      BY <3>1, <3>2
  <2>5. CASE \E k \in DOMAIN cards : RanksBefore(cards[k], c) /\ cards[k].entry.family = c.entry.family
    BY <2>5
  <2> QED
    BY <2>2, <2>3, <2>4, <2>5 DEF PassedOver
<1>5. /\ \A i, j \in DOMAIN cards : i < j =>
            /\ RanksBefore(cards[i], cards[j])
            /\ cards[i].entry.family # cards[j].entry.family
      /\ \A i \in DOMAIN cards : IsNews(cards[i], cur)
  BY <1>2 DEF Chosen
<1> QED
  BY <1>1, <1>3, <1>4, <1>5 DEF NothingLeftOut, a

-----------------------------------------------------------------------------
(* A product of natural numbers, and when it is more than 0.               *)
LEMMA Positive ==
    ASSUME NEW a \in Nat, NEW b \in Nat
    PROVE  a * b \in Nat /\ (a > 0 /\ b > 0 => a * b > 0)
  OBVIOUS

(* Finite sets have finite images.                                         *)
LEMMA ImageIsFinite ==
    ASSUME NEW S, IsFiniteSet(S), NEW f
    PROVE  IsFiniteSet({f[x] : x \in S})
<1> DEFINE T == {f[x] : x \in S}
           g == [x \in S |-> f[x]]
<1>1. g \in [S -> T] /\ \A t \in T : \E x \in S : g[x] = t
  OBVIOUS
<1> HIDE DEF T, g
<1>2. g \in Surjection(S, T)
  BY <1>1 DEF Surjection
<1>3. IsFiniteSet(T)
  BY <1>2, FS_Surjection
<1> QED
  BY <1>3 DEF T

(* The larger of two natural numbers.                                      *)
LEMMA LargerOfTwo ==
    ASSUME NEW a \in Nat, NEW b \in Nat
    PROVE  Max({a, b}) \in Nat /\ a <= Max({a, b})
<1>1. {a, b} = {a} \cup {b} /\ {a, b} \subseteq Nat /\ a \in {a, b} /\ {a, b} # {}
  OBVIOUS
<1>2. IsFiniteSet({a, b})
  <2>1. IsFiniteSet({a})
    BY FS_Singleton
  <2>2. IsFiniteSet({a} \cup {b})
    BY <2>1, FS_AddElement
  <2> QED
    BY <1>1, <2>2
<1>3. Max({a, b}) \in {a, b} /\ \A n \in {a, b} : n <= Max({a, b})
  BY <1>1, <1>2, MostIsOne
<1> QED
  BY <1>1, <1>3

(* What a request is answered from.                                        *)
Known ==
    /\ machine \in MachineType
    /\ catalogue \in Catalogues
    /\ measured \in Measurements
    /\ asked \in Requests \cup {NoRequest}

(* There is always a purpose, and finitely many.                           *)
LEMMA PurposesAreServed ==
    ASSUME Known
    PROVE  /\ Purposes \subseteq DOMAIN PurposeContext /\ Purposes # {}
           /\ IsFiniteSet(Purposes) /\ Cardinality(Purposes) \in Nat /\ Cardinality(Purposes) > 0
           /\ asked.minContext \in Nat
<1>1. asked.purposes \subseteq DOMAIN PurposeContext /\ asked.minContext \in Nat
  BY RequestsAssumption DEF Known, NoRequest
<1>2. Purposes \subseteq DOMAIN PurposeContext /\ Purposes # {}
  BY <1>1, PurposesAssumption DEF Purposes
<1>3. IsFiniteSet(Purposes)
  BY <1>2, PurposesAssumption, FS_Subset
<1>4. Cardinality(Purposes) \in Nat /\ Cardinality(Purposes) # 0
  BY <1>2, <1>3, FS_CardinalityType, FS_EmptySet
<1> QED
  BY <1>1, <1>2, <1>3, <1>4

(* The context wanted is a number.                                         *)
LEMMA WantedIsALength ==
    ASSUME Known
    PROVE  Wanted(asked) \in Nat
<1> DEFINE lengths == {PurposeContext[p] : p \in Purposes}
<1>1. lengths \subseteq Nat
  BY PurposesAreServed, PurposesAssumption
<1>2. IsFiniteSet(lengths)
  BY PurposesAreServed, ImageIsFinite
<1>3. IsFiniteSet(lengths \cup {asked.minContext}) /\ lengths \cup {asked.minContext} \subseteq Nat
  BY <1>1, <1>2, PurposesAreServed, FS_AddElement
<1> HIDE DEF lengths
<1>4. Max(lengths \cup {asked.minContext}) \in lengths \cup {asked.minContext}
  BY <1>3, MostIsOne
<1> QED
  BY <1>3, <1>4 DEF Wanted, lengths

(* The catalogue's sizes are told apart by their ids, with files of the type. *)
LEMMA EntriesAreSizes ==
    ASSUME Known
    PROVE  /\ IsFiniteSet(Entries)
           /\ \A a, b \in Entries : a.id = b.id => a = b
           /\ \A entry \in Entries :
                 /\ entry.id \in Nat
                 /\ Range(entry.files) \subseteq FileType
                 /\ DOMAIN entry.purposes \subseteq DOMAIN PurposeFactor
                 /\ entry.billions \in DOMAIN SizeFactor
                 /\ HasFile(entry) => DefaultFile(entry) \in FileType
<1>1. IsFiniteSet(DOMAIN catalogue)
  BY CataloguesAssumption DEF Known
<1>2. IsFiniteSet(Entries)
  BY <1>1, ImageIsFinite DEF Entries, Range
<1>3. \A a, b \in Entries : a.id = b.id => a = b
  BY CataloguesAssumption DEF Known, Entries, Range
<1>4. \A entry \in Entries :
                 /\ entry.id \in Nat
                 /\ Range(entry.files) \subseteq FileType
                 /\ DOMAIN entry.purposes \subseteq DOMAIN PurposeFactor
                 /\ entry.billions \in DOMAIN SizeFactor
  BY CataloguesAssumption DEF Known, Entries
<1>5. ASSUME NEW entry \in Entries, HasFile(entry) PROVE DefaultFile(entry) \in FileType
  <2> DEFINE fs == Range(entry.files)
             qs == {f.quant : f \in {g \in fs : g.quant > 0}}
  <2>1. fs \subseteq FileType
    BY <1>4
  <2>2. qs \subseteq Nat /\ qs # {}
    BY <1>5, <2>1 DEF FileType, HasFile
  <2> HIDE DEF fs
  <2>3. PICK q \in qs : \A k \in qs : q <= k
    <3> HIDE DEF qs
    <3> QED
      BY <2>2, LeastNatural
  <2>4. \E file \in fs : file.quant > 0 /\ \A other \in fs : other.quant > 0 => file.quant <= other.quant
    BY <2>3
  <2>5. DefaultFile(entry) \in fs
    BY <2>4 DEF DefaultFile, fs
  <2> QED
    BY <2>1, <2>5
<1> QED
  BY <1>2, <1>3, <1>4, <1>5

(* A purpose fit is a number, more than 0 once a purpose is served.        *)
LEMMA PurposeFitIsNatural ==
    ASSUME Known, NEW entry \in Entries, NEW file, NEW ctx
    PROVE  /\ PurposeFit(entry, file, ctx) \in Nat
           /\ (\E p \in Purposes : Serves(entry, file, ctx, p)) => PurposeFit(entry, file, ctx) > 0
<1> DEFINE served == {p \in Purposes : Serves(entry, file, ctx, p)}
           position(p) == CHOOSE i \in DOMAIN entry.purposes : entry.purposes[i] = p
           f == [p \in served |-> PurposeFactor[position(p)]]
<1>1. IsFiniteSet(served)
  BY PurposesAreServed, FS_Subset
<1>2. ASSUME NEW p \in served PROVE f[p] \in Nat /\ f[p] > 0
  <2>1. p \in Range(entry.purposes)
    BY DEF Serves
  <2>2. \E i \in DOMAIN entry.purposes : entry.purposes[i] = p
    BY <2>1 DEF Range
  <2>3. position(p) \in DOMAIN entry.purposes
    BY <2>2
  <2>4. position(p) \in DOMAIN PurposeFactor
    BY <2>3, EntriesAreSizes
  <2> HIDE DEF position
  <2> QED
    BY <2>4, PurposesAssumption
<1>3. PurposeFit(entry, file, ctx) = SumFunctionOnSet(f, served)
  BY DEF PurposeFit
<1>4. (\E p \in Purposes : Serves(entry, file, ctx, p)) => \E p \in served : TRUE
  OBVIOUS
<1> HIDE DEF served, f
<1>5. /\ SumFunctionOnSet(f, served) \in Nat
      /\ (\E x \in served : f[x] > 0) => SumFunctionOnSet(f, served) > 0
  BY <1>1, <1>2, SumIsNatural
<1> QED
  BY <1>2, <1>3, <1>4, <1>5

(* A speed factor is a number: no purpose needs the speed 0.               *)
LEMMA SpeedFactorIsNatural ==
    ASSUME Known, NEW rate \in Nat
    PROVE  SpeedFactor(rate) \in Nat
<1> DEFINE of == [p \in Purposes |->
                  Max({SpeedFloor, Least(SpeedFactorTop, (SpeedFactorTop * rate) \div NeededRate[p])})]
<1>1. ASSUME NEW p \in Purposes PROVE of[p] \in Nat
  <2> DEFINE x == (SpeedFactorTop * rate) \div NeededRate[p]
  <2>1. NeededRate[p] \in Nat /\ NeededRate[p] > 0 /\ SpeedFactorTop * rate \in Nat
    BY PurposesAreServed, PurposesAssumption, FactorsAssumption, Positive
  <2>2. x \in Nat
    BY <2>1, Division
  <2> HIDE DEF x
  <2>3. Least(SpeedFactorTop, x) \in Nat
    BY <2>2, FactorsAssumption DEF Least
  <2> QED
    BY <2>3, FactorsAssumption, LargerOfTwo DEF x
<1> HIDE DEF of
<1>2. SumFunctionOnSet(of, Purposes) \in Nat
  BY <1>1, PurposesAreServed, SumIsNatural
<1>3. SumFunctionOnSet(of, Purposes) \div Cardinality(Purposes) \in Nat
  BY <1>2, PurposesAreServed, Division
<1> QED
  BY <1>3, FactorsAssumption DEF SpeedFactor, of

(* The speeds of the machine's memories are numbers: a device is there to ask. *)
LEMMA SpeedsOfMachine ==
    ASSUME Known
    PROVE  DeviceSpeed \in Nat /\ SystemSpeed \in Nat
<1>1. HasGPU(machine) => machine.gpus[1].speed \in Nat
  <2> SUFFICES ASSUME HasGPU(machine) PROVE machine.gpus[1].speed \in Nat
    OBVIOUS
  <2>1. machine.gpus \in Seq(GPUs) /\ machine.gpus # << >>
    BY DEF Known, MachineType, HasGPU
  <2>2. machine.gpus[1] \in GPUs
    BY <2>1
  <2> QED
    BY <2>2 DEF GPUs
<1>2. plan.device => HasGPU(machine)
  BY DEF plan, Place, OnProcessor
<1>3. machine.ramSpeed \in Nat
  BY DEF Known, MachineType
<1> QED
  BY <1>1, <1>2, <1>3 DEF DeviceSpeed, SystemSpeed, OnGPU

(* A rate is a number: a split has a layer on the device, so nothing is    *)
(* divided by 0 (SplitHasRoom).                                            *)
LEMMA RateIsNatural ==
    ASSUME Known, NEW file \in FileType, NEW ctx \in Nat
    PROVE  Rate(file, FitPlaced(plan, file, ctx), ctx) \in Nat
<1> DEFINE est == FitPlaced(plan, file, ctx)
           on == est.layersOn
           off == file.layers - on
           read == Max({1, (file.bytes * file.active) \div 100})
           D == DeviceSpeed
           Y == SystemSpeed
<1>1. D \in Nat /\ Y \in Nat
  BY SpeedsOfMachine
<1>2. file.layers \in Nat /\ file.bytes \in Nat /\ file.active \in Nat
  BY DEF FileType
<1>3. read \in Nat /\ read > 0
  <2>1. (file.bytes * file.active) \div 100 \in Nat
    BY <1>2, Positive, Division
  <2>2. Max({1, (file.bytes * file.active) \div 100}) \in Nat /\ 1 <= Max({1, (file.bytes * file.active) \div 100})
    BY <2>1, LargerOfTwo
  <2> QED
    BY <2>2
<1>4. est.category = "needs_cpu_offload" => on \in 1..file.layers
  <2>1. PlanOK(plan)
    BY PlaceIsOK DEF plan, Known
  <2>2. KeepsItsWord(plan, file, est)
    BY <2>1, FitKeepsItsWord
  <2> QED
    BY <2>2 DEF KeepsItsWord, SplitHasRoom
<1> HIDE DEF est, read, D, Y
<1>5. (10 * Y) \div read \in Nat /\ (10 * D) \div read \in Nat
  BY <1>1, <1>3, Positive, Division
<1>6. ASSUME est.category = "needs_cpu_offload", Y > 0
      PROVE  (10 * file.layers * D * Y) \div (read * (on * Y + off * D)) \in Nat
  <2>1. on \in Nat /\ on > 0 /\ off \in Nat
    BY <1>2, <1>4, <1>6
  <2> HIDE DEF on, off
  <2>2. on * Y \in Nat /\ on * Y > 0 /\ off * D \in Nat
    BY <1>1, <1>6, <2>1, Positive
  <2>3. on * Y + off * D \in Nat /\ on * Y + off * D > 0
    BY <2>2
  <2> DEFINE sum == on * Y + off * D
  <2> HIDE DEF sum
  <2>4. read * sum \in Nat /\ read * sum > 0
    BY <1>3, <2>3, Positive DEF sum
  <2>5. 10 * file.layers * D * Y \in Nat
    <3>1. 10 * file.layers \in Nat
      BY <1>2, Positive
    <3>2. 10 * file.layers * D \in Nat
      BY <1>1, <3>1, Positive
    <3> QED
      BY <1>1, <3>2, Positive
  <2> QED
    BY <2>4, <2>5, Division DEF sum
<1>7. EstimatedRate(file, est) \in Nat
  <2> DEFINE split == est.category = "needs_cpu_offload"
             inSystem == ~OnGPU \/ ~OnDevice(plan)
             known == /\ est.category \notin {"unknown", "not_recommended"}
                      /\ OnGPU => DeviceSpeed > 0
                      /\ split \/ inSystem => SystemSpeed > 0
  <2>1. EstimatedRate(file, est) =
            IF ~known THEN 0
            ELSE IF inSystem THEN (10 * Y) \div read
            ELSE IF ~split THEN (10 * D) \div read
            ELSE (10 * file.layers * D * Y) \div (read * (on * Y + off * D))
    BY DEF EstimatedRate, D, Y, read
  <2>2. known /\ split => Y > 0
    BY DEF Y
  <2> HIDE DEF known, inSystem, on, off
  <2> QED
    BY <1>5, <1>6, <2>1, <2>2
<1>8. CASE {ms \in measured : ms.file = file.id /\ ms.ctx = ctx} = {}
  BY <1>7, <1>8 DEF Rate, est
<1>9. CASE {ms \in measured : ms.file = file.id /\ ms.ctx = ctx} # {}
  BY <1>9, MeasurementsAssumption DEF Rate, Known
<1> QED
  BY <1>8, <1>9

-----------------------------------------------------------------------------
(* How a size is run: whole at the longest context that fits, if one does. *)
ChosenRun(entry) ==
    LET file == DefaultFile(entry) IN RunOf(file, Fitting(file, Wanted(asked)))

(* A whole run fits, and no context that fits is longer.                   *)
LEMMA RunIsChosen ==
    ASSUME Known, NEW entry \in Entries, HasFile(entry)
    PROVE  LET file == DefaultFile(entry)
               runs == Fitting(file, Wanted(asked))
               run == ChosenRun(entry)
           IN  /\ run.ctx \in Nat /\ run.est = FitPlaced(plan, file, run.ctx)
               /\ run.whole => FitsOnDevice(run.est)
               /\ \A ctx \in runs : run.whole /\ ctx \in Nat /\ ctx <= run.ctx
<1> DEFINE file == DefaultFile(entry)
           runs == Fitting(file, Wanted(asked))
           run == ChosenRun(entry)
<1>1. Wanted(asked) \in Nat /\ MinUsefulContext \in Nat
  BY WantedIsALength, LadderAssumption
<1>2. Contexts \subseteq Nat
  BY LadderAssumption DEF Contexts
<1>3. /\ runs \subseteq Nat /\ \A c \in runs : c <= Wanted(asked)
      /\ \A c \in runs : FitsOnDevice(FitPlaced(plan, file, c))
  BY <1>2 DEF Fitting, Tried
<1>4. run = IF runs # {} THEN RunAt(file, Longest(runs), TRUE)
            ELSE RunAt(file, MinUsefulContext, FALSE)
  BY DEF ChosenRun, RunOf
<1> HIDE DEF file, runs, run
<1>5. CASE runs # {}
  <2>1. Longest(runs) \in runs /\ \A d \in runs : d <= Longest(runs)
    BY <1>1, <1>3, <1>5, LongestIsOne
  <2>2. /\ run.ctx = Longest(runs) /\ run.est = FitPlaced(plan, file, Longest(runs))
        /\ run.whole
    BY <1>4, <1>5 DEF RunAt
  <2>3. /\ run.ctx \in Nat /\ run.est = FitPlaced(plan, file, run.ctx)
        /\ run.whole => FitsOnDevice(run.est)
        /\ \A ctx \in runs : run.whole /\ ctx \in Nat /\ ctx <= run.ctx
    BY <1>3, <2>1, <2>2
  <2> QED
    BY <2>3 DEF file, runs, run
<1>6. CASE runs = {}
  <2>1. /\ run.ctx = MinUsefulContext /\ run.est = FitPlaced(plan, file, MinUsefulContext)
        /\ ~run.whole
    BY <1>4, <1>6 DEF RunAt
  <2> QED
    BY <1>1, <1>6, <2>1 DEF file, runs, run
<1> QED
  BY <1>5, <1>6

(* A candidate is its size's, and its score is a number.                   *)
LEMMA CandidateIs ==
    ASSUME Known, NEW relaxed \in BOOLEAN, NEW c \in Pass(relaxed)
    PROVE  /\ c.entry \in Entries /\ HasFile(c.entry)
           /\ c = Consider(c.entry, DefaultFile(c.entry), asked, relaxed)
           /\ c.est = ChosenRun(c.entry).est /\ c.file = DefaultFile(c.entry)
           /\ Admitted(c.entry, DefaultFile(c.entry), asked, relaxed, ChosenRun(c.entry))
           /\ c.score \in Nat /\ c.file.bytes \in Nat /\ c.entry.id \in Nat
<1>1. PICK entry \in Entries : /\ HasFile(entry) /\ c.ok
                               /\ c = Consider(entry, DefaultFile(entry), asked, relaxed)
  BY DEF Pass
<1> DEFINE file == DefaultFile(entry)
           run == ChosenRun(entry)
           rate == Rate(file, run.est, run.ctx)
           admitted == Admitted(entry, file, asked, relaxed, run)
<1>2. c = Candidate(entry, file, asked, admitted, run, rate)
  BY <1>1 DEF Consider, Judge, ChosenRun
<1> HIDE DEF run, rate, admitted
<1>3. /\ c.entry = entry /\ c.file = file /\ c.est = run.est /\ c.ok = admitted
      /\ c.score = IF admitted THEN Score(entry, file, asked, run, rate) ELSE 0
  BY <1>2 DEF Candidate
<1> HIDE DEF file
<1>4. admitted /\ c.score = Score(entry, file, asked, run, rate)
  BY <1>1, <1>3
<1>5. /\ run.ctx \in Nat /\ run.est = FitPlaced(plan, file, run.ctx)
      /\ run.whole => FitsOnDevice(run.est)
  BY <1>1, RunIsChosen DEF run, file
<1>6. file \in FileType /\ entry.id \in Nat /\ entry.billions \in DOMAIN SizeFactor
  BY <1>1, EntriesAreSizes DEF file
<1> DEFINE purpose == PurposeFit(entry, file, run.ctx)
           fit == FitFactor[run.est.category]
           speed == SpeedFactor(rate)
           size == SizeFactor[entry.billions]
           length == Least(run.ctx, Wanted(asked))
<1>7. purpose \in Nat
  BY PurposeFitIsNatural
<1>8. fit \in Nat
  <2>1. run.est.category \in {"fits_with_headroom", "fits", "needs_cpu_offload"}
    BY <1>4, <1>5 DEF admitted, Admitted, FitsOnDevice
  <2>2. run.est.category \in DOMAIN FitFactor
    BY <2>1, FactorsAssumption
  <2> QED
    BY <2>2, FactorsAssumption
<1>9. speed \in Nat
  <2>1. rate \in Nat
    BY <1>5, <1>6, RateIsNatural DEF rate
  <2> QED
    BY <2>1, SpeedFactorIsNatural
<1>10. size \in Nat /\ length \in Nat
  BY <1>5, <1>6, WantedIsALength, FactorsAssumption DEF Least
<1>11. c.score = purpose * purpose * length * fit * fit * speed * speed * speed * size * size
  BY <1>4 DEF Score
<1> HIDE DEF purpose, fit, speed, size, length
<1>12. c.score \in Nat
  <2>1. purpose * purpose \in Nat
    BY <1>7, Positive
  <2>2. purpose * purpose * length \in Nat
    BY <1>10, <2>1, Positive
  <2>3. purpose * purpose * length * fit \in Nat
    BY <1>8, <2>2, Positive
  <2>4. purpose * purpose * length * fit * fit \in Nat
    BY <1>8, <2>3, Positive
  <2>5. purpose * purpose * length * fit * fit * speed \in Nat
    BY <1>9, <2>4, Positive
  <2>6. purpose * purpose * length * fit * fit * speed * speed \in Nat
    BY <1>9, <2>5, Positive
  <2>7. purpose * purpose * length * fit * fit * speed * speed * speed \in Nat
    BY <1>9, <2>6, Positive
  <2>8. purpose * purpose * length * fit * fit * speed * speed * speed * size \in Nat
    BY <1>10, <2>7, Positive
  <2> QED
    BY <1>10, <1>11, <2>8, Positive
<1>13. c.file.bytes \in Nat
  BY <1>3, <1>6 DEF FileType
<1> QED
  BY <1>1, <1>3, <1>4, <1>6, <1>12, <1>13 DEF file, run, admitted

(* A pass's candidates are finitely many, and RanksBefore orders any two.  *)
LEMMA PassIsInLine ==
    ASSUME Known, NEW relaxed \in BOOLEAN
    PROVE  IsFiniteSet(Pass(relaxed)) /\ InLine(Pass(relaxed))
<1> DEFINE C == Pass(relaxed)
<1>1. \A c \in C : /\ c.score \in Nat /\ c.file.bytes \in Nat /\ c.entry.id \in Nat
                   /\ c.entry \in Entries
                   /\ c = Consider(c.entry, DefaultFile(c.entry), asked, relaxed)
  BY CandidateIs
<1>2. IsFiniteSet(C)
  <2> DEFINE S == {e \in Entries : HasFile(e)}
             f == [e \in S |-> Consider(e, DefaultFile(e), asked, relaxed)]
             T == {f[e] : e \in S}
  <2>1. IsFiniteSet(S)
    BY EntriesAreSizes, FS_Subset
  <2>2. IsFiniteSet(T)
    <3> HIDE DEF S, f
    <3> QED
      BY <2>1, ImageIsFinite
  <2>3. C \subseteq T
    BY DEF Pass
  <2> QED
    BY <2>2, <2>3, FS_Subset
<1> HIDE DEF C
<1>3. \A a, b \in C : a.entry.id = b.entry.id => a = b
  BY <1>1, EntriesAreSizes
<1>4. InLine(C)
  <2>1. \A a \in C : ~RanksBefore(a, a)
    BY <1>1 DEF RanksBefore
  <2>2. \A a, b \in C : a # b => RanksBefore(a, b) \/ RanksBefore(b, a)
    BY <1>1, <1>3 DEF RanksBefore
  <2>3. \A a, b, c \in C : RanksBefore(a, b) /\ RanksBefore(b, c) => RanksBefore(a, c)
    BY <1>1 DEF RanksBefore
  <2> QED
    BY <2>1, <2>2, <2>3 DEF InLine
<1> QED
  BY <1>2, <1>4 DEF C

-----------------------------------------------------------------------------
(* Where a size runs whole for what is asked, the first pass has it.       *)
LEMMA WholeIsInFirstPass ==
    ASSUME Known, NEW entry \in Entries, RunsWhole(entry)
    PROVE  Pass(FALSE) # {}
<1> DEFINE file == DefaultFile(entry)
           run == ChosenRun(entry)
<1>1. HasFile(entry)
  BY DEF RunsWhole
<1>2. PICK ctx \in Tried(file, Wanted(asked)) :
          /\ ctx >= asked.minContext
          /\ FitsOnDevice(FitPlaced(plan, file, ctx))
          /\ \E p \in Purposes : Serves(entry, file, ctx, p)
  BY DEF RunsWhole
<1>3. ctx \in Fitting(file, Wanted(asked))
  BY <1>2 DEF Fitting
<1>4. run.whole /\ run.ctx \in Nat /\ ctx \in Nat /\ ctx <= run.ctx
  BY <1>1, <1>3, RunIsChosen
<1>5. asked.minContext \in Nat /\ LongContextMin \in Nat
  BY PurposesAreServed, FactorsAssumption
<1>6. run.ctx >= asked.minContext
  BY <1>2, <1>4, <1>5
<1> HIDE DEF run, file
<1>7. PICK p \in Purposes : Serves(entry, file, ctx, p)
  BY <1>2
<1>8. Serves(entry, file, run.ctx, p)
  <2>1. ctx >= LongContextMin => run.ctx >= LongContextMin
    BY <1>4, <1>5
  <2> QED
    BY <1>7, <2>1 DEF Serves
<1>9. PurposeFit(entry, file, run.ctx) > 0
  BY <1>8, PurposeFitIsNatural
<1>10. Admitted(entry, file, asked, FALSE, run)
  BY <1>4, <1>6, <1>9 DEF Admitted
<1>11. Consider(entry, file, asked, FALSE).ok
  BY <1>10 DEF Consider, Judge, Candidate, ChosenRun, run, file
<1> QED
  BY <1>1, <1>11 DEF Pass, file

(* What spills is a candidate only when allowed, or in the second pass.    *)
LEMMA SpillIsLastResort ==
    ASSUME Known, NEW c \in Candidates, c.est.category = "needs_cpu_offload"
    PROVE  ~asked.gpuOnly /\ (asked.allowSplit \/ \A entry \in Entries : ~RunsWhole(entry))
<1>1. PICK relaxed \in BOOLEAN : c \in Pass(relaxed) /\ (relaxed => Pass(FALSE) = {})
  BY DEF Candidates
<1>2. /\ c.entry \in Entries /\ HasFile(c.entry)
      /\ c.est = ChosenRun(c.entry).est
      /\ Admitted(c.entry, DefaultFile(c.entry), asked, relaxed, ChosenRun(c.entry))
  BY <1>1, CandidateIs
<1>3. ~ChosenRun(c.entry).whole
  <2>1. ChosenRun(c.entry).whole => FitsOnDevice(c.est)
    BY <1>2, RunIsChosen
  <2> QED
    BY <2>1 DEF FitsOnDevice
<1>4. ~asked.gpuOnly /\ (relaxed \/ asked.allowSplit)
  BY <1>2, <1>3 DEF Admitted
<1>5. relaxed => \A entry \in Entries : ~RunsWhole(entry)
  BY <1>1, WholeIsInFirstPass
<1> QED
  BY <1>4, <1>5

BestAnswer(a) == SplitOnlyThen(a) /\ NothingLeftOut(a)

(* An answer with no cards and nothing considered leaves nothing out.      *)
LEMMA EmptyIsBest ==
    ASSUME NEW code
    PROVE  BestAnswer(Empty(code))
<1>1. /\ Empty(code).cards = << >> /\ Empty(code).considered = {}
      /\ DOMAIN Empty(code).cards = {} /\ Len(Empty(code).cards) = 0
  BY DEF Empty
<1>2. MaxRecommendations \in Nat
  BY FactorsAssumption
<1> QED
  BY <1>1, <1>2 DEF BestAnswer, SplitOnlyThen, NothingLeftOut

(* What Recommend answers is the best there is.                            *)
LEMMA AdviceIsBest ==
    ASSUME Known
    PROVE  BestAnswer(Advice)
<1>1. BestAnswer(Choose(Candidates, Current))
  <2>1. PICK relaxed \in BOOLEAN : Candidates = Pass(relaxed)
    BY DEF Candidates
  <2>2. IsFiniteSet(Candidates) /\ InLine(Candidates)
    BY <2>1, PassIsInLine
  <2>3. NothingLeftOut(Choose(Candidates, Current))
    BY <2>2, NothingBetterIsLeft
  <2>4. Chosen(Candidates, Current, Cards(Candidates, Current), Cardinality(Candidates))
    BY <2>2, CardsAreChosen
  <2>5. Cards(Candidates, Current) \in Seq(Candidates)
    BY <2>4 DEF Chosen
  <2>6. \A i \in DOMAIN Cards(Candidates, Current) : Cards(Candidates, Current)[i] \in Candidates
    BY <2>5
  <2>7. Choose(Candidates, Current).cards = Cards(Candidates, Current)
    BY DEF Choose, Result
  <2>8. SplitOnlyThen(Choose(Candidates, Current))
    BY <2>6, <2>7, SpillIsLastResort DEF SplitOnlyThen
  <2> QED
    BY <2>3, <2>8 DEF BestAnswer
<1> QED
  BY <1>1, EmptyIsBest DEF Advice

BestGiven == Known /\ BestAnswer(answer)

(* What an answer is judged by changes only when a request arrives.        *)
LEMMA JudgedAlike ==
    ASSUME UNCHANGED <<machine, catalogue, installed, measured, asked>>, NEW a, BestAnswer(a)
    PROVE  BestAnswer(a)'
<1>1. plan' = plan /\ Purposes' = Purposes /\ Entries' = Entries
  BY DEF plan, Purposes, Entries
<1>2. Wanted(asked)' = Wanted(asked)
  BY <1>1 DEF Wanted
<1>3. \A entry : RunsWhole(entry)' <=> RunsWhole(entry)
  BY <1>1, <1>2 DEF RunsWhole, Serves
<1>4. \A c, cur : IsNews(c, cur)' <=> IsNews(c, cur)
  BY <1>1 DEF IsNews, Changes
<1>5. SplitOnlyThen(a)'
  BY <1>1, <1>3 DEF BestAnswer, SplitOnlyThen
<1>6. NothingLeftOut(a)'
  BY <1>4 DEF BestAnswer, NothingLeftOut
<1> QED
  BY <1>5, <1>6 DEF BestAnswer

(* The same, of the answer that is given.                                  *)
LEMMA AnswerStaysBest ==
    ASSUME UNCHANGED <<machine, catalogue, installed, measured, asked>>,
           NEW a, BestAnswer(a), answer' = a
    PROVE  BestAnswer(answer)'
<1>1. BestAnswer(a)'
  BY JudgedAlike
<1> QED
  BY <1>1 DEF BestAnswer, SplitOnlyThen, NothingLeftOut

(* Whatever the machine, the catalogue, the measurements and the request, and *)
(* however many candidates: the cards answered are the best there is       *)
(* (CardsAreTheBest of Recommend, of recommend.go's Recommend).            *)
THEOREM AdviceIsTheBest == Spec => []CardsAreTheBest
<1>1. Init => BestGiven
  <2> SUFFICES ASSUME Init PROVE BestGiven
    OBVIOUS
  <2>1. machine \in MachineType
    BY MachinesAssumption DEF Init
  <2>2. BestAnswer(answer)
    BY EmptyIsBest DEF Init
  <2> QED
    BY <2>1, <2>2 DEF Init, BestGiven, Known
<1>2. BestGiven /\ [Next]_vars => BestGiven'
  <2> SUFFICES ASSUME BestGiven, [Next]_vars PROVE BestGiven'
    OBVIOUS
  <2>1. CASE Ask
    <3>1. Known'
      BY <2>1 DEF BestGiven, Known, Ask
    <3>2. BestAnswer(answer)'
      <4>1. answer'.cards = << >> /\ answer'.considered = {}
        BY <2>1 DEF Ask, Waiting, Empty
      <4>2. DOMAIN answer'.cards = {} /\ Len(answer'.cards) = 0 /\ MaxRecommendations \in Nat
        BY <4>1, FactorsAssumption
      <4> QED
        BY <4>1, <4>2 DEF BestAnswer, SplitOnlyThen, NothingLeftOut
    <3> QED
      BY <3>1, <3>2 DEF BestGiven
  <2>2. CASE Answer
    <3>1. Known'
      BY <2>2 DEF BestGiven, Known, Answer
    <3>2. PICK a : a = Advice
      OBVIOUS
    <3>3. BestAnswer(a)
      BY <3>2, AdviceIsBest DEF BestGiven
    <3>4. BestAnswer(answer)'
      BY <2>2, <3>2, <3>3, AnswerStaysBest DEF Answer
    <3> QED
      BY <3>1, <3>4 DEF BestGiven
  <2>3. CASE UNCHANGED vars
    <3>1. Known'
      BY <2>3 DEF BestGiven, Known, vars
    <3>2. PICK a : a = answer
      OBVIOUS
    <3>3. BestAnswer(answer)'
      BY <2>3, <3>2, AnswerStaysBest DEF BestGiven, vars
    <3> QED
      BY <3>1, <3>3 DEF BestGiven
  <2> QED
    BY <2>1, <2>2, <2>3 DEF Next
<1>3. BestGiven => CardsAreTheBest
  BY DEF BestGiven, BestAnswer, SplitOnlyThen, NothingLeftOut, CardsAreTheBest,
         SplitOnlyWhenNothingFits, NothingBetterLeftOut
<1> QED
  BY <1>1, <1>2, <1>3, PTL DEF Spec
-----------------------------------------------------------------------------
(* Grades, of the purposes that are recommended for.                       *)
Gr == INSTANCE Grades WITH Purposes <- DOMAIN PurposeContext

(* A stream's grade is of the first bar its rate meets.                    *)
LEMMA StreamIsFirst ==
    ASSUME NEW t, NEW rate
    PROVE  LET g == Gr!StreamGrade(t, rate)
           IN  /\ g \in 0..3 /\ (g = 3 \/ Gr!MeetsStream(t, rate, g))
               /\ \A b \in 0..(g - 1) : ~Gr!MeetsStream(t, rate, b)
<1> DEFINE met(g) == Gr!MeetsStream(t, rate, g)
<1>1. \E g \in 0..3 : (g = 3 \/ met(g)) /\ \A b \in 0..(g - 1) : ~met(b)
  <2> HIDE DEF met
  <2>1. CASE met(0)
    BY <2>1
  <2>2. CASE ~met(0) /\ met(1)
    BY <2>2
  <2>3. CASE ~met(0) /\ ~met(1) /\ met(2)
    BY <2>3
  <2>4. CASE ~met(0) /\ ~met(1) /\ ~met(2)
    BY <2>4
  <2> QED
    BY <2>1, <2>2, <2>3, <2>4
<1> QED
  BY <1>1 DEF Gr!StreamGrade, Gr!FirstMet, Gr!TooSlow

(* A wait's grade is of the first bar it meets.                            *)
LEMMA WaitIsFirst ==
    ASSUME NEW need, NEW w
    PROVE  LET g == Gr!WaitGrade(need, w)
           IN  /\ g \in 0..3 /\ (g = 3 \/ Gr!MeetsWait(need, w, g))
               /\ \A b \in 0..(g - 1) : ~Gr!MeetsWait(need, w, b)
<1> DEFINE met(g) == Gr!MeetsWait(need, w, g)
<1>1. \E g \in 0..3 : (g = 3 \/ met(g)) /\ \A b \in 0..(g - 1) : ~met(b)
  <2> HIDE DEF met
  <2>1. CASE met(0)
    BY <2>1
  <2>2. CASE ~met(0) /\ met(1)
    BY <2>2
  <2>3. CASE ~met(0) /\ ~met(1) /\ met(2)
    BY <2>3
  <2>4. CASE ~met(0) /\ ~met(1) /\ ~met(2)
    BY <2>4
  <2> QED
    BY <2>1, <2>2, <2>3, <2>4
<1> QED
  BY <1>1 DEF Gr!WaitGrade, Gr!FirstMet, Gr!TooSlow

(* A bar of an accepted table has a reading rate.                          *)
LEMMA RankIsOne ==
    ASSUME NEW t, Gr!ValidNeeds(t), NEW g \in 1..3
    PROVE  Gr!RankOf(t.bars[g]) \in 1..3
<1>1. t.bars[g] \in {Gr!Anchors[i] : i \in DOMAIN Gr!Anchors} /\ DOMAIN Gr!Anchors = 1..3
  BY DEF Gr!ValidNeeds, Gr!ValidBars, Gr!Anchors, Gr!Range
<1>2. \E i \in 1..3 : Gr!Anchors[i] = t.bars[g]
  BY <1>1
<1> QED
  BY <1>1, <1>2 DEF Gr!RankOf

(* An answer that meets a bar meets the ones below it: they are in order,  *)
(* and so are the reading rates.                                           *)
LEMMA BarsAreNested ==
    ASSUME NEW t, Gr!TableOK(t), Gr!ValidNeeds(t), NEW rate \in Nat,
           NEW b \in 0..2, NEW c \in b..2, Gr!MeetsStream(t, rate, b)
    PROVE  Gr!MeetsStream(t, rate, c)
<1> DEFINE at(g) == Gr!RankOf(t.bars[g + 1])
<1>1. \A g \in 0..2 : at(g) \in 1..3
  BY RankIsOne
<1>2. at(0) >= at(1) /\ at(1) >= at(2)
  BY DEF Gr!ValidNeeds, Gr!ValidBars
<1> HIDE DEF at
<1>3. at(c) <= at(b)
  <2>1. at(0) \in Nat /\ at(1) \in Nat /\ at(2) \in Nat
    BY <1>1
  <2>2. c \in 0..2 /\ b <= c
    OBVIOUS
  <2> QED
    BY <1>2, <2>1, <2>2
<1>4. t.reading[at(c)] <= t.reading[at(b)]
  <2>1. \A i, j \in 1..3 : i < j => t.reading[i] < t.reading[j]
    BY DEF Gr!ValidNeeds, Gr!ValidBars, Gr!Rising, Gr!TableOK
  <2>2. \A i \in 1..3 : t.reading[i] \in Nat
    BY DEF Gr!TableOK
  <2> QED
    BY <1>1, <1>3, <2>1, <2>2
<1>5. 6 * t.words * rate >= t.reading[at(b)] /\ 6 * t.words * rate \in Nat
  <2>1. 6 * t.words * rate \in Nat
    BY Positive DEF Gr!TableOK
  <2> QED
    BY <2>1 DEF Gr!MeetsStream, at
<1>6. t.reading[at(b)] \in Nat /\ t.reading[at(c)] \in Nat
  BY <1>1 DEF Gr!TableOK
<1>7. 6 * t.words * rate >= t.reading[at(c)]
  BY <1>4, <1>5, <1>6
<1> QED
  BY <1>7 DEF Gr!MeetsStream, at

(* A wait that meets a bar meets the ones below it.                        *)
LEMMA WaitsAreNested ==
    ASSUME NEW need, Gr!NeedOK(need), Gr!ValidNeed(need), NEW w \in Nat \X Nat,
           NEW b \in 0..2, NEW c \in b..2, Gr!MeetsWait(need, w, b)
    PROVE  Gr!MeetsWait(need, w, c)
<1>1. need.wait[b + 1] \in Nat /\ need.wait[c + 1] \in Nat /\ need.wait[b + 1] <= need.wait[c + 1]
  BY DEF Gr!ValidNeed, Gr!Rising, Gr!NeedOK
<1>2. w[1] \in Nat /\ w[2] \in Nat
  OBVIOUS
<1>3. /\ need.wait[b + 1] * w[2] \in Nat /\ need.wait[c + 1] * w[2] \in Nat
      /\ need.wait[b + 1] * w[2] <= need.wait[c + 1] * w[2]
  BY <1>1, <1>2, Products
<1> QED
  BY <1>2, <1>3 DEF Gr!MeetsWait

(* The larger of two, by the Max that Grades has.                          *)
LEMMA LargerIs ==
    ASSUME NEW a \in Nat, NEW b \in Nat
    PROVE  Gr!Max({a, b}) = IF a >= b THEN a ELSE b
<1>1. \E x \in {a, b} : \A y \in {a, b} : x >= y
  BY a >= b \/ b >= a
<1>2. Gr!Max({a, b}) \in {a, b} /\ \A y \in {a, b} : Gr!Max({a, b}) >= y
  BY <1>1 DEF Gr!Max
<1> QED
  BY <1>2

(* What a need's wait is made of.                                          *)
Reads(need) == IF need.mode = "per_step" THEN need.stepPrompt ELSE need.prompt
Writes(need) == IF need.mode = "per_step" THEN need.stepOutput ELSE need.thinking
HasNoWait(need) == Reads(need) = {} \/ (need.mode = "per_step" /\ Writes(need) = {})

(* The wait that Wait works out, over the product of the rates.            *)
IsWait(need, p, gen, x) ==
    \E r \in Reads(need), w \in (IF Writes(need) = {} THEN {0} ELSE Writes(need)) :
        x = <<r * gen + w * p, p * gen>>

(* There is a wait if the need has what it takes, and it is as worked out. *)
LEMMA WaitIs ==
    ASSUME NEW need, Gr!NeedOK(need), NEW p \in Nat \ {0}, NEW gen \in Nat \ {0}
    PROVE  /\ Gr!Wait(need, p, gen) = {} <=> HasNoWait(need)
           /\ \A x \in Gr!Wait(need, p, gen) : x \in Nat \X Nat /\ IsWait(need, p, gen, x)
<1> DEFINE ws == IF Writes(need) = {} THEN {0} ELSE Writes(need)
<1>1. Reads(need) \subseteq Nat /\ Writes(need) \subseteq Nat /\ ws \subseteq Nat /\ ws # {}
  BY DEF Gr!NeedOK, Gr!Optional, Reads, Writes
<1>2. ~(p <= 0) /\ ~(gen <= 0)
  OBVIOUS
<1>3. Gr!Wait(need, p, gen) =
         IF HasNoWait(need) THEN {} ELSE {<<r * gen + w * p, p * gen>> : r \in Reads(need), w \in ws}
  BY <1>2 DEF Gr!Wait, HasNoWait, Reads, Writes
<1>4. ASSUME NEW r \in Reads(need), NEW w \in ws PROVE <<r * gen + w * p, p * gen>> \in Nat \X Nat
  <2>1. r * gen \in Nat /\ w * p \in Nat /\ p * gen \in Nat
    BY <1>1, Positive
  <2> QED
    BY <2>1
<1>5. ~HasNoWait(need) => Reads(need) # {}
  BY DEF HasNoWait
<1> HIDE DEF ws
<1>6. Gr!Wait(need, p, gen) = {} <=> HasNoWait(need)
  <2>1. CASE HasNoWait(need)
    BY <1>3, <2>1
  <2>2. CASE ~HasNoWait(need)
    <3>1. PICK r \in Reads(need), w \in ws : TRUE
      BY <1>1, <1>5, <2>2
    <3>2. <<r * gen + w * p, p * gen>> \in Gr!Wait(need, p, gen)
      BY <1>3, <2>2, <3>1
    <3> QED
      BY <2>2, <3>2
  <2> QED
    BY <2>1, <2>2
<1>7. \A x \in Gr!Wait(need, p, gen) :
         x \in Nat \X Nat /\ \E r \in Reads(need), w \in ws : x = <<r * gen + w * p, p * gen>>
  BY <1>3, <1>4
<1> QED
  BY <1>6, <1>7 DEF ws, IsWait

(* A prompt that is read faster by k leaves no longer a wait.  With the    *)
(* bar W, reading r and writing w at p and g: w is at most W * g, so k     *)
(* adds no more on the left.                                               *)
LEMMA ReadsFaster ==
    ASSUME NEW r \in Nat, NEW w \in Nat, NEW W \in Nat, NEW p \in Nat \ {0}, NEW g \in Nat \ {0},
           NEW k \in Nat, r * g + w * p <= W * (p * g)
    PROVE  r * g + w * (p + k) <= W * ((p + k) * g)
<1>1. /\ r * g \in Nat /\ w * p \in Nat /\ w * k \in Nat /\ W * g \in Nat
      /\ (W * g) * p \in Nat /\ (W * g) * k \in Nat
  <2>1. W * g \in Nat
    BY Positive
  <2> QED
    BY <2>1, Positive
<1>2. /\ w * (p + k) = w * p + w * k
      /\ W * (p * g) = (W * g) * p
      /\ W * ((p + k) * g) = (W * g) * p + (W * g) * k
  OBVIOUS
<1>3. w <= W * g
  <2> SUFFICES ASSUME W * g + 1 <= w PROVE FALSE
    BY <1>1
  <2> DEFINE v == W * g
  <2>1. v \in Nat
    BY <1>1
  <2> HIDE DEF v
  <2>2. (v + 1) * p <= w * p /\ (v + 1) * p = v * p + p
    BY <2>1, Products DEF v
  <2>3. w * p <= v * p
    BY <1>1, <1>2 DEF v
  <2> QED
    BY <1>1, <2>1, <2>2, <2>3 DEF v
<1>4. w * k <= (W * g) * k
  BY <1>1, <1>3, Products
<1> QED
  BY <1>1, <1>2, <1>4

(* Where both rates are higher, a bar that was met is met: ReadsFaster     *)
(* twice.                                                                  *)
LEMMA FasterWaitsLess ==
    ASSUME NEW r \in Nat, NEW w \in Nat, NEW W \in Nat,
           NEW p \in Nat \ {0}, NEW g \in Nat \ {0}, NEW p2 \in Nat, NEW g2 \in Nat, p <= p2, g <= g2,
           r * g + w * p <= W * (p * g)
    PROVE  r * g2 + w * p2 <= W * (p2 * g2)
<1> DEFINE k == p2 - p
           l == g2 - g
<1>1. k \in Nat /\ l \in Nat /\ p2 = p + k /\ g2 = g + l /\ p2 \in Nat \ {0}
  OBVIOUS
<1>2. r * g + w * p2 <= W * (p2 * g)
  BY <1>1, ReadsFaster
<1>3. w * p2 + r * g <= W * (g * p2)
  <2>1. r * g \in Nat /\ w * p2 \in Nat /\ p2 * g = g * p2
    BY <1>1, Positive
  <2> QED
    BY <1>2, <2>1
<1>4. w * p2 + r * (g + l) <= W * ((g + l) * p2)
  BY <1>1, <1>3, ReadsFaster
<1>5. r * g2 \in Nat /\ w * p2 \in Nat /\ p2 * g2 = g2 * p2
  BY <1>1, Positive
<1> QED
  BY <1>1, <1>4, <1>5

(* At the faster end the wait's grade is no worse.                         *)
LEMMA FasterWaitGrade ==
    ASSUME NEW need, Gr!NeedOK(need), NEW p \in Nat \ {0}, NEW g \in Nat \ {0},
           NEW p2 \in Nat, NEW g2 \in Nat, p <= p2, g <= g2,
           NEW x \in Gr!Wait(need, p, g), NEW y \in Gr!Wait(need, p2, g2)
    PROVE  Gr!WaitGrade(need, y) <= Gr!WaitGrade(need, x)
<1> DEFINE gx == Gr!WaitGrade(need, x)
           gy == Gr!WaitGrade(need, y)
           ws == IF Writes(need) = {} THEN {0} ELSE Writes(need)
<1>0. p2 \in Nat \ {0} /\ g2 \in Nat \ {0}
  OBVIOUS
<1> HIDE DEF ws
<1>1. PICK r \in Reads(need), w \in ws : x = <<r * g + w * p, p * g>>
  <2>1. IsWait(need, p, g, x)
    BY WaitIs
  <2> QED
    BY <2>1 DEF IsWait, ws
<1>2. PICK r2 \in Reads(need), w2 \in ws : y = <<r2 * g2 + w2 * p2, p2 * g2>>
  <2>1. IsWait(need, p2, g2, y)
    BY <1>0, WaitIs
  <2> QED
    BY <2>1 DEF IsWait, ws
<1>3. r2 = r /\ w2 = w /\ r \in Nat /\ w \in Nat
  BY DEF Gr!NeedOK, Gr!Optional, Gr!AtMostOne, Reads, Writes, ws
<1>4. gx \in 0..3 /\ (gx = 3 \/ Gr!MeetsWait(need, x, gx))
  BY WaitIsFirst
<1>5. gy \in 0..3 /\ \A b \in 0..(gy - 1) : ~Gr!MeetsWait(need, y, b)
  BY WaitIsFirst
<1> HIDE DEF gx, gy
<1>6. CASE gx = 3
  BY <1>5, <1>6 DEF gx, gy
<1>7. CASE gx # 3
  <2> DEFINE W == need.wait[gx + 1]
  <2>1. W \in Nat
    BY <1>4, <1>7 DEF Gr!NeedOK
  <2>2. r * g + w * p <= W * (p * g)
    BY <1>1, <1>4, <1>7 DEF Gr!MeetsWait
  <2> HIDE DEF W
  <2>3. r * g2 + w * p2 <= W * (p2 * g2)
    BY <1>3, <2>1, <2>2, FasterWaitsLess
  <2>4. Gr!MeetsWait(need, y, gx)
    BY <1>2, <1>3, <2>3 DEF Gr!MeetsWait, W
  <2>5. gx \notin 0..(gy - 1)
    BY <1>5, <2>4
  <2> QED
    BY <1>4, <1>5, <2>5 DEF gx, gy
<1> QED
  BY <1>6, <1>7

(* At the faster end the stream's grade is no worse.                       *)
LEMMA FasterStreamGrade ==
    ASSUME NEW t, Gr!TableOK(t), NEW g \in Nat, NEW g2 \in Nat, g <= g2, Gr!ValidNeeds(t)
    PROVE  Gr!StreamGrade(t, g2) <= Gr!StreamGrade(t, g)
<1> DEFINE gx == Gr!StreamGrade(t, g)
           gy == Gr!StreamGrade(t, g2)
<1>1. gx \in 0..3 /\ (gx = 3 \/ Gr!MeetsStream(t, g, gx))
  BY StreamIsFirst
<1>2. gy \in 0..3 /\ \A b \in 0..(gy - 1) : ~Gr!MeetsStream(t, g2, b)
  BY StreamIsFirst
<1> HIDE DEF gx, gy
<1>3. CASE gx = 3
  BY <1>2, <1>3 DEF gx, gy
<1>4. CASE gx # 3
  <2> DEFINE bar == t.reading[Gr!RankOf(t.bars[gx + 1])]
             six == 6 * t.words
  <2>1. six \in Nat /\ six * g >= bar
    BY <1>1, <1>4, Positive DEF Gr!TableOK, Gr!MeetsStream
  <2>2. bar \in Nat
    <3>1. gx + 1 \in 1..3
      BY <1>1, <1>4
    <3>2. Gr!RankOf(t.bars[gx + 1]) \in 1..3
      BY <3>1, RankIsOne
    <3> QED
      BY <3>2 DEF Gr!TableOK
  <2> HIDE DEF six, bar
  <2>3. g * six \in Nat /\ g2 * six \in Nat /\ g * six <= g2 * six /\ six * g = g * six /\ six * g2 = g2 * six
    BY <2>1, Products
  <2>4. six * g2 >= bar
    BY <2>1, <2>2, <2>3
  <2>5. Gr!MeetsStream(t, g2, gx)
    BY <2>4 DEF Gr!MeetsStream, six, bar
  <2>6. gx \notin 0..(gy - 1)
    BY <1>2, <2>5
  <2> QED
    BY <1>1, <1>2, <2>6 DEF gx, gy
<1> QED
  BY <1>3, <1>4

(* A grade at one end: with a wait, and without.                           *)
Along(need) == need.mode = "read_along"
Waited(t, need, gen, P, e) ==
    /\ P # {} /\ ~HasNoWait(need)
    /\ \E p \in P : \E w \in Gr!Wait(need, p, gen) :
          LET g == Gr!WaitGrade(need, w)
              s == Gr!StreamGrade(t, gen)
          IN  /\ e.wait = {w} /\ e.limits = (Along(need) => g >= s)
              /\ e.grade = IF Along(need) /\ s >= g THEN s ELSE g
Unwaited(t, need, gen, P, e) ==
    /\ P = {} \/ HasNoWait(need)
    /\ Along(need) /\ e.wait = {} /\ e.grade = Gr!StreamGrade(t, gen) /\ e.limits = FALSE

(* Either there is a wait, and the grade is the worse of the two, or there *)
(* is none, and it is the stream's.                                        *)
LEMMA EndIs ==
    ASSUME NEW t, NEW need, Gr!NeedOK(need), NEW gen \in Nat \ {0}, NEW P, P \subseteq Nat \ {0},
           NEW e \in Gr!OneEnd(t, need, gen, P)
    PROVE  Waited(t, need, gen, P, e) \/ Unwaited(t, need, gen, P, e)
<1> DEFINE s == Gr!StreamGrade(t, gen)
           stream == IF need.mode = "read_along" THEN {s} ELSE {}
           waits == UNION {Gr!Wait(need, p, gen) : p \in P}
           of(w) == LET g == Gr!WaitGrade(need, w) IN
             [grade |-> Gr!Worse(g, IF stream = {} THEN 0 ELSE Gr!Max(stream)), wait |-> {w},
              limits |-> \A x \in stream : g >= x]
<1>1. Gr!OneEnd(t, need, gen, P) =
         IF waits # {} THEN {of(w) : w \in waits}
         ELSE {[grade |-> x, wait |-> {}, limits |-> FALSE] : x \in stream}
  BY DEF Gr!OneEnd
<1>2. s \in 0..3
  BY StreamIsFirst
<1> HIDE DEF s
<1>3. waits = {} <=> P = {} \/ HasNoWait(need)
  <2>1. \A p \in P : Gr!Wait(need, p, gen) = {} <=> HasNoWait(need)
    BY WaitIs
  <2> QED
    BY <2>1
<1>4. CASE waits # {}
  <2>1. PICK w \in waits : e = of(w)
    <3> HIDE DEF waits, of
    <3> QED
      BY <1>1, <1>4
  <2>2. PICK p \in P : w \in Gr!Wait(need, p, gen)
    OBVIOUS
  <2> DEFINE g == Gr!WaitGrade(need, w)
  <2>3. g \in 0..3
    BY WaitIsFirst
  <2>4. e.wait = {w} /\ e.limits = (\A x \in stream : g >= x)
        /\ e.grade = Gr!Worse(g, IF stream = {} THEN 0 ELSE Gr!Max(stream))
    BY <2>1
  <2> HIDE DEF g, waits, of
  <2>5. Gr!Max({s}) = s
    BY <1>2 DEF Gr!Max
  <2>6. e.grade = IF Along(need) /\ s >= g THEN s ELSE g
    <3>1. CASE Along(need)
      <4>1. stream = {s}
        BY <3>1 DEF Along
      <4>2. e.grade = Gr!Max({g, s})
        BY <2>4, <2>5, <4>1 DEF Gr!Worse
      <4> QED
        BY <1>2, <2>3, <3>1, <4>2, LargerIs
    <3>2. CASE ~Along(need)
      <4>1. stream = {}
        BY <3>2 DEF Along
      <4>2. e.grade = Gr!Max({g, 0})
        BY <2>4, <4>1 DEF Gr!Worse
      <4> QED
        BY <2>3, <3>2, <4>2, LargerIs
    <3> QED
      BY <3>1, <3>2
  <2>7. e.limits = (Along(need) => g >= s)
    BY <2>4 DEF Along
  <2>8. P # {} /\ ~HasNoWait(need)
    BY <1>3, <1>4
  <2> QED
    BY <2>2, <2>4, <2>6, <2>7, <2>8 DEF Waited, g, s
<1>5. CASE waits = {}
  <2>1. PICK x \in stream : e = [grade |-> x, wait |-> {}, limits |-> FALSE]
    <3> HIDE DEF waits, of, stream
    <3> QED
      BY <1>1, <1>5
  <2>2. x = s /\ Along(need)
    BY <2>1 DEF Along
  <2> QED
    BY <1>3, <1>5, <2>1, <2>2 DEF Unwaited, s
<1> QED
  BY <1>4, <1>5

(* There is a grade where there is a stream or a wait.                     *)
LEMMA EndExists ==
    ASSUME NEW t, NEW need, Gr!NeedOK(need), NEW gen \in Nat \ {0}, NEW P, P \subseteq Nat \ {0},
           Along(need) \/ (P # {} /\ ~HasNoWait(need))
    PROVE  Gr!OneEnd(t, need, gen, P) # {}
<1> DEFINE s == Gr!StreamGrade(t, gen)
           stream == IF need.mode = "read_along" THEN {s} ELSE {}
           waits == UNION {Gr!Wait(need, p, gen) : p \in P}
           of(w) == LET g == Gr!WaitGrade(need, w) IN
             [grade |-> Gr!Worse(g, IF stream = {} THEN 0 ELSE Gr!Max(stream)), wait |-> {w},
              limits |-> \A x \in stream : g >= x]
<1>1. Gr!OneEnd(t, need, gen, P) =
         IF waits # {} THEN {of(w) : w \in waits}
         ELSE {[grade |-> x, wait |-> {}, limits |-> FALSE] : x \in stream}
  BY DEF Gr!OneEnd
<1>2. ~Along(need) => waits # {}
  <2> SUFFICES ASSUME ~Along(need) PROVE waits # {}
    OBVIOUS
  <2>1. PICK p \in P : ~HasNoWait(need)
    OBVIOUS
  <2>2. Gr!Wait(need, p, gen) # {}
    BY <2>1, WaitIs
  <2> QED
    BY <2>2
<1>3. Along(need) => stream # {}
  BY DEF Along
<1> HIDE DEF waits, of, stream
<1> QED
  BY <1>1, <1>2, <1>3

(* A purpose has one need at most: an accepted table has one for each.     *)
LEMMA NeedIsOne ==
    ASSUME NEW t, Gr!TableOK(t), Gr!ValidNeeds(t), NEW purpose
    PROVE  /\ Gr!AtMostOne(Gr!Need(t, purpose))
           /\ \A need \in Gr!Need(t, purpose) : Gr!NeedOK(need) /\ Gr!ValidNeed(need)
<1> DEFINE n == Len(t.purposes)
           P == DOMAIN PurposeContext
           f == [i \in 1..n |-> t.purposes[i].purpose]
<1>1. DOMAIN t.purposes = 1..n /\ n \in Nat
  BY DEF Gr!TableOK
<1>2. P = {t.purposes[i].purpose : i \in 1..n} /\ n = Cardinality(P) /\ IsFiniteSet(P)
  <2>1. Gr!Cardinality(P) = Cardinality(P)
    BY DEF Gr!Cardinality, Cardinality
  <2> QED
    BY <1>1, <2>1, PurposesAssumption DEF Gr!ValidNeeds
<1>3. f \in Surjection(1..n, P)
  <2>1. f \in [1..n -> P] /\ \A y \in P : \E i \in 1..n : f[i] = y
    BY <1>2
  <2> HIDE DEF f, P, n
  <2> QED
    BY <2>1 DEF Surjection
<1>4. IsFiniteSet(1..n) /\ Cardinality(1..n) = n
  <2>1. IsFiniteSet(1..n) /\ Cardinality(1..n) = IF 1 > n THEN 0 ELSE n - 1 + 1
    BY <1>1, FS_Interval, 1 \in Int
  <2> QED
    BY <1>1, <2>1
<1>5. f \in Injection(1..n, P)
  <2> HIDE DEF f, P, n
  <2> QED
    BY <1>2, <1>3, <1>4, FS_Surjection
<1>6. \A i, j \in 1..n : f[i] = f[j] => i = j
  <2> HIDE DEF f, P, n
  <2> QED
    BY <1>5 DEF Injection, IsInjective
<1>7. \A i, j \in 1..n : t.purposes[i].purpose = t.purposes[j].purpose => i = j
  BY <1>6
<1>8. \A i \in 1..n : Gr!NeedOK(t.purposes[i]) /\ Gr!ValidNeed(t.purposes[i])
  BY <1>1 DEF Gr!TableOK, Gr!ValidNeeds
<1> QED
  BY <1>1, <1>7, <1>8 DEF Gr!Need, Gr!AtMostOne

(* The prompt's rate at either end, and a grade there.                     *)
Slow(prompt) == {p.low : p \in prompt}
Fast(prompt) == {p.high : p \in prompt}
Ended(t, need, gen, P, e) == Waited(t, need, gen, P, e) \/ Unwaited(t, need, gen, P, e)
(* What GradeSpeed answers of its two ends.                                *)
Says(g, low, high, gen, prompt) ==
    /\ g.low = low.grade /\ g.high = high.grade /\ g.slow = low.wait
    /\ g.limit = (IF low.wait # {} /\ low.limits THEN "wait" ELSE "answer_speed")
    /\ g.source = Gr!SourceOf(gen, prompt)

(* The grades at either end, and what GradeSpeed makes of two of them.     *)
Lows(t, purpose, gen, prompt) ==
    UNION {Gr!OneEnd(t, n, gen.low, {p.low : p \in prompt}) : n \in Gr!Need(t, purpose)}
Highs(t, purpose, gen, prompt) ==
    UNION {Gr!OneEnd(t, n, gen.high, {p.high : p \in prompt}) : n \in Gr!Need(t, purpose)}
Answered(low, high, gen, prompt) ==
    [low |-> low.grade, high |-> high.grade, slow |-> low.wait, fast |-> high.wait,
     waitLimits |-> low.wait # {} /\ (low.limits \/ high.limits),
     limit |-> IF low.wait # {} /\ low.limits THEN "wait" ELSE "answer_speed",
     source |-> Gr!SourceOf(gen, prompt)]

(* GradeSpeed is made of a grade at either end.                            *)
LEMMA SpeedSet ==
    ASSUME NEW t, NEW purpose, NEW gen, NEW prompt
    PROVE  Gr!GradeSpeed(t, purpose, gen, prompt) =
             {Answered(low, high, gen, prompt) :
                low \in Lows(t, purpose, gen, prompt), high \in Highs(t, purpose, gen, prompt)}
BY DEF Gr!GradeSpeed, Lows, Highs, Answered

(* What GradeSpeed answers, by the two ends.                               *)
LEMMA SpeedIs ==
    ASSUME NEW t, Gr!TableOK(t), Gr!ValidNeeds(t), NEW purpose, NEW gen, Gr!RateOK(gen),
           NEW prompt, \A p \in prompt : Gr!RateOK(p),
           NEW need \in Gr!Need(t, purpose), NEW g \in Gr!GradeSpeed(t, purpose, gen, prompt)
    PROVE  \E low, high : /\ Ended(t, need, gen.low, Slow(prompt), low)
                          /\ Ended(t, need, gen.high, Fast(prompt), high)
                          /\ Says(g, low, high, gen, prompt)
<1>2. PICK low \in Lows(t, purpose, gen, prompt), high \in Highs(t, purpose, gen, prompt) :
         g = Answered(low, high, gen, prompt)
  BY SpeedSet
<1>3. Says(g, low, high, gen, prompt)
  BY <1>2 DEF Says, Answered
<1>4. \A n \in Gr!Need(t, purpose) : n = need
  BY NeedIsOne DEF Gr!AtMostOne
<1>5. low \in Gr!OneEnd(t, need, gen.low, Slow(prompt)) /\ high \in Gr!OneEnd(t, need, gen.high, Fast(prompt))
  BY <1>2, <1>4 DEF Slow, Fast, Lows, Highs
<1>6. /\ gen.low \in Nat \ {0} /\ gen.high \in Nat \ {0}
      /\ Slow(prompt) \subseteq Nat \ {0} /\ Fast(prompt) \subseteq Nat \ {0}
  BY DEF Gr!RateOK, Slow, Fast
<1>7. Gr!NeedOK(need)
  BY NeedIsOne
<1>8. Ended(t, need, gen.low, Slow(prompt), low) /\ Ended(t, need, gen.high, Fast(prompt), high)
  BY <1>5, <1>6, <1>7, EndIs DEF Ended
<1> QED
  BY <1>3, <1>8

(* The faster end is graded no worse.                                      *)
LEMMA FasterEnd ==
    ASSUME NEW t, Gr!TableOK(t), Gr!ValidNeeds(t), NEW gen, Gr!RateOK(gen),
           NEW prompt, Gr!AtMostOne(prompt), \A p \in prompt : Gr!RateOK(p), NEW need, Gr!NeedOK(need),
           NEW low, Ended(t, need, gen.low, Slow(prompt), low),
           NEW high, Ended(t, need, gen.high, Fast(prompt), high)
    PROVE  high.grade <= low.grade
<1> DEFINE sl == Gr!StreamGrade(t, gen.low)
           sh == Gr!StreamGrade(t, gen.high)
<1>1. gen.low \in Nat \ {0} /\ gen.high \in Nat \ {0} /\ gen.low <= gen.high
  BY DEF Gr!RateOK
<1>2. sl \in 0..3 /\ sh \in 0..3 /\ sh <= sl
  BY <1>1, StreamIsFirst, FasterStreamGrade
<1>3. (Slow(prompt) = {} <=> prompt = {}) /\ (Fast(prompt) = {} <=> prompt = {})
  BY DEF Slow, Fast
<1> HIDE DEF sl, sh
<1>4. CASE prompt = {} \/ HasNoWait(need)
  <2>1. ~Waited(t, need, gen.low, Slow(prompt), low) /\ ~Waited(t, need, gen.high, Fast(prompt), high)
    BY <1>3, <1>4 DEF Waited
  <2>2. low.grade = sl /\ high.grade = sh
    BY <2>1 DEF Ended, Unwaited, sl, sh
  <2> QED
    BY <1>2, <2>2
<1>5. CASE ~(prompt = {} \/ HasNoWait(need))
  <2>1. Waited(t, need, gen.low, Slow(prompt), low) /\ Waited(t, need, gen.high, Fast(prompt), high)
    BY <1>3, <1>5 DEF Ended, Unwaited
  <2>2. PICK p \in Slow(prompt) : \E w \in Gr!Wait(need, p, gen.low) :
           low.grade = IF Along(need) /\ sl >= Gr!WaitGrade(need, w) THEN sl ELSE Gr!WaitGrade(need, w)
    BY <2>1 DEF Waited, sl
  <2>3. PICK w \in Gr!Wait(need, p, gen.low) :
           low.grade = IF Along(need) /\ sl >= Gr!WaitGrade(need, w) THEN sl ELSE Gr!WaitGrade(need, w)
    BY <2>2
  <2>4. PICK q \in Fast(prompt) : \E v \in Gr!Wait(need, q, gen.high) :
           high.grade = IF Along(need) /\ sh >= Gr!WaitGrade(need, v) THEN sh ELSE Gr!WaitGrade(need, v)
    BY <2>1 DEF Waited, sh
  <2>5. PICK v \in Gr!Wait(need, q, gen.high) :
           high.grade = IF Along(need) /\ sh >= Gr!WaitGrade(need, v) THEN sh ELSE Gr!WaitGrade(need, v)
    BY <2>4
  <2>6. p \in Nat \ {0} /\ q \in Nat \ {0} /\ p <= q
    BY DEF Slow, Fast, Gr!AtMostOne, Gr!RateOK
  <2> DEFINE gl == Gr!WaitGrade(need, w)
             gh == Gr!WaitGrade(need, v)
  <2>7. gh <= gl
    BY <1>1, <2>6, FasterWaitGrade
  <2>8. gl \in 0..3 /\ gh \in 0..3
    BY WaitIsFirst
  <2>9. /\ low.grade = IF Along(need) /\ sl >= gl THEN sl ELSE gl
        /\ high.grade = IF Along(need) /\ sh >= gh THEN sh ELSE gh
    BY <2>3, <2>5
  <2> HIDE DEF gl, gh
  <2> QED
    BY <1>2, <2>7, <2>8, <2>9
<1> QED
  BY <1>4, <1>5

(* Every bar up to an end's grade is met, by the stream and by the wait.   *)
LEMMA EndIsEarned ==
    ASSUME NEW t, Gr!TableOK(t), Gr!ValidNeeds(t), NEW gen \in Nat \ {0},
           NEW P, P \subseteq Nat \ {0}, NEW need, Gr!NeedOK(need), Gr!ValidNeed(need),
           NEW e, Ended(t, need, gen, P, e)
    PROVE  /\ e.grade \in 0..3
           /\ \A b \in e.grade..2 : /\ Along(need) => Gr!MeetsStream(t, gen, b)
                                    /\ \A w \in e.wait : Gr!MeetsWait(need, w, b)
<1> DEFINE s == Gr!StreamGrade(t, gen)
<1>1. s \in 0..3 /\ (s = 3 \/ Gr!MeetsStream(t, gen, s))
  BY StreamIsFirst
<1>2. \A b \in s..2 : Gr!MeetsStream(t, gen, b)
  BY <1>1, BarsAreNested
<1> HIDE DEF s
<1>3. CASE Unwaited(t, need, gen, P, e)
  BY <1>1, <1>2, <1>3 DEF Unwaited, s
<1>4. CASE Waited(t, need, gen, P, e)
  <2>1. PICK p \in P : \E w \in Gr!Wait(need, p, gen) :
           e.wait = {w} /\ e.grade = IF Along(need) /\ s >= Gr!WaitGrade(need, w) THEN s ELSE Gr!WaitGrade(need, w)
    BY <1>4 DEF Waited, s
  <2>2. PICK w \in Gr!Wait(need, p, gen) :
           e.wait = {w} /\ e.grade = IF Along(need) /\ s >= Gr!WaitGrade(need, w) THEN s ELSE Gr!WaitGrade(need, w)
    BY <2>1
  <2> DEFINE g == Gr!WaitGrade(need, w)
  <2>3. g \in 0..3 /\ (g = 3 \/ Gr!MeetsWait(need, w, g))
    BY WaitIsFirst
  <2>4. w \in Nat \X Nat
    BY WaitIs
  <2>5. \A b \in g..2 : Gr!MeetsWait(need, w, b)
    BY <2>3, <2>4, WaitsAreNested
  <2>6. e.wait = {w} /\ e.grade = IF Along(need) /\ s >= g THEN s ELSE g
    BY <2>2
  <2> HIDE DEF g
  <2>7. e.grade \in 0..3 /\ e.grade >= g /\ (Along(need) => e.grade >= s)
    BY <1>1, <2>3, <2>6
  <2>8. \A b \in e.grade..2 : b \in g..2 /\ (Along(need) => b \in s..2)
    BY <1>1, <2>3, <2>7
  <2> QED
    BY <1>2, <2>5, <2>6, <2>7, <2>8
<1> QED
  BY <1>3, <1>4 DEF Ended

(* GradeSpeed answers for a stream, or when the prompt speed is known.     *)
LEMMA SpeedExists ==
    ASSUME NEW t, Gr!TableOK(t), Gr!ValidNeeds(t), NEW purpose, NEW gen, Gr!RateOK(gen),
           NEW prompt, \A p \in prompt : Gr!RateOK(p), NEW need \in Gr!Need(t, purpose),
           Along(need) \/ prompt # {}
    PROVE  Gr!GradeSpeed(t, purpose, gen, prompt) # {}
<1>3. Gr!NeedOK(need) /\ Gr!ValidNeed(need)
  BY NeedIsOne
<1>4. ~HasNoWait(need) \/ Along(need)
  BY <1>3 DEF Gr!ValidNeed, HasNoWait, Reads, Writes, Along
<1>5. /\ gen.low \in Nat \ {0} /\ gen.high \in Nat \ {0}
      /\ Slow(prompt) \subseteq Nat \ {0} /\ Fast(prompt) \subseteq Nat \ {0}
      /\ prompt # {} => Slow(prompt) # {} /\ Fast(prompt) # {}
  BY DEF Gr!RateOK, Slow, Fast
<1>6. Gr!OneEnd(t, need, gen.low, Slow(prompt)) # {} /\ Gr!OneEnd(t, need, gen.high, Fast(prompt)) # {}
  BY <1>3, <1>4, <1>5, EndExists
<1>7. PICK low \in Lows(t, purpose, gen, prompt), high \in Highs(t, purpose, gen, prompt) : TRUE
  BY <1>6 DEF Lows, Highs, Slow, Fast
<1>8. Answered(low, high, gen, prompt) \in
         {Answered(x, y, gen, prompt) :
            x \in Lows(t, purpose, gen, prompt), y \in Highs(t, purpose, gen, prompt)}
  BY <1>7
<1>9. Answered(low, high, gen, prompt) \in Gr!GradeSpeed(t, purpose, gen, prompt)
  BY <1>8, SpeedSet
<1> QED
  BY <1>9

(* A need of an accepted table has a wait, and is read along or is a step. *)
LEMMA TwoModes ==
    ASSUME NEW need, Gr!ValidNeed(need)
    PROVE  /\ Along(need) <=> need.mode # "per_step"
           /\ ~HasNoWait(need)
BY DEF Gr!ValidNeed, Along, HasNoWait, Reads, Writes

(* For every table, purpose, answer speed and prompt speed, whatever the   *)
(* numbers: if the table is accepted, a grade is no worse at the faster    *)
(* end, every bar up to it is met, nothing that was not measured is said   *)
(* to have been, and a wait is given as the reason only where it is        *)
(* (GradeHolds of Grades, of grade.go's GradeSpeed and verdict.go's        *)
(* Verdicts).                                                              *)
THEOREM GradesAreEarned ==
    ASSUME NEW t, NEW purpose, NEW gen, NEW prompt, Gr!GradedOK(t, gen, prompt)
    PROVE  Gr!GradeHolds(t, purpose, gen, prompt)
<1>0. /\ Gr!TableOK(t) /\ Gr!RateOK(gen)
      /\ Gr!AtMostOne(prompt) /\ \A p \in prompt : Gr!RateOK(p)
  BY DEF Gr!GradedOK
<1> SUFFICES ASSUME Gr!ValidNeeds(t)
             PROVE  /\ Gr!FasterIsNoWorse(t, purpose, gen, prompt) /\ Gr!GradeIsEarned(t, purpose, gen, prompt)
                    /\ Gr!NothingMadeUp(t, purpose, gen, prompt) /\ Gr!WaitIsTheReason(t, purpose, gen, prompt)
  BY DEF Gr!GradeHolds
<1> DEFINE grades == Gr!GradeSpeed(t, purpose, gen, prompt)
<1>1. ASSUME NEW need \in Gr!Need(t, purpose), NEW g \in grades
      PROVE  \E low, high : /\ Ended(t, need, gen.low, Slow(prompt), low)
                            /\ Ended(t, need, gen.high, Fast(prompt), high)
                            /\ Says(g, low, high, gen, prompt)
  BY <1>0, <1>1, SpeedIs
<1>2. \A need \in Gr!Need(t, purpose) : Gr!NeedOK(need) /\ Gr!ValidNeed(need)
  BY <1>0, NeedIsOne
<1>3. /\ gen.low \in Nat \ {0} /\ gen.high \in Nat \ {0}
      /\ Slow(prompt) \subseteq Nat \ {0} /\ Fast(prompt) \subseteq Nat \ {0}
      /\ Slow(prompt) = {} <=> prompt = {}
  BY <1>0 DEF Gr!RateOK, Slow, Fast
<1>4. Gr!Need(t, purpose) = {} => grades = {}
  <2>1. Gr!Need(t, purpose) = {} => Lows(t, purpose, gen, prompt) = {}
    BY DEF Lows
  <2> QED
    BY <2>1, SpeedSet
<1> HIDE DEF grades
<1>5. Gr!FasterIsNoWorse(t, purpose, gen, prompt)
  <2> SUFFICES ASSUME NEW g \in grades PROVE g.high <= g.low
    BY DEF Gr!FasterIsNoWorse, grades
  <2>1. PICK need \in Gr!Need(t, purpose) : TRUE
    BY <1>4
  <2>2. PICK low, high : /\ Ended(t, need, gen.low, Slow(prompt), low)
                         /\ Ended(t, need, gen.high, Fast(prompt), high)
                         /\ Says(g, low, high, gen, prompt)
    BY <1>1, <2>1
  <2>3. high.grade <= low.grade
    BY <1>2, <2>1, <2>2, <1>0, FasterEnd
  <2> QED
    BY <2>2, <2>3 DEF Says
<1>6. Gr!GradeIsEarned(t, purpose, gen, prompt)
  <2> SUFFICES ASSUME NEW need \in Gr!Need(t, purpose), NEW g \in grades, NEW b \in g.low..2
               PROVE  /\ need.mode = "read_along" => Gr!MeetsStream(t, gen.low, b)
                      /\ \A w \in g.slow : Gr!MeetsWait(need, w, b)
    BY DEF Gr!GradeIsEarned, grades
  <2>1. PICK low, high : /\ Ended(t, need, gen.low, Slow(prompt), low)
                         /\ Ended(t, need, gen.high, Fast(prompt), high)
                         /\ Says(g, low, high, gen, prompt)
    BY <1>1
  <2>2. \A c \in low.grade..2 : /\ Along(need) => Gr!MeetsStream(t, gen.low, c)
                                /\ \A w \in low.wait : Gr!MeetsWait(need, w, c)
    BY <1>2, <1>3, <2>1, <1>0, EndIsEarned
  <2> QED
    BY <2>1, <2>2 DEF Says, Along
<1>7. Gr!NothingMadeUp(t, purpose, gen, prompt)
  <2>1. ASSUME NEW need \in Gr!Need(t, purpose)
        PROVE  grades = {} <=> need.mode = "per_step" /\ prompt = {}
    <3>1. Along(need) <=> need.mode # "per_step"
      BY <1>2, TwoModes
    <3>2. Along(need) \/ prompt # {} => grades # {}
      BY <1>0, SpeedExists DEF grades
    <3>3. ASSUME ~Along(need), prompt = {}, NEW g \in grades PROVE FALSE
      <4>1. PICK low, high : Ended(t, need, gen.low, Slow(prompt), low)
        BY <1>1
      <4> QED
        BY <1>3, <3>3, <4>1 DEF Ended, Waited, Unwaited
    <3> QED
      BY <3>1, <3>2, <3>3
  <2>2. ASSUME NEW g \in grades, g.source = "measured"
        PROVE  gen.source = "measured" /\ \A p \in prompt : p.source = "measured"
    <3>1. PICK need \in Gr!Need(t, purpose) : TRUE
      BY <1>4
    <3>2. PICK low, high : Says(g, low, high, gen, prompt)
      BY <1>1, <3>1
    <3> QED
      BY <2>2, <3>2 DEF Says, Gr!SourceOf
  <2> QED
    BY <2>1, <2>2 DEF Gr!NothingMadeUp, grades
<1>8. Gr!WaitIsTheReason(t, purpose, gen, prompt)
  <2> SUFFICES ASSUME NEW need \in Gr!Need(t, purpose), Gr!VerdictFor(t, purpose, gen, prompt).waitSaid
               PROVE  LET v == Gr!VerdictFor(t, purpose, gen, prompt)
                      IN  /\ v.low > 0 /\ \A w \in v.wait : Gr!WaitGrade(need, w) = v.low
                          /\ need.mode = "read_along" => Gr!StreamGrade(t, gen.low) <= v.low
    BY DEF Gr!WaitIsTheReason
  <2> DEFINE v == Gr!VerdictFor(t, purpose, gen, prompt)
             g == CHOOSE g \in grades : TRUE
  <2>1. /\ grades # {}
        /\ v.low = g.low /\ v.wait = g.slow
        /\ g.slow # {} /\ g.limit = "wait" /\ g.low # 0
    BY DEF Gr!VerdictFor, Gr!Verdict, grades
  <2>2. g \in grades
    BY <2>1
  <2> HIDE DEF v, g
  <2>3. PICK low, high : /\ Ended(t, need, gen.low, Slow(prompt), low)
                         /\ Says(g, low, high, gen, prompt)
    BY <1>1, <2>2
  <2>4. low.wait # {} /\ low.limits /\ v.low = low.grade /\ v.wait = low.wait
    BY <2>1, <2>3 DEF Says
  <2>5. Waited(t, need, gen.low, Slow(prompt), low)
    BY <2>3, <2>4 DEF Ended, Unwaited
  <2> DEFINE s == Gr!StreamGrade(t, gen.low)
  <2>6. s \in 0..3
    BY StreamIsFirst
  <2>7. PICK p \in Slow(prompt) : \E w \in Gr!Wait(need, p, gen.low) :
           /\ low.wait = {w} /\ (Along(need) => Gr!WaitGrade(need, w) >= s)
           /\ low.grade = IF Along(need) /\ s >= Gr!WaitGrade(need, w) THEN s ELSE Gr!WaitGrade(need, w)
    BY <2>4, <2>5 DEF Waited
  <2>8. PICK w \in Gr!Wait(need, p, gen.low) :
           /\ low.wait = {w} /\ (Along(need) => Gr!WaitGrade(need, w) >= s)
           /\ low.grade = IF Along(need) /\ s >= Gr!WaitGrade(need, w) THEN s ELSE Gr!WaitGrade(need, w)
    BY <2>7
  <2> DEFINE h == Gr!WaitGrade(need, w)
  <2>9. h \in 0..3
    BY WaitIsFirst
  <2>10. low.wait = {w} /\ (Along(need) => h >= s) /\ low.grade = IF Along(need) /\ s >= h THEN s ELSE h
    BY <2>8
  <2> HIDE DEF h, s
  <2>11. low.grade = h /\ (Along(need) => s <= low.grade)
    BY <2>6, <2>9, <2>10
  <2>12. low.grade # 0
    BY <2>1, <2>4
  <2>13. v.low > 0
    BY <2>4, <2>9, <2>11, <2>12
  <2>14. \A x \in v.wait : Gr!WaitGrade(need, x) = v.low
    BY <2>4, <2>10, <2>11 DEF h
  <2>15. need.mode = "read_along" => Gr!StreamGrade(t, gen.low) <= v.low
    BY <2>4, <2>11 DEF s, Along
  <2> QED
    BY <2>13, <2>14, <2>15 DEF v
<1> QED
  BY <1>5, <1>6, <1>7, <1>8

(* The prompt that is chosen is told by the prompts there are.             *)
Shortest(P, typical) ==
    LET long == {c \in P : c.tokens >= typical} IN {c \in long : \A d \in long : c.tokens <= d.tokens}
LEMMA ChosenIs ==
    ASSUME NEW suite, Gr!SuiteOK(suite), NEW typical
    PROVE  Gr!Chosen(suite, typical) = Shortest(Gr!Range(suite), typical)
<1> DEFINE D == DOMAIN suite
           P == Gr!Range(suite)
           long == {c \in P : c.tokens >= typical}
           at == {i \in D : suite[i].tokens >= typical}
           before(i, j) == suite[i].tokens < suite[j].tokens \/ (suite[i].tokens = suite[j].tokens /\ i <= j)
<1>1. P = {suite[i] : i \in D}
  BY DEF Gr!Range
<1>2. \A i, j \in D : /\ suite[i].tokens \in Nat /\ suite[j].tokens \in Nat /\ i \in Nat /\ j \in Nat
                      /\ suite[i].tokens = suite[j].tokens => i = j
  BY DEF Gr!SuiteOK
<1>3. \A i, j \in D : before(i, j) <=> suite[i].tokens <= suite[j].tokens
  BY <1>2
<1>4. Gr!Chosen(suite, typical) = {suite[i] : i \in {j \in at : \A k \in at : before(j, k)}}
  BY DEF Gr!Chosen
<1> HIDE DEF before, P, D
<1>5. {suite[i] : i \in {j \in at : \A k \in at : before(j, k)}} = {c \in long : \A d \in long : c.tokens <= d.tokens}
  <2>1. long = {suite[i] : i \in at}
    BY <1>1
  <2>2. \A j \in at : (\A k \in at : before(j, k)) <=> \A d \in long : suite[j].tokens <= d.tokens
    BY <1>3, <2>1
  <2> HIDE DEF long, at
  <2> QED
    BY <2>1, <2>2
<1> QED
  BY <1>4, <1>5 DEF P, Shortest

(* A test that is turned round is a test with the same prompts.            *)
LEMMA TurnedTest ==
    ASSUME NEW suite, Gr!SuiteOK(suite)
    PROVE  Gr!SuiteOK(Gr!Reverse(suite)) /\ Gr!Range(Gr!Reverse(suite)) = Gr!Range(suite)
<1> DEFINE n == Len(suite)
           turned == Gr!Reverse(suite)
           P == Gr!Range(suite)
<1>1. suite \in Seq(P) /\ n \in Nat /\ DOMAIN suite = 1..n
  BY DEF Gr!SuiteOK
<1>2. turned = [i \in 1..n |-> suite[(n - i) + 1]]
  BY DEF Gr!Reverse
<1>3. \A i \in 1..n : (n - i) + 1 \in 1..n /\ (n - ((n - i) + 1)) + 1 = i
  BY <1>1
<1>4. P = {suite[i] : i \in 1..n}
  BY <1>1 DEF Gr!Range
<1>5. Gr!Range(turned) = {suite[(n - i) + 1] : i \in 1..n}
  BY <1>2 DEF Gr!Range
<1> HIDE DEF n, turned, P
<1>6. Gr!Range(turned) = P
  BY <1>3, <1>4, <1>5
<1>7. turned \in Seq(P)
  BY <1>1, <1>2, <1>3, <1>4
<1>8. DOMAIN turned = 1..n /\ \A i \in 1..n : turned[i] = suite[(n - i) + 1]
  BY <1>2
<1>9. \A i, j \in 1..n : turned[i].tokens = turned[j].tokens => i = j
  BY <1>1, <1>3, <1>8 DEF Gr!SuiteOK
<1>10. \A i \in 1..n : turned[i].tokens \in Nat /\ Gr!AtMostOne(turned[i].rate) /\ \A r \in turned[i].rate : Gr!RateOK(r)
  BY <1>1, <1>3, <1>8 DEF Gr!SuiteOK
<1> QED
  BY <1>6, <1>7, <1>8, <1>9, <1>10 DEF turned, P, Gr!SuiteOK

(* For every accepted table and every test: a verdict rests on a prompt no *)
(* shorter than the purpose's, whatever the order of the test's prompts,   *)
(* and where it gives no wait it says why (PromptIsLongEnough of Grades,   *)
(* of verdict.go's MeasuredVerdicts).                                      *)
THEOREM VerdictsRestOnTheTest ==
    ASSUME NEW t, NEW purpose, NEW gen, NEW suite,
           Gr!GradedOK(t, gen, {}), Gr!SuiteOK(suite), Gr!ValidNeeds(t)
    PROVE  Gr!PromptIsLongEnough(t, purpose, gen, suite)
<1> SUFFICES ASSUME NEW need \in Gr!Need(t, purpose)
             PROVE  LET v == Gr!MeasuredVerdict(t, need, gen, suite)
                        timed == {c.tokens : c \in {x \in Gr!Range(suite) : x.rate # {}}}
                    IN /\ v = Gr!MeasuredVerdict(t, need, gen, Gr!Reverse(suite))
                       /\ v.wait # {} => \E n \in timed : n >= Gr!Typical(need)
                       /\ v.wait = {} <=> v.note # ""
  BY DEF Gr!PromptIsLongEnough
<1> DEFINE v == Gr!MeasuredVerdict(t, need, gen, suite)
           timed == {c.tokens : c \in {x \in Gr!Range(suite) : x.rate # {}}}
           chosen == Gr!Chosen(suite, Gr!Typical(need))
           prompt == UNION {c.rate : c \in chosen}
           why == IF chosen = {} THEN "none_as_long" ELSE IF prompt = {} THEN "not_timed" ELSE ""
           grades == Gr!GradeSpeed(t, purpose, gen, prompt)
           g == CHOOSE x \in grades : TRUE
<1>1. /\ Gr!TableOK(t) /\ Gr!RateOK(gen) /\ Gr!NeedOK(need) /\ Gr!ValidNeed(need) /\ need.purpose = purpose
  BY NeedIsOne DEF Gr!GradedOK, Gr!Need
<1>2. v = Gr!MeasuredVerdict(t, need, gen, Gr!Reverse(suite))
  <2>1. Gr!Chosen(Gr!Reverse(suite), Gr!Typical(need)) = chosen
    <3>1. Gr!SuiteOK(Gr!Reverse(suite)) /\ Gr!Range(Gr!Reverse(suite)) = Gr!Range(suite)
      BY TurnedTest
    <3>2. Gr!Chosen(Gr!Reverse(suite), Gr!Typical(need)) = Shortest(Gr!Range(Gr!Reverse(suite)), Gr!Typical(need))
      BY <3>1, ChosenIs
    <3> QED
      BY <3>1, <3>2, ChosenIs
  <2> QED
    BY <2>1 DEF Gr!MeasuredVerdict
<1>3. \A c \in chosen : c \in Gr!Range(suite) /\ c.tokens >= Gr!Typical(need)
  BY ChosenIs DEF Shortest
<1>4. \A r \in prompt : Gr!RateOK(r)
  <2>1. \A c \in Gr!Range(suite) : \A r \in c.rate : Gr!RateOK(r)
    BY DEF Gr!SuiteOK, Gr!Range
  <2> HIDE DEF chosen
  <2> QED
    BY <1>3, <2>1
<1>5. v = Gr!Verdict(purpose, grades, gen, why)
  BY <1>1 DEF Gr!MeasuredVerdict
<1>6. prompt # {} => \E n \in timed : n >= Gr!Typical(need)
  <2> HIDE DEF chosen
  <2> QED
    BY <1>3
<1>7. why # "" <=> prompt = {}
  OBVIOUS
<1> HIDE DEF v, why, prompt, timed
<1>8. CASE grades = {}
  <2>1. v.wait = {} /\ v.note = IF why = "" THEN "nothing" ELSE why
    BY <1>5, <1>8 DEF Gr!Verdict
  <2> QED
    BY <1>2, <2>1 DEF v, timed
<1>9. CASE grades # {}
  <2>1. v.wait = g.slow /\ v.note = IF g.slow = {} THEN why ELSE ""
    BY <1>5, <1>9 DEF Gr!Verdict
  <2>2. g \in grades
    BY <1>9
  <2> HIDE DEF g
  <2>3. PICK low, high : /\ Ended(t, need, gen.low, Slow(prompt), low)
                         /\ Ended(t, need, gen.high, Fast(prompt), high)
                         /\ Says(g, low, high, gen, prompt)
    BY <1>1, <1>4, <2>2, SpeedIs
  <2>4. g.slow = {} <=> prompt = {}
    <3>1. ~HasNoWait(need)
      BY <1>1, TwoModes
    <3>2. Slow(prompt) = {} <=> prompt = {}
      BY DEF Slow
    <3>3. g.slow = low.wait
      BY <2>3 DEF Says
    <3> QED
      BY <2>3, <3>1, <3>2, <3>3 DEF Ended, Waited, Unwaited
  <2>5. v.wait # {} => \E n \in timed : n >= Gr!Typical(need)
    BY <1>6, <2>1, <2>4
  <2>6. v.wait = {} <=> v.note # ""
    BY <1>7, <2>1, <2>4
  <2> QED
    BY <1>2, <2>5, <2>6 DEF v, timed
<1> QED
  BY <1>8, <1>9

-----------------------------------------------------------------------------
(* The figures of a release of the program, and Speeds with them.          *)
CONSTANTS
    Sources, Paths, VulkanByVendor, NoAVX2, MoEGeneration, MoEPrompt,
    Margin, PerDoubling, MaxMargin

Sp == INSTANCE Speeds

(* What a quotient of numbers is.                                          *)
LEMMA Divides ==
    ASSUME NEW a \in Nat, NEW b \in Nat \ {0}
    PROVE  /\ a \div b \in Nat /\ b * (a \div b) \in Nat /\ b * (a \div b) <= a
           /\ a < b * (a \div b) + b
OBVIOUS

(* Quotients are as their cross products.                                  *)
LEMMA Quotients ==
    ASSUME NEW a \in Nat, NEW b \in Nat \ {0}, NEW c \in Nat, NEW d \in Nat \ {0},
           a * d <= c * b
    PROVE  a \div b \in Nat /\ c \div d \in Nat /\ a \div b <= c \div d
<1> DEFINE q == a \div b
           r == c \div d
<1>1. q \in Nat /\ b * q \in Nat /\ b * q <= a
  BY Divides
<1>2. r \in Nat /\ d * r \in Nat /\ c < d * r + d
  BY Divides
<1> HIDE DEF q, r
<1>3. q <= r
  <2> SUFFICES ASSUME r + 1 <= q PROVE FALSE
    BY <1>1, <1>2
  <2>1. (b * q) * d <= a * d /\ (b * q) * d \in Nat /\ a * d \in Nat
    BY <1>1, Products
  <2>2. (c + 1) * b <= (d * r + d) * b /\ (c + 1) * b = c * b + b /\ c * b \in Nat
    BY <1>2, Products
  <2>3. (r + 1) * (b * d) <= q * (b * d)
    <3>1. b * d \in Nat
      BY Positive
    <3> QED
      BY <1>1, <1>2, <3>1, Products
  <2>4. (d * r + d) * b = (r + 1) * (b * d) /\ (b * q) * d = q * (b * d)
    BY <1>1, <1>2
  <2>5. (r + 1) * (b * d) \in Nat /\ q * (b * d) \in Nat
    BY <1>1, <1>2, Positive
  <2> QED
    BY <2>1, <2>2, <2>3, <2>4, <2>5
<1> QED
  BY <1>1, <1>2, <1>3 DEF q, r

(* A quotient is on the side of v that its numerator is of v times the     *)
(* rest.                                                                   *)
LEMMA QuotientAround ==
    ASSUME NEW a \in Nat, NEW b \in Nat \ {0}, NEW v \in Nat
    PROVE  /\ a <= v * b => a \div b <= v
           /\ v * b <= a => v <= a \div b
<1> DEFINE q == a \div b
<1>1. q \in Nat /\ b * q \in Nat /\ b * q <= a /\ a < b * q + b
  BY Divides
<1> HIDE DEF q
<1>2. ASSUME a <= v * b, v + 1 <= q PROVE FALSE
  <2>1. (v + 1) * b <= q * b /\ q * b = b * q /\ (v + 1) * b = v * b + b /\ v * b \in Nat
    BY <1>1, <1>2, Products
  <2> QED
    BY <1>1, <1>2, <2>1
<1>3. ASSUME v * b <= a, q + 1 <= v PROVE FALSE
  <2>1. (q + 1) * b <= v * b /\ q * b = b * q /\ (q + 1) * b = q * b + b /\ v * b \in Nat
    BY <1>1, <1>3, Products
  <2> QED
    BY <1>1, <1>3, <2>1
<1> QED
  BY <1>1, <1>2, <1>3 DEF q

(* Rounding keeps the order, across the change of digits too.              *)
LEMMA RoundedGrows ==
    ASSUME NEW a \in Nat, NEW b \in Nat, a <= b
    PROVE  Sp!Rounded(a) \in Nat /\ Sp!Rounded(b) \in Nat /\ Sp!Rounded(a) <= Sp!Rounded(b)
<1>1. a < 1000 => 10 * ((a + 5) \div 10) \in Nat /\ 10 * ((a + 5) \div 10) <= 1000
  OBVIOUS
<1>2. b >= 1000 => 100 * ((b + 50) \div 100) \in Nat /\ 100 * ((b + 50) \div 100) >= 1000
  OBVIOUS
<1>3. /\ 10 * ((a + 5) \div 10) \in Nat /\ 10 * ((b + 5) \div 10) \in Nat
      /\ 10 * ((a + 5) \div 10) <= 10 * ((b + 5) \div 10)
  OBVIOUS
<1>4. /\ 100 * ((a + 50) \div 100) \in Nat /\ 100 * ((b + 50) \div 100) \in Nat
      /\ 100 * ((a + 50) \div 100) <= 100 * ((b + 50) \div 100)
  OBVIOUS
<1> QED
  BY <1>1, <1>2, <1>3, <1>4 DEF Sp!Rounded

(* Which row comes first, and is taken.                                    *)
Comes(t, g, j, k) ==
    IF Sp!Ambiguous(g) /\ t.gpus[j].gbs # t.gpus[k].gbs THEN t.gpus[j].gbs < t.gpus[k].gbs ELSE j <= k
Taken(t, g, j) == j \in Sp!Found(t, g) /\ \A k \in Sp!Found(t, g) : Comes(t, g, j, k)
(* A table as its types give it, that was accepted.                        *)
AcceptedTable(t) == Sp!TableOK(t) /\ Sp!ValidTable(t)

(* A card of an accepted row has a bandwidth.                              *)
LEMMA ReachesSomething ==
    ASSUME NEW row, Sp!ValidGPU(row)
    PROVE  row.gbs \in Nat \ {0}
<1> DEFINE x == row.gbs
<1>1. x \in 1..5000
  BY DEF Sp!ValidGPU
<1> HIDE DEF x
<1>2. x \in Nat \ {0}
  BY <1>1
<1> QED
  BY <1>2 DEF x

(* What is said of each row of an accepted table.                          *)
LEMMA RowsAreValid ==
    ASSUME NEW t, AcceptedTable(t)
    PROVE  /\ \A j \in DOMAIN t.gpus : j \in Nat /\ Sp!ValidGPU(t.gpus[j]) /\ t.gpus[j].gbs \in Nat \ {0}
           /\ \A k \in DOMAIN t.memory : k \in Nat /\ Sp!ValidMemory(t.memory[k])
<1>1. /\ \A j \in DOMAIN t.gpus : Sp!ValidGPU(t.gpus[j])
      /\ \A k \in DOMAIN t.memory : Sp!ValidMemory(t.memory[k])
  BY Zenon DEF AcceptedTable, Sp!ValidTable
<1>3. ASSUME NEW j \in DOMAIN t.gpus PROVE j \in Nat /\ t.gpus[j].gbs \in Nat \ {0}
  <2> DEFINE r == t.gpus[j]
  <2>1. Sp!ValidGPU(r)
    BY <1>1
  <2> HIDE DEF r
  <2>2. r.gbs \in Nat \ {0}
    BY <2>1, ReachesSomething
  <2>3. j \in Nat
    BY DEF AcceptedTable, Sp!TableOK
  <2> QED
    BY <2>2, <2>3 DEF r
<1>4. \A k \in DOMAIN t.memory : k \in Nat
  BY DEF AcceptedTable, Sp!TableOK
<1> QED
  BY <1>1, <1>3, <1>4

(* What GPU answers of a table is one of its rows, taken before the        *)
(* others.                                                                 *)
LEMMA RowIs ==
    ASSUME NEW t, NEW g, NEW row \in Sp!GPU(t, g)
    PROVE  \E j \in DOMAIN t.gpus : row = t.gpus[j] /\ Taken(t, g, j)
<1> DEFINE before(i, j) == IF Sp!Ambiguous(g) /\ t.gpus[i].gbs # t.gpus[j].gbs
                           THEN t.gpus[i].gbs < t.gpus[j].gbs ELSE i <= j
<1>1. Sp!GPU(t, g) = {t.gpus[i] : i \in {j \in Sp!Found(t, g) : \A k \in Sp!Found(t, g) : before(j, k)}}
  BY DEF Sp!GPU
<1>2. PICK j \in {j \in Sp!Found(t, g) : \A k \in Sp!Found(t, g) : before(j, k)} : row = t.gpus[j]
  <2> HIDE DEF before
  <2> QED
    BY <1>1
<1> QED
  BY <1>2 DEF Taken, Comes, Sp!Found

(* GPU answers one row at most, and an accepted one.                       *)
LEMMA RowIsOne ==
    ASSUME NEW t, AcceptedTable(t), NEW g
    PROVE  /\ Sp!AtMostOne(Sp!GPU(t, g))
           /\ \A row \in Sp!GPU(t, g) : Sp!ValidGPU(row)
<1>1. ASSUME NEW r \in Sp!GPU(t, g), NEW s \in Sp!GPU(t, g) PROVE r = s
  <2>1. PICK j \in DOMAIN t.gpus : r = t.gpus[j] /\ Taken(t, g, j)
    BY RowIs
  <2>2. PICK k \in DOMAIN t.gpus : s = t.gpus[k] /\ Taken(t, g, k)
    BY RowIs
  <2>3. Comes(t, g, j, k) /\ Comes(t, g, k, j)
    BY <2>1, <2>2 DEF Taken
  <2>4. t.gpus[j].gbs \in Nat /\ t.gpus[k].gbs \in Nat
    BY RowsAreValid
  <2>5. j \in Nat /\ k \in Nat
    BY RowsAreValid
  <2>6. j = k
    BY <2>3, <2>4, <2>5 DEF Comes
  <2> QED
    BY <2>1, <2>2, <2>6
<1>2. ASSUME NEW r \in Sp!GPU(t, g) PROVE Sp!ValidGPU(r)
  BY RowIs, RowsAreValid
<1> QED
  BY <1>1, <1>2 DEF Sp!AtMostOne

(* A row of a name that lists several cards is no faster than the row of   *)
(* each: that one was found by the longer list too.                        *)
LEMMA SlowestIsTaken ==
    ASSUME NEW t, AcceptedTable(t), NEW g, Sp!CardOK(g),
           NEW n \in g.names, NEW row \in Sp!GPU(t, g), NEW one \in Sp!GPU(t, [g EXCEPT !.names = {n}])
    PROVE  row.gbs <= one.gbs
<1> DEFINE h == [g EXCEPT !.names = {n}]
<1>1. /\ h.vendor = g.vendor /\ h.names = {n} /\ h.vram = g.vram /\ h.cores = g.cores
  BY DEF Sp!CardOK
<1> HIDE DEF h
<1>2. PICK j \in DOMAIN t.gpus : row = t.gpus[j] /\ Taken(t, g, j)
  BY RowIs
<1>3. PICK k \in DOMAIN t.gpus : one = t.gpus[k] /\ Taken(t, h, k)
  BY RowIs DEF h
<1>4. \A r : Sp!Matches(r, h) => Sp!Matches(r, g)
  BY <1>1 DEF Sp!Matches
<1>5. k \in Sp!Found(t, g)
  BY <1>3, <1>4 DEF Taken, Sp!Found
<1>6. t.gpus[j].gbs \in Nat /\ t.gpus[k].gbs \in Nat /\ j \in Nat /\ k \in Nat
  BY RowsAreValid
<1>7. CASE Sp!Ambiguous(g)
  BY <1>2, <1>3, <1>5, <1>6, <1>7 DEF Taken, Comes
<1>8. CASE ~Sp!Ambiguous(g)
  <2>1. g.names = {n}
    <3>0. IsFiniteSet(g.names)
      BY DEF Sp!CardOK, Sp!IsFiniteSet, IsFiniteSet
    <3>1. Sp!Cardinality(g.names) = Cardinality(g.names)
      BY DEF Sp!Cardinality, Cardinality
    <3>2. Cardinality(g.names) <= 1 /\ Cardinality(g.names) \in Nat
      BY <1>8, <3>0, <3>1, FS_CardinalityType DEF Sp!Ambiguous
    <3>3. Cardinality(g.names) = 1
      BY <3>0, <3>2, FS_EmptySet
    <3> QED
      BY <3>0, <3>3, FS_Singleton
  <2>2. h = g
    BY <2>1 DEF h, Sp!CardOK
  <2>3. row = one
    BY <2>2, RowIsOne DEF Sp!AtMostOne, h
  <2> QED
    BY <1>2, <1>6, <2>3
<1> QED
  BY <1>7, <1>8

(* Speeds and figures that are ranges.                                     *)
IsRange(s) ==
    /\ s.low \in Nat /\ s.high \in Nat /\ s.low <= s.high
    /\ s.promptLow \in Nat /\ s.promptHigh \in Nat /\ s.promptLow <= s.promptHigh
IsPair(v) == v[1] \in Nat /\ v[2] \in Nat /\ v[1] <= v[2]

(* Products keep the order of both of their factors.                       *)
LEMMA ProductsGrow ==
    ASSUME NEW a \in Nat, NEW b \in Nat, NEW c \in Nat, NEW d \in Nat, a <= c, b <= d
    PROVE  a * b \in Nat /\ c * d \in Nat /\ a * b <= c * d
<1>1. a * b \in Nat /\ c * b \in Nat /\ a * b <= c * b
  BY Products
<1>2. b * c \in Nat /\ d * c \in Nat /\ b * c <= d * c
  BY Products
<1>3. b * c = c * b /\ d * c = c * d
  OBVIOUS
<1> QED
  BY <1>1, <1>2, <1>3

(* What a part reaches is a range when its figures are.                    *)
LEMMA PopulationIs ==
    ASSUME NEW low \in Nat, NEW high \in Nat, low <= high, NEW e, IsPair(e), NEW r, IsPair(r)
    PROVE  IsRange(Sp!Population(low, high, e, r))
<1>1. /\ low * e[1] \in Nat /\ high * e[2] \in Nat /\ low * e[1] <= high * e[2]
  BY ProductsGrow DEF IsPair
<1>2. /\ r[1] * low \in Nat /\ r[2] * high \in Nat /\ r[1] * low <= r[2] * high
  BY ProductsGrow DEF IsPair
<1>3. /\ r[1] * low * e[1] \in Nat /\ r[2] * high * e[2] \in Nat
      /\ r[1] * low * e[1] <= r[2] * high * e[2]
  <2>1. e[1] \in Nat /\ e[2] \in Nat /\ e[1] <= e[2]
    BY DEF IsPair
  <2> DEFINE x == r[1] * low
             y == r[2] * high
  <2> HIDE DEF x, y
  <2>2. x * e[1] \in Nat /\ y * e[2] \in Nat /\ x * e[1] <= y * e[2]
    BY <1>2, <2>1, ProductsGrow DEF x, y
  <2> QED
    BY <2>2 DEF x, y
<1> DEFINE p == Sp!Population(low, high, e, r)
<1>4. /\ p.low = low * e[1] /\ p.high = high * e[2]
      /\ p.promptLow = r[1] * low * e[1] /\ p.promptHigh = r[2] * high * e[2]
  BY DEF Sp!Population
<1> HIDE DEF p
<1> QED
  BY <1>1, <1>3, <1>4 DEF IsRange, p

(* A card reaches one range at most.                                       *)
LEMMA DeviceSpeedIs ==
    ASSUME Sp!FiguresOK, NEW t, AcceptedTable(t), NEW g, NEW path
    PROVE  /\ Sp!AtMostOne(Sp!DeviceSpeed(t, g, path))
           /\ \A p \in Sp!DeviceSpeed(t, g, path) : IsRange(p)
<1> DEFINE figures == IF path = "vulkan" /\ g.vendor \in DOMAIN VulkanByVendor THEN {VulkanByVendor[g.vendor]}
                      ELSE {Paths[p] : p \in {path} \cap DOMAIN Paths}
           of(row, ps) == Sp!Population(row.gbs, row.gbs, Sp!Or(row.efficiency, ps.efficiency), Sp!Or(row.prompt, ps.prompt))
<1>1. Sp!DeviceSpeed(t, g, path) = {of(row, ps) : row \in Sp!GPU(t, g), ps \in figures}
  BY DEF Sp!DeviceSpeed
<1>2. Sp!AtMostOne(figures) /\ \A ps \in figures : Sp!FigureOK(ps)
  BY DEF Sp!AtMostOne, Sp!FiguresOK
<1> HIDE DEF figures
<1>3. ASSUME NEW row \in Sp!GPU(t, g), NEW ps \in figures PROVE IsRange(of(row, ps))
  <2>1. PICK j \in DOMAIN t.gpus : row = t.gpus[j]
    BY RowIs
  <2>2. Sp!ValidGPU(row) /\ row.gbs \in Nat \ {0} /\ Sp!RowOK(row)
    BY <2>1, RowsAreValid DEF AcceptedTable, Sp!TableOK
  <2>3. IsPair(ps.efficiency) /\ IsPair(ps.prompt)
    <3>1. Sp!FigureOK(ps)
      BY <1>2
    <3> QED
      BY <3>1 DEF Sp!FigureOK, Sp!Pair, IsPair
  <2>4. /\ Sp!ValidRange(row.efficiency, row.efficiencyCited, 1, 10)
        /\ Sp!ValidRange(row.prompt, row.promptCited, 1, 200)
    BY <2>2 DEF Sp!ValidGPU
  <2>5. IsPair(Sp!Or(row.efficiency, ps.efficiency))
    <3>1. CASE row.efficiency = << >>
      BY <2>3, <3>1 DEF Sp!Or
    <3>2. CASE row.efficiency # << >>
      BY <2>2, <2>4, <3>2 DEF Sp!Or, Sp!RowOK, Sp!ValidRange, IsPair
    <3> QED
      BY <3>1, <3>2
  <2>6. IsPair(Sp!Or(row.prompt, ps.prompt))
    <3>1. CASE row.prompt = << >>
      BY <2>3, <3>1 DEF Sp!Or
    <3>2. CASE row.prompt # << >>
      BY <2>2, <2>4, <3>2 DEF Sp!Or, Sp!RowOK, Sp!ValidRange, IsPair
    <3> QED
      BY <3>1, <3>2
  <2> QED
    BY <2>2, <2>5, <2>6, PopulationIs
<1> HIDE DEF of
<1>4. \A r, s \in Sp!GPU(t, g) : r = s
  BY RowIsOne DEF Sp!AtMostOne
<1> QED
  BY <1>1, <1>2, <1>3, <1>4 DEF Sp!AtMostOne

(* Without AVX2 a figure is no higher.                                     *)
LEMMA SlowerIs ==
    ASSUME Sp!FiguresOK, NEW v \in Nat
    PROVE  (v * NoAVX2) \div 10 \in Nat /\ (v * NoAVX2) \div 10 <= v
<1>1. NoAVX2 \in Nat /\ NoAVX2 <= 10
  BY DEF Sp!FiguresOK
<1>2. NoAVX2 * v \in Nat /\ 10 * v \in Nat /\ NoAVX2 * v <= 10 * v
  BY <1>1, Products
<1>3. v * NoAVX2 = NoAVX2 * v
  BY <1>1
<1> QED
  BY <1>2, <1>3

(* Without AVX2 figures keep their order.                                  *)
LEMMA SlowerGrows ==
    ASSUME Sp!FiguresOK, NEW v \in Nat, NEW w \in Nat, v <= w
    PROVE  (v * NoAVX2) \div 10 <= (w * NoAVX2) \div 10
<1>1. NoAVX2 \in Nat
  BY DEF Sp!FiguresOK
<1>2. v * NoAVX2 \in Nat /\ w * NoAVX2 \in Nat /\ v * NoAVX2 <= w * NoAVX2
  BY <1>1, Products
<1> QED
  BY <1>2

(* The processor's efficiency is a range, whatever is known of AVX2.       *)
LEMMA EfficiencyIs ==
    ASSUME Sp!FiguresOK, NEW m
    PROVE  IsPair(Sp!Efficiency(m)) /\ IsPair(Paths["cpu"].efficiency) /\ IsPair(Paths["cpu"].prompt)
<1> DEFINE eff == Paths["cpu"].efficiency
           slower(v) == (v * NoAVX2) \div 10
<1>1. IsPair(Paths["cpu"].efficiency) /\ IsPair(Paths["cpu"].prompt)
  <2>1. Sp!FigureOK(Paths["cpu"])
    BY DEF Sp!FiguresOK
  <2> QED
    BY <2>1 DEF Sp!FigureOK, Sp!Pair, IsPair
<1>2. eff[1] \in Nat /\ eff[2] \in Nat /\ eff[1] <= eff[2]
  BY <1>1 DEF IsPair
<1> HIDE DEF eff
<1>3. /\ slower(eff[1]) \in Nat /\ slower(eff[2]) \in Nat
      /\ slower(eff[1]) <= eff[1] /\ slower(eff[1]) <= slower(eff[2])
  BY <1>2, SlowerIs, SlowerGrows
<1> HIDE DEF slower
<1>4. Sp!Efficiency(m) = IF ~m.x86 \/ m.avx2 = "yes" THEN eff
                         ELSE <<slower(eff[1]), IF m.avx2 = "no" THEN slower(eff[2]) ELSE eff[2]>>
  BY DEF Sp!Efficiency, eff, slower
<1>5. IsPair(Sp!Efficiency(m))
  <2>1. CASE ~m.x86 \/ m.avx2 = "yes"
    BY <1>2, <1>4, <2>1 DEF IsPair
  <2>2. CASE ~(~m.x86 \/ m.avx2 = "yes") /\ m.avx2 = "no"
    <3>1. Sp!Efficiency(m) = <<slower(eff[1]), slower(eff[2])>>
      BY <1>4, <2>2
    <3> QED
      BY <1>3, <3>1 DEF IsPair
  <2>3. CASE ~(~m.x86 \/ m.avx2 = "yes") /\ m.avx2 # "no"
    <3>1. Sp!Efficiency(m) = <<slower(eff[1]), eff[2]>>
      BY <1>4, <2>3
    <3>2. slower(eff[1]) <= eff[2]
      BY <1>2, <1>3
    <3> QED
      BY <1>2, <1>3, <3>1, <3>2 DEF IsPair
  <2> QED
    BY <2>1, <2>2, <2>3
<1> QED
  BY <1>1, <1>5

(* The memory found for a processor is one row, and a range.               *)
LEMMA MemoryIsOne ==
    ASSUME NEW t, AcceptedTable(t), NEW cpu
    PROVE  /\ Sp!AtMostOne(Sp!SystemMemory(t, cpu))
           /\ \A row \in Sp!SystemMemory(t, cpu) : row.low \in Nat /\ row.high \in Nat /\ row.low <= row.high
<1> DEFINE found == {i \in DOMAIN t.memory : t.memory[i].names \cap cpu # {}}
<1>1. Sp!SystemMemory(t, cpu) = {t.memory[i] : i \in {j \in found : \A k \in found : j <= k}}
  BY DEF Sp!SystemMemory
<1>2. found \subseteq DOMAIN t.memory
  OBVIOUS
<1> HIDE DEF found
<1>3. \A row \in Sp!SystemMemory(t, cpu) : \E j \in found : row = t.memory[j] /\ \A k \in found : j <= k
  BY <1>1
<1>4. \A j \in found : j \in Nat
  BY <1>2, RowsAreValid
<1>5. \A r, s \in Sp!SystemMemory(t, cpu) : r = s
  BY <1>3, <1>4
<1>6. ASSUME NEW row \in Sp!SystemMemory(t, cpu) PROVE row.low \in Nat /\ row.high \in Nat /\ row.low <= row.high
  <2>1. PICK j \in DOMAIN t.memory : row = t.memory[j]
    BY <1>2, <1>3
  <2>2. Sp!ValidMemory(row)
    BY <2>1, RowsAreValid
  <2>3. row.low <= row.high
    BY <2>2 DEF Sp!ValidMemory
  <2>4. row.low \in Nat /\ row.high \in Nat
    BY <2>1 DEF AcceptedTable, Sp!TableOK
  <2> QED
    BY <2>3, <2>4
<1> QED
  BY <1>5, <1>6 DEF Sp!AtMostOne

(* The system's memory reaches one range at most.                          *)
LEMMA SystemSpeedIs ==
    ASSUME Sp!FiguresOK, NEW t, AcceptedTable(t), NEW m, Sp!AtMostOne(m.primary)
    PROVE  /\ Sp!AtMostOne(Sp!SystemSpeed(t, m))
           /\ \A p \in Sp!SystemSpeed(t, m) : IsRange(p)
<1> DEFINE ps == Paths["cpu"]
           rows == UNION {Sp!GPU(t, g) : g \in m.primary}
           own(row) == Sp!Population(row.gbs, row.gbs, ps.efficiency, ps.prompt)
           of(row) == Sp!Population(row.low, row.high, Sp!Efficiency(m), ps.prompt)
<1>1. Sp!SystemSpeed(t, m) = IF m.unified THEN {own(row) : row \in rows}
                             ELSE {of(row) : row \in Sp!SystemMemory(t, m.cpu)}
  BY DEF Sp!SystemSpeed
<1>2. IsPair(Sp!Efficiency(m)) /\ IsPair(ps.efficiency) /\ IsPair(ps.prompt)
  BY EfficiencyIs
<1>3. \A r, s \in rows : r = s
  BY RowIsOne DEF Sp!AtMostOne
<1>4. ASSUME NEW row \in rows PROVE IsRange(own(row))
  <2>1. PICK g \in m.primary : row \in Sp!GPU(t, g)
    OBVIOUS
  <2>2. Sp!ValidGPU(row)
    BY <2>1, RowIsOne
  <2>3. row.gbs \in Nat
    BY <2>2, ReachesSomething
  <2> HIDE DEF ps
  <2> QED
    BY <1>2, <2>3, PopulationIs
<1>5. ASSUME NEW row \in Sp!SystemMemory(t, m.cpu) PROVE IsRange(of(row))
  <2>1. row.low \in Nat /\ row.high \in Nat /\ row.low <= row.high
    BY MemoryIsOne
  <2> HIDE DEF ps
  <2> QED
    BY <1>2, <2>1, PopulationIs
<1>6. \A r, s \in Sp!SystemMemory(t, m.cpu) : r = s
  BY MemoryIsOne DEF Sp!AtMostOne
<1> HIDE DEF own, of, rows
<1>7. CASE m.unified
  BY <1>1, <1>3, <1>4, <1>7 DEF Sp!AtMostOne
<1>8. CASE ~m.unified
  BY <1>1, <1>5, <1>6, <1>8 DEF Sp!AtMostOne
<1> QED
  BY <1>7, <1>8

(* Benchmarks as their types give them.                                    *)
ObsOK(obs) ==
    /\ \E n \in Nat : DOMAIN obs = 1..n
    /\ \A k \in DOMAIN obs : Sp!ObservedOK(obs[k])

(* The larger of two, by the Max that Speeds has.                          *)
LEMMA LargerOf ==
    ASSUME NEW a \in Int, NEW b \in Int
    PROVE  Sp!Max({a, b}) = IF a >= b THEN a ELSE b
<1>1. \E x \in {a, b} : \A y \in {a, b} : x >= y
  BY a >= b \/ b >= a
<1>2. Sp!Max({a, b}) \in {a, b} /\ \A y \in {a, b} : Sp!Max({a, b}) >= y
  BY <1>1 DEF Sp!Max
<1> QED
  BY <1>2

(* The smaller of two.                                                     *)
LEMMA SmallerOf ==
    ASSUME NEW a \in Int, NEW b \in Int
    PROVE  Sp!Min({a, b}) = IF a <= b THEN a ELSE b
<1>1. \E x \in {a, b} : \A y \in {a, b} : x <= y
  BY a >= b \/ b >= a
<1>2. Sp!Min({a, b}) \in {a, b} /\ \A y \in {a, b} : Sp!Min({a, b}) <= y
  BY <1>1 DEF Sp!Min
<1> QED
  BY <1>2

(* A distance in size is a number.                                         *)
LEMMA DistanceIs ==
    ASSUME NEW a \in Nat, NEW b \in Nat
    PROVE  Sp!Distance(a, b) \in Nat
<1>1. Sp!Max({a - b, b - a}) = IF a - b >= b - a THEN a - b ELSE b - a
  BY LargerOf
<1> QED
  BY <1>1 DEF Sp!Distance

(* The runs of a path that calibrate, and which is nearer.                 *)
Clean(obs, path) == {i \in Sp!Calibrate(obs) : obs[i].path = path}
Nears(obs, size, j, k) ==
    \/ Sp!Distance(obs[j].size, size) < Sp!Distance(obs[k].size, size)
    \/ Sp!Distance(obs[j].size, size) = Sp!Distance(obs[k].size, size) /\ j <= k

(* Nearest, by the clean runs and the order among them.                    *)
LEMMA NearestSet ==
    ASSUME NEW obs, NEW path, NEW size
    PROVE  Sp!Nearest(obs, path, size) =
             {obs[i] : i \in {j \in Clean(obs, path) : \A k \in Clean(obs, path) : Nears(obs, size, j, k)}}
BY DEF Sp!Nearest, Clean, Nears

(* The nearest run is one, and a clean one.                                *)
LEMMA NearestIs ==
    ASSUME NEW obs, ObsOK(obs), NEW path, NEW size \in Nat
    PROVE  /\ Sp!AtMostOne(Sp!Nearest(obs, path, size))
           /\ \A o \in Sp!Nearest(obs, path, size) : Sp!ObservedOK(o) /\ Sp!Counts(o)
<1>1. ASSUME NEW o \in Sp!Nearest(obs, path, size)
      PROVE  \E j \in Clean(obs, path) : o = obs[j] /\ \A k \in Clean(obs, path) : Nears(obs, size, j, k)
  BY NearestSet
<1>2. \A j \in Clean(obs, path) : j \in DOMAIN obs /\ j \in Nat /\ Sp!ObservedOK(obs[j]) /\ Sp!Counts(obs[j])
  BY DEF Clean, Sp!Calibrate, ObsOK
<1>3. \A j \in Clean(obs, path) : Sp!Distance(obs[j].size, size) \in Nat
  BY <1>2, DistanceIs DEF Sp!ObservedOK
<1>4. ASSUME NEW o \in Sp!Nearest(obs, path, size), NEW p \in Sp!Nearest(obs, path, size) PROVE o = p
  <2>1. PICK j \in Clean(obs, path) : o = obs[j] /\ \A k \in Clean(obs, path) : Nears(obs, size, j, k)
    BY <1>1
  <2>2. PICK k \in Clean(obs, path) : p = obs[k] /\ \A l \in Clean(obs, path) : Nears(obs, size, k, l)
    BY <1>1
  <2>3. Nears(obs, size, j, k) /\ Nears(obs, size, k, j)
    BY <2>1, <2>2
  <2>4. j = k
    BY <1>2, <1>3, <2>3 DEF Nears
  <2> QED
    BY <2>1, <2>2, <2>4
<1>5. \A o \in Sp!Nearest(obs, path, size) : Sp!ObservedOK(o) /\ Sp!Counts(o)
  BY <1>1, <1>2
<1> QED
  BY <1>4, <1>5 DEF Sp!AtMostOne

(* Where any run on a path counts, one calibrates: the first of its label. *)
LEMMA CleanRunCounts ==
    ASSUME NEW obs, ObsOK(obs), NEW k \in DOMAIN obs, Sp!Counts(obs[k])
    PROVE  Clean(obs, obs[k].path) # {}
<1> DEFINE A == {j \in DOMAIN obs : Sp!Counts(obs[j]) /\ obs[j].label = obs[k].label /\ obs[j].path = obs[k].path}
<1>1. PICK n \in Nat : DOMAIN obs = 1..n
  BY DEF ObsOK
<1>2. A \subseteq Nat /\ A # {}
  BY <1>1
<1>3. PICK j \in A : \A l \in A : j <= l
  <2> HIDE DEF A
  <2> QED
    BY <1>2, LeastNatural
<1>4. \A l \in 1..(j - 1) : l \in DOMAIN obs /\ ~(j <= l)
  BY <1>1
<1>5. j \in Sp!Calibrate(obs)
  BY <1>3, <1>4 DEF Sp!Calibrate
<1> QED
  BY <1>5 DEF Clean

(* Of any that calibrate one is nearest.                                   *)
LEMMA NearestExists ==
    ASSUME NEW obs, ObsOK(obs), NEW path, NEW size \in Nat, Clean(obs, path) # {}
    PROVE  Sp!Nearest(obs, path, size) # {}
<1> DEFINE P == Clean(obs, path)
           d(j) == Sp!Distance(obs[j].size, size)
           D == {d(j) : j \in P}
<1>1. \A j \in P : j \in Nat /\ Sp!ObservedOK(obs[j])
  BY DEF Clean, Sp!Calibrate, ObsOK
<1>2. \A j \in P : d(j) \in Nat
  BY <1>1, DistanceIs DEF Sp!ObservedOK
<1> HIDE DEF P, d
<1>3. P # {}
  BY DEF P
<1>4. PICK m \in D : \A x \in D : m <= x
  <2>1. D \subseteq Nat /\ D # {}
    BY <1>2, <1>3
  <2> HIDE DEF D
  <2> QED
    BY <2>1, LeastNatural
<1> DEFINE E == {j \in P : d(j) = m}
<1>5. PICK j \in E : \A k \in E : j <= k
  <2>1. E \subseteq Nat /\ E # {}
    BY <1>1, <1>4
  <2> HIDE DEF E
  <2> QED
    BY <2>1, LeastNatural
<1>6. \A k \in P : d(j) < d(k) \/ (d(j) = d(k) /\ j <= k)
  <2> SUFFICES ASSUME NEW k \in P, d(j) # d(k) PROVE d(j) < d(k)
    BY <1>5
  <2>1. d(j) <= d(k) /\ d(j) \in Nat /\ d(k) \in Nat
    BY <1>2, <1>4, <1>5
  <2> QED
    BY <2>1
<1>7. obs[j] \in Sp!Nearest(obs, path, size)
  <2>1. j \in P /\ \A k \in P : Nears(obs, size, j, k)
    BY <1>5, <1>6 DEF Nears, d
  <2> QED
    BY <2>1, NearestSet DEF P
<1> QED
  BY <1>7

(* The margin is a share, and no wider than the population's.              *)
LEMMA WidthIs ==
    ASSUME Sp!FiguresOK, NEW pop, \A p \in pop : IsRange(p), Sp!AtMostOne(pop), NEW distance \in Nat
    PROVE  LET w == Sp!Width(pop, distance)
           IN  /\ w[1] \in Nat /\ w[2] \in Nat \ {0} /\ w[1] <= w[2]
               /\ \A p \in pop : p.high > 0 => w[1] * (p.high + p.low) <= (p.high - p.low) * w[2]
<1> DEFINE margin == Sp!Min({Margin + PerDoubling * distance, MaxMargin})
           narrower == {p \in pop : p.high > 0 /\ 10 * (p.high - p.low) < margin * (p.high + p.low)}
           w == Sp!Width(pop, distance)
<1>1. margin \in Nat /\ margin <= 10
  <2>1. Margin \in Nat /\ PerDoubling \in Nat /\ MaxMargin \in Nat /\ MaxMargin <= 10
    BY DEF Sp!FiguresOK
  <2>2. PerDoubling * distance \in Nat
    BY <2>1, Positive
  <2> DEFINE x == Margin + PerDoubling * distance
  <2>3. x \in Nat
    BY <2>1, <2>2
  <2> HIDE DEF x
  <2>4. Sp!Min({x, MaxMargin}) = IF x <= MaxMargin THEN x ELSE MaxMargin
    BY <2>1, <2>3, SmallerOf
  <2>5. Sp!Min({x, MaxMargin}) \in Nat /\ Sp!Min({x, MaxMargin}) <= 10
    BY <2>1, <2>3, <2>4
  <2> QED
    BY <2>5 DEF x
<1>2. w = IF narrower = {} THEN <<margin, 10>>
          ELSE LET p == CHOOSE p \in narrower : TRUE IN <<p.high - p.low, p.high + p.low>>
  BY DEF Sp!Width
<1> HIDE DEF margin, w
<1>3. CASE narrower = {}
  <2>1. w[1] = margin /\ w[2] = 10
    BY <1>2, <1>3
  <2>2. ASSUME NEW p \in pop, p.high > 0 PROVE w[1] * (p.high + p.low) <= (p.high - p.low) * w[2]
    <3>1. ~(10 * (p.high - p.low) < margin * (p.high + p.low))
      BY <1>3, <2>2
    <3>2. p.high - p.low \in Nat /\ p.high + p.low \in Nat
      BY DEF IsRange
    <3>3. margin * (p.high + p.low) \in Nat
      BY <1>1, <3>2, Positive
    <3>4. margin * (p.high + p.low) <= 10 * (p.high - p.low)
      BY <3>1, <3>2, <3>3
    <3> QED
      BY <2>1, <3>2, <3>4
  <2> QED
    BY <1>1, <2>1, <2>2 DEF w
<1>4. CASE narrower # {}
  <2> DEFINE q == CHOOSE p \in narrower : TRUE
  <2>1. q \in pop /\ q.high > 0
    BY <1>4
  <2>2. w = <<q.high - q.low, q.high + q.low>>
    BY <1>2, <1>4
  <2> HIDE DEF q
  <2>3. w[1] = q.high - q.low /\ w[2] = q.high + q.low
    BY <2>2
  <2>4. q.high \in Nat /\ q.low \in Nat /\ q.low <= q.high
    BY <2>1 DEF IsRange
  <2>5. w[1] \in Nat /\ w[2] \in Nat \ {0} /\ w[1] <= w[2]
    BY <2>1, <2>3, <2>4
  <2>6. ASSUME NEW p \in pop PROVE w[1] * (p.high + p.low) <= (p.high - p.low) * w[2]
    <3>1. p = q
      BY <2>1 DEF Sp!AtMostOne
    <3>2. w[1] * w[2] \in Nat
      BY <2>5, Positive
    <3> QED
      BY <2>3, <3>1, <3>2
  <2> QED
    BY <2>5, <2>6 DEF w
<1> QED
  BY <1>3, <1>4

(* The ends drawn around a value, w[1] of w[2] away.                       *)
LowOf(v, w) == (v * (w[2] - w[1])) \div w[2]
HighOf(v, w) == (v * (w[2] + w[1])) \div w[2]
IsShare(w) == w[1] \in Nat /\ w[2] \in Nat \ {0} /\ w[1] <= w[2]

(* What is drawn around a value is a range that holds it.                  *)
LEMMA AroundIt ==
    ASSUME NEW v \in Nat, NEW w, IsShare(w)
    PROVE  /\ LowOf(v, w) \in Nat /\ HighOf(v, w) \in Nat
           /\ LowOf(v, w) <= v /\ v <= HighOf(v, w)
<1> DEFINE a == w[2] - w[1]
           b == w[2] + w[1]
           c == w[2]
<1>1. a \in Nat /\ b \in Nat /\ c \in Nat \ {0} /\ a <= c /\ c <= b
  BY DEF IsShare
<1> HIDE DEF a, b, c
<1>2. /\ v * a \in Nat /\ v * c \in Nat /\ v * b \in Nat
      /\ v * a <= v * c /\ v * c <= v * b
  BY <1>1, ProductsGrow
<1> DEFINE x == v * a
           y == v * b
<1> HIDE DEF x, y
<1>3. x \div c \in Nat /\ x \div c <= v
  <2>1. x \in Nat /\ x <= v * c
    BY <1>2 DEF x
  <2> QED
    BY <1>1, <2>1, Divides, QuotientAround
<1>4. y \div c \in Nat /\ v <= y \div c
  <2>1. y \in Nat /\ v * c <= y
    BY <1>2 DEF y
  <2> QED
    BY <1>1, <2>1, Divides, QuotientAround
<1> QED
  BY <1>3, <1>4 DEF LowOf, HighOf, a, b, c, x, y

(* A range that was drawn around a run.                                    *)
FromRun(c, o, pop, size) ==
    LET w == Sp!Width(pop, Sp!Distance(o.size, size))
    IN  c.low = LowOf(10 * Sp!Reached(o), w) /\ c.high = HighOf(10 * Sp!Reached(o), w)

(* What a run reached is a number.                                         *)
LEMMA ReachedIs ==
    ASSUME NEW o, Sp!ObservedOK(o)
    PROVE  10 * Sp!Reached(o) \in Nat /\ Sp!PromptRate(o) \in Nat
<1>1. o.tps \in Nat /\ Sp!Bytes(o.size) + o.fill \in Nat /\ o.promptTPS \in Nat /\ o.params \in Nat
  BY DEF Sp!ObservedOK
<1>2. o.tps * (Sp!Bytes(o.size) + o.fill) \in Nat
  BY <1>1, Positive
<1>3. 10 * o.promptTPS * o.params \in Nat
  BY <1>1, Positive
<1> QED
  BY <1>2, <1>3 DEF Sp!Reached, Sp!PromptRate

(* What a part reaches, with the runs: one range at most, the population's *)
(* where no run is near and drawn around the nearest run where one is.     *)
LEMMA CalibratedIs ==
    ASSUME Sp!FiguresOK, NEW pop, \A p \in pop : IsRange(p), Sp!AtMostOne(pop),
           NEW obs, ObsOK(obs), NEW path, NEW size \in Nat
    PROVE  LET C == Sp!WithCalibration(pop, obs, path, size)
               near == Sp!Nearest(obs, path, size)
           IN  /\ Sp!AtMostOne(C)
               /\ C = {} => pop = {} /\ near = {}
               /\ \A c \in C : /\ IsRange(c)
                               /\ \/ near = {} /\ c \in pop
                                  \/ \E o \in near : FromRun(c, o, pop, size)
<1> DEFINE C == Sp!WithCalibration(pop, obs, path, size)
           near == Sp!Nearest(obs, path, size)
           o == CHOOSE o \in near : TRUE
           w == Sp!Width(pop, Sp!Distance(o.size, size))
           prompt == IF o.promptTPS > 0 THEN <<LowOf(Sp!PromptRate(o), w), HighOf(Sp!PromptRate(o), w)>>
                     ELSE IF pop # {} THEN LET p == CHOOSE p \in pop : TRUE IN <<p.promptLow, p.promptHigh>>
                     ELSE <<0, 0>>
           c == [low |-> LowOf(10 * Sp!Reached(o), w), high |-> HighOf(10 * Sp!Reached(o), w), from |-> o.label,
                 promptLow |-> prompt[1], promptHigh |-> prompt[2]]
<1>1. C = IF near = {} THEN pop ELSE {c}
  BY DEF Sp!WithCalibration, LowOf, HighOf
<1>2. CASE near = {}
  <2> HIDE DEF near, c
  <2>1. C = pop
    BY <1>1, <1>2
  <2> HIDE DEF C
  <2> QED
    BY <1>2, <2>1 DEF C, near
<1>3. CASE near # {}
  <2>1. o \in near /\ Sp!ObservedOK(o)
    BY <1>3, NearestIs
  <2>2. IsShare(w)
    <3>1. Sp!Distance(o.size, size) \in Nat
      BY <2>1, DistanceIs DEF Sp!ObservedOK
    <3> HIDE DEF o
    <3> QED
      BY <3>1, WidthIs DEF IsShare
  <2>3. 10 * Sp!Reached(o) \in Nat /\ Sp!PromptRate(o) \in Nat
    BY <2>1, ReachedIs
  <2>4. prompt[1] \in Nat /\ prompt[2] \in Nat /\ prompt[1] <= prompt[2]
    <3> HIDE DEF o, w
    <3>1. CASE o.promptTPS > 0
      <4>1. prompt[1] = LowOf(Sp!PromptRate(o), w) /\ prompt[2] = HighOf(Sp!PromptRate(o), w)
        BY <3>1
      <4> QED
        BY <2>2, <2>3, <4>1, AroundIt
    <3>2. CASE ~(o.promptTPS > 0) /\ pop # {}
      <4> DEFINE p == CHOOSE p \in pop : TRUE
      <4>1. IsRange(p)
        BY <3>2
      <4>2. prompt[1] = p.promptLow /\ prompt[2] = p.promptHigh
        BY <3>2
      <4> HIDE DEF p, prompt
      <4> QED
        BY <4>1, <4>2 DEF IsRange
    <3>3. CASE ~(o.promptTPS > 0) /\ pop = {}
      BY <3>3
    <3> QED
      BY <3>1, <3>2, <3>3
  <2>5. /\ c.low = LowOf(10 * Sp!Reached(o), w) /\ c.high = HighOf(10 * Sp!Reached(o), w)
        /\ c.promptLow = prompt[1] /\ c.promptHigh = prompt[2]
    OBVIOUS
  <2>6. FromRun(c, o, pop, size)
    BY <2>5 DEF FromRun
  <2> HIDE DEF c, prompt, w, o, near
  <2>7. IsRange(c)
    BY <2>2, <2>3, <2>4, <2>5, AroundIt DEF IsRange
  <2>8. C = {c}
    BY <1>1, <1>3
  <2> HIDE DEF C
  <2> QED
    BY <1>3, <2>1, <2>6, <2>7, <2>8 DEF C, near, Sp!AtMostOne
<1> QED
  BY <1>2, <1>3

(* (h - l - 2) b is no more than a (h + l), for the whole numbers h and l  *)
(* below v (b + a) / b and v (b - a) / b.                                  *)
LEMMA DrawnNarrow ==
    ASSUME NEW v \in Nat, NEW w, IsShare(w)
    PROVE  (HighOf(v, w) - LowOf(v, w) - 2) * w[2] <= w[1] * (HighOf(v, w) + LowOf(v, w))
<1> DEFINE a == w[1]
           b == w[2]
           h == HighOf(v, w)
           l == LowOf(v, w)
           x == v * (b + a)
           y == v * (b - a)
<1>1. a \in Nat /\ b \in Nat \ {0} /\ a <= b /\ b - a \in Nat /\ b + a \in Nat
  BY DEF IsShare
<1>2. x \in Nat /\ y \in Nat
  BY <1>1, Positive
<1>3. h = x \div b /\ l = y \div b
  BY DEF HighOf, LowOf
<1>4. h \in Nat /\ l \in Nat /\ l <= h
  BY AroundIt
<1> HIDE DEF a, b, h, l, x, y
<1>5. b * h <= x /\ b * h \in Nat
  BY <1>1, <1>2, <1>3, Divides
<1>6. y < b * l + b /\ b * l \in Nat
  BY <1>1, <1>2, <1>3, Divides
<1>7. (b - a) * (b * h) <= (b - a) * x
  <2>1. (b * h) * (b - a) <= x * (b - a)
    BY <1>1, <1>2, <1>5, Products
  <2> QED
    BY <1>1, <1>2, <1>5, <2>1
<1>8. (b + a) * y <= (b + a) * (b * l + b)
  <2>1. y * (b + a) <= (b * l + b) * (b + a)
    BY <1>1, <1>2, <1>6, Products
  <2> QED
    BY <1>1, <1>2, <1>6, <2>1
<1>9. (b - a) * x = (b + a) * y
  BY <1>1, <1>2 DEF x, y
<1>10. (b + a) * b <= 2 * b * b
  <2>1. (b + a) * b <= (2 * b) * b
    BY <1>1, Products
  <2> QED
    BY <2>1
<1>11. (b - a) * (b * h) <= (b + a) * (b * l) + 2 * b * b
  BY <1>1, <1>2, <1>5, <1>6, <1>7, <1>8, <1>9, <1>10
<1>12. b * ((b - a) * h) <= b * ((b + a) * l + 2 * b)
  BY <1>1, <1>4, <1>11
<1>13. (b - a) * h <= (b + a) * l + 2 * b
  <2> DEFINE m == (b - a) * h
             n == (b + a) * l + 2 * b
  <2>1. m \in Nat /\ n \in Nat
    <3>1. (b - a) * h \in Nat /\ (b + a) * l \in Nat
      BY <1>1, <1>4, Positive
    <3> QED
      BY <1>1, <3>1
  <2>2. b * m <= b * n
    BY <1>12
  <2> HIDE DEF m, n
  <2>3. m <= n
    BY <1>1, <2>1, <2>2
  <2> QED
    BY <2>3 DEF m, n
<1>14. (h - l - 2) * b <= a * (h + l)
  BY <1>1, <1>4, <1>13
<1> QED
  BY <1>14 DEF a, b, h, l

(* What is asked about.                                                    *)
Asked(i) == Sp!FiguresOK /\ Sp!AskedOK(i) /\ Sp!ValidTable(i.table)

(* What is asked has an accepted table and whole runs.                     *)
LEMMA AskedIs ==
    ASSUME NEW i, Asked(i)
    PROVE  AcceptedTable(i.table) /\ ObsOK(i.obs)
<1>1. DOMAIN i.obs = 1..Len(i.obs) /\ Len(i.obs) \in Nat
  BY DEF Asked, Sp!AskedOK
<1>2. ObsOK(i.obs)
  BY <1>1 DEF Asked, Sp!AskedOK, ObsOK
<1> QED
  BY <1>2 DEF Asked, Sp!AskedOK, AcceptedTable

(* The speeds of one card.                                                 *)
DevicesOf(i, g) ==
    Sp!WithCalibration(Sp!DeviceSpeed(i.table, g, i.pl.path), i.obs, i.pl.path, i.model.size)

(* The card that a plan uses has one speed at most.                        *)
LEMMA DeviceIs ==
    ASSUME NEW i, Asked(i)
    PROVE  /\ Sp!AtMostOne(Sp!Device(i)) /\ \A d \in Sp!Device(i) : IsRange(d)
           /\ \A g \in i.pl.device : Sp!Device(i) = DevicesOf(i, g)
<1>1. Sp!Device(i) = UNION {DevicesOf(i, g) : g \in i.pl.device}
  BY DEF Sp!Device, DevicesOf
<1>2. ASSUME NEW g \in i.pl.device
      PROVE  Sp!AtMostOne(DevicesOf(i, g)) /\ \A d \in DevicesOf(i, g) : IsRange(d)
  <2> DEFINE pop == Sp!DeviceSpeed(i.table, g, i.pl.path)
  <2>1. Sp!AtMostOne(pop) /\ \A p \in pop : IsRange(p)
    BY AskedIs, DeviceSpeedIs DEF Asked
  <2>2. Sp!FiguresOK /\ ObsOK(i.obs) /\ i.model.size \in Nat
    BY AskedIs DEF Asked, Sp!AskedOK
  <2> HIDE DEF pop
  <2>3. /\ Sp!AtMostOne(Sp!WithCalibration(pop, i.obs, i.pl.path, i.model.size))
        /\ \A d \in Sp!WithCalibration(pop, i.obs, i.pl.path, i.model.size) : IsRange(d)
    BY <2>1, <2>2, CalibratedIs
  <2> QED
    BY <2>3 DEF DevicesOf, pop
<1>3. \A g, h \in i.pl.device : g = h
  BY DEF Asked, Sp!AskedOK, Sp!AtMostOne
<1>4. \A g \in i.pl.device : Sp!Device(i) = DevicesOf(i, g)
  BY <1>1, <1>3
<1> QED
  BY <1>1, <1>2, <1>4 DEF Sp!AtMostOne

(* And so has the system.                                                  *)
LEMMA SystemIs ==
    ASSUME NEW i, Asked(i)
    PROVE  Sp!AtMostOne(Sp!System(i)) /\ \A s \in Sp!System(i) : IsRange(s)
<1> DEFINE pop == Sp!SystemSpeed(i.table, i.m)
           path == IF Sp!Own(i.pl) THEN "cpu" ELSE i.pl.path
<1>1. Sp!System(i) = Sp!WithCalibration(pop, i.obs, path, i.model.size)
  BY DEF Sp!System
<1>2. Sp!AtMostOne(pop) /\ \A p \in pop : IsRange(p)
  BY AskedIs, SystemSpeedIs DEF Asked, Sp!AskedOK
<1>3. Sp!FiguresOK /\ ObsOK(i.obs) /\ i.model.size \in Nat
  BY AskedIs DEF Asked, Sp!AskedOK
<1> HIDE DEF pop, path
<1> QED
  BY <1>1, <1>2, <1>3, CalibratedIs

(* Where a plan's layers run, and on what.                                 *)
PartOf(i, d, s) ==
    \/ ~Sp!Own(i.pl) /\ d = s /\ s \in Sp!System(i)
    \/ Sp!Own(i.pl) /\ i.pl.share = 4 /\ d = s /\ d \in Sp!Device(i)
    \/ Sp!Own(i.pl) /\ i.pl.share # 4 /\ d \in Sp!Device(i) /\ s \in Sp!System(i)

(* What Parts pairs is where the plan's layers run.                        *)
LEMMA PartsAre ==
    ASSUME NEW i, NEW p \in Sp!Parts(i)
    PROVE  PartOf(i, p[1], p[2])
BY DEF Sp!Parts, PartOf

(* Both of a pair are ranges.                                              *)
LEMMA PartIs ==
    ASSUME NEW i, Asked(i), NEW d, NEW s, PartOf(i, d, s)
    PROVE  IsRange(d) /\ IsRange(s)
BY DeviceIs, SystemIs DEF PartOf

(* A speed is of a pair of parts.                                          *)
LEMMA SpeedOfPart ==
    ASSUME NEW i, NEW s \in Sp!Speed(i)
    PROVE  \E a, b : PartOf(i, a, b) /\ s = Sp!SpeedOf(i, a, b)
           /\ (Sp!PartsReach(i) => 0 < a.low /\ 0 < b.low)
<1>1. PICK p \in Sp!Parts(i) : s = Sp!SpeedOf(i, p[1], p[2])
  BY DEF Sp!Speed
<1>2. PartOf(i, p[1], p[2])
  BY PartsAre
<1>3. Sp!PartsReach(i) => 0 < p[1].low /\ 0 < p[2].low
  BY DEF Sp!PartsReach
<1> QED
  BY <1>1, <1>2, <1>3

(* A name that lists several cards is never taken for a faster one.        *)
LEMMA NeverTooFastHolds ==
    ASSUME NEW i, Asked(i)
    PROVE  Sp!NeverTooFast(i)
BY AskedIs, SlowestIsTaken DEF Sp!NeverTooFast, Asked, Sp!AskedOK

(* A calibrated range is no wider, for its middle, than the population's.  *)
LEMMA NeverWiderHolds ==
    ASSUME NEW i, Asked(i)
    PROVE  Sp!NeverWider(i)
<1> SUFFICES ASSUME NEW g \in i.pl.device,
                    NEW p \in Sp!DeviceSpeed(i.table, g, i.pl.path), NEW c \in Sp!Device(i)
             PROVE  (c.high - c.low - 2) * (p.high + p.low) <= (p.high - p.low) * (c.high + c.low)
  BY DEF Sp!NeverWider
<1> DEFINE pop == Sp!DeviceSpeed(i.table, g, i.pl.path)
           size == i.model.size
<1>1. Sp!AtMostOne(pop) /\ \A q \in pop : IsRange(q)
  BY AskedIs, DeviceSpeedIs DEF Asked
<1>2. Sp!FiguresOK /\ ObsOK(i.obs) /\ size \in Nat
  BY AskedIs DEF Asked, Sp!AskedOK
<1>3. c \in Sp!WithCalibration(pop, i.obs, i.pl.path, size)
  BY DeviceIs DEF DevicesOf
<1>4. p \in pop
  OBVIOUS
<1> HIDE DEF pop, size
<1>5. IsRange(c) /\ (c \in pop \/ \E o \in Sp!Nearest(i.obs, i.pl.path, size) : FromRun(c, o, pop, size))
  BY <1>1, <1>2, <1>3, CalibratedIs
<1> DEFINE H == c.high
           L == c.low
           P == p.high + p.low
           Q == p.high - p.low
<1>6. H \in Nat /\ L \in Nat /\ L <= H /\ P \in Nat /\ Q \in Nat
  BY <1>1, <1>4, <1>5 DEF IsRange
<1>7. CASE c \in pop
  <2>1. c = p
    BY <1>1, <1>4, <1>7 DEF Sp!AtMostOne
  <2>2. H + L = P /\ H - L = Q
    BY <2>1
  <2>3. (Q - 2) * P <= Q * P
    <3> HIDE DEF P, Q
    <3> QED
      BY <1>6
  <2> HIDE DEF P, Q, H, L
  <2>4. (H - L - 2) * P <= Q * (H + L)
    BY <2>2, <2>3
  <2> QED
    BY <2>4 DEF P, Q, H, L
<1>8. CASE c \notin pop
  <2>1. PICK o \in Sp!Nearest(i.obs, i.pl.path, size) : FromRun(c, o, pop, size)
    BY <1>5, <1>8
  <2> DEFINE w == Sp!Width(pop, Sp!Distance(o.size, size))
             v == 10 * Sp!Reached(o)
  <2>2. Sp!ObservedOK(o)
    BY <1>2, NearestIs
  <2>3. Sp!Distance(o.size, size) \in Nat
    BY <1>2, <2>2, DistanceIs DEF Sp!ObservedOK
  <2>4. v \in Nat /\ H = HighOf(v, w) /\ L = LowOf(v, w)
    BY <2>1, <2>2, ReachedIs DEF FromRun
  <2> HIDE DEF v
  <2>5. IsShare(w) /\ (p.high > 0 => w[1] * P <= Q * w[2])
    BY <1>1, <1>2, <1>4, <2>3, WidthIs DEF IsShare
  <2> HIDE DEF w
  <2>6. (H - L - 2) * w[2] <= w[1] * (H + L)
    BY <2>4, <2>5, DrawnNarrow
  <2> DEFINE a == w[1]
             b == w[2]
             S == H + L
             T == H - L - 2
  <2>7. a \in Nat /\ b \in Nat \ {0} /\ S \in Nat /\ T \in Int /\ T * b <= a * S
    BY <1>6, <2>5, <2>6 DEF IsShare
  <2>8. (P > 0 => a * P <= Q * b) /\ (P = 0 => Q = 0)
    <3>1. p.high \in Nat /\ p.low \in Nat /\ p.low <= p.high
      BY <1>1, <1>4 DEF IsRange
    <3>2. P > 0 => p.high > 0
      BY <3>1
    <3>3. P = 0 => Q = 0
      BY <3>1
    <3> QED
      BY <2>5, <3>2, <3>3
  <2> HIDE DEF a, b, S, T, P, Q
  <2>9. T * P <= Q * S
    <3>1. CASE P = 0
      <4>1. T * P = 0 /\ Q * S = 0
        BY <1>6, <2>7, <2>8, <3>1
      <4> QED
        BY <4>1
    <3>2. CASE T < 0
      <4>1. T * P <= 0
        BY <1>6, <2>7, <3>2
      <4>2. Q * S \in Nat
        BY <1>6, <2>7, Positive
      <4> QED
        BY <1>6, <2>7, <4>1, <4>2
    <3>3. CASE T >= 0 /\ P > 0
      <4>1. T \in Nat /\ P \in Nat
        BY <1>6, <2>7, <3>3
      <4>2. /\ T * b \in Nat /\ a * S \in Nat /\ a * P \in Nat /\ Q * b \in Nat
        BY <1>6, <2>7, <4>1, Positive
      <4>3. (T * b) * P <= (a * S) * P
        BY <2>7, <4>1, <4>2, Products
      <4>4. (a * P) * S <= (Q * b) * S
        BY <2>7, <2>8, <3>3, <4>2, Products
      <4>5. (T * b) * P = b * (T * P) /\ (a * S) * P = (a * P) * S /\ (Q * b) * S = b * (Q * S)
        BY <1>6, <2>7, <4>1
      <4>6. b * (T * P) <= b * (Q * S)
        BY <4>3, <4>4, <4>5, <4>2, <1>6, <2>7
      <4> DEFINE x == T * P
                 y == Q * S
      <4>7. x \in Nat /\ y \in Nat
        BY <1>6, <2>7, <4>1, Positive
      <4>8. b * x <= b * y
        BY <4>6
      <4> HIDE DEF x, y
      <4>9. x <= y
        BY <2>7, <4>7, <4>8
      <4> QED
        BY <4>9 DEF x, y
    <3> QED
      BY <1>6, <2>7, <3>1, <3>2, <3>3
  <2> QED
    BY <2>9 DEF T, P, Q, S
<1> QED
  BY <1>7, <1>8

(* A part has a speed once a clean run was made on it.                     *)
LEMMA KnownOnceMeasuredHolds ==
    ASSUME NEW i, Asked(i)
    PROVE  Sp!KnownOnceMeasured(i)
<1> SUFFICES ASSUME Sp!Own(i.pl), i.pl.share = 4,
                    NEW k \in DOMAIN i.obs, Sp!Counts(i.obs[k]), i.obs[k].path = i.pl.path
             PROVE  Sp!Speed(i) # {}
  BY DEF Sp!KnownOnceMeasured
<1>1. PICK g \in i.pl.device : TRUE
  BY DEF Sp!Own
<1> DEFINE pop == Sp!DeviceSpeed(i.table, g, i.pl.path)
           size == i.model.size
<1>2. Sp!AtMostOne(pop) /\ \A q \in pop : IsRange(q)
  BY AskedIs, DeviceSpeedIs DEF Asked
<1>3. Sp!FiguresOK /\ ObsOK(i.obs) /\ size \in Nat
  BY AskedIs DEF Asked, Sp!AskedOK
<1> HIDE DEF size, pop
<1>4. Clean(i.obs, i.pl.path) # {}
  BY <1>3, CleanRunCounts
<1>5. Sp!Nearest(i.obs, i.pl.path, size) # {}
  BY <1>3, <1>4, NearestExists
<1>6. Sp!WithCalibration(pop, i.obs, i.pl.path, size) # {}
  BY <1>2, <1>3, <1>5, CalibratedIs
<1>7. Sp!Device(i) # {}
  BY <1>1, <1>6, DeviceIs DEF DevicesOf, pop, size
<1>8. PICK d \in Sp!Device(i) : TRUE
  BY <1>7
<1>9. Sp!Parts(i) = {<<e, e>> : e \in Sp!Device(i)}
  BY DEF Sp!Parts
<1>10. <<d, d>> \in Sp!Parts(i)
  BY <1>8, <1>9
<1> QED
  BY <1>10 DEF Sp!Speed

(* A model's own share of a speed keeps the order, and so does the         *)
(* rounding.                                                               *)
LEMMA ScaledGrows ==
    ASSUME NEW model, NEW v \in Nat, NEW w \in Nat, v <= w, NEW a \in Nat, NEW b \in Nat, a <= b
    PROVE  /\ Sp!Scaled(model, v, a) \in Nat /\ Sp!Scaled(model, w, b) \in Nat
           /\ Sp!Scaled(model, v, a) <= Sp!Scaled(model, w, b)
<1>1. v * a \in Nat /\ w * b \in Nat /\ v * a <= w * b
  BY ProductsGrow
<1>2. (v * a) \div 10 \in Nat /\ (w * b) \div 10 \in Nat /\ (v * a) \div 10 <= (w * b) \div 10
  BY <1>1
<1>3. CASE model.moe
  <2> DEFINE x == (v * a) \div 10
             y == (w * b) \div 10
  <2>1. x \in Nat /\ y \in Nat /\ x <= y
    BY <1>2
  <2>2. Sp!Scaled(model, v, a) = Sp!Rounded(x) /\ Sp!Scaled(model, w, b) = Sp!Rounded(y)
    BY <1>3 DEF Sp!Scaled
  <2> HIDE DEF x, y
  <2> QED
    BY <2>1, <2>2, RoundedGrows
<1>4. CASE ~model.moe
  <2>1. Sp!Scaled(model, v, a) = Sp!Rounded(v) /\ Sp!Scaled(model, w, b) = Sp!Rounded(w)
    BY <1>4 DEF Sp!Scaled
  <2> QED
    BY <2>1, RoundedGrows
<1> QED
  BY <1>3, <1>4

(* The time of a split's two parts, over both rates.                       *)
Time(n, a, b) == n * b + (4 - n) * a

(* A split takes time when its card does.                                  *)
LEMMA TimeIs ==
    ASSUME NEW n \in Nat, 0 < n, n < 4, NEW a \in Nat, NEW b \in Nat
    PROVE  Time(n, a, b) \in Nat /\ (a > 0 => Time(n, a, b) > 0)
<1>1. n \in Nat /\ 4 - n \in Nat /\ 4 - n > 0
  OBVIOUS
<1>2. n * b \in Nat /\ (4 - n) * a \in Nat /\ (a > 0 => (4 - n) * a > 0)
  BY <1>1, Positive
<1> QED
  BY <1>2 DEF Time

(* The rate of a split.                                                    *)
LEMMA RateIs ==
    ASSUME NEW n \in Nat, 0 < n, n < 4, NEW read \in Nat \ {0}, NEW a \in Nat \ {0}, NEW b \in Nat
    PROVE  /\ 40 * a * b \in Nat /\ read * Time(n, a, b) \in Nat \ {0}
           /\ Sp!Rate(n, read, a, b) = (40 * a * b) \div (read * Time(n, a, b))
           /\ Sp!Rate(n, read, a, b) \in Nat
<1>1. 40 * a * b \in Nat
  <2>1. 40 * a \in Nat
    OBVIOUS
  <2> QED
    BY <2>1, Positive
<1>2. read * Time(n, a, b) \in Nat \ {0}
  <2> DEFINE s == Time(n, a, b)
  <2>1. s \in Nat /\ s > 0
    <3>1. a \in Nat /\ a > 0
      OBVIOUS
    <3> QED
      BY <3>1, TimeIs
  <2> HIDE DEF s
  <2>2. read * s \in Nat /\ read * s > 0
    BY <2>1, Positive
  <2> QED
    BY <2>2 DEF s
<1>3. Sp!Rate(n, read, a, b) = (40 * a * b) \div (read * Time(n, a, b))
  BY DEF Sp!Rate, Time
<1> DEFINE x == 40 * a * b
           y == read * Time(n, a, b)
<1> HIDE DEF x, y
<1>4. x \div y \in Nat
  BY <1>1, <1>2, Divides DEF x, y
<1> QED
  BY <1>1, <1>2, <1>3, <1>4 DEF x, y

(* The rate of a model that is on one part.                                *)
LEMMA WholeRateIs ==
    ASSUME NEW read \in Nat \ {0}, NEW a \in Nat, NEW b
    PROVE  Sp!Rate(4, read, a, b) = (10 * a) \div read /\ Sp!Rate(4, read, a, b) \in Nat /\ 10 * a \in Nat
<1>1. Sp!Rate(4, read, a, b) = (10 * a) \div read
  BY DEF Sp!Rate
<1> QED
  BY <1>1, Divides

(* Faster parts that read no more are no slower: over both denominators,   *)
(* what is on the card and what is not grow each by one factor.            *)
LEMMA RateGrows ==
    ASSUME NEW n \in Nat, 0 < n, n <= 4, NEW read \in Nat \ {0}, NEW r \in Nat \ {0}, r <= read,
           NEW a \in Nat, NEW b \in Nat, NEW c \in Nat, NEW d \in Nat, a <= c, b <= d,
           n = 4 \/ (0 < a /\ 0 < b)
    PROVE  /\ Sp!Rate(n, read, a, b) \in Nat /\ Sp!Rate(n, r, c, d) \in Nat
           /\ Sp!Rate(n, read, a, b) <= Sp!Rate(n, r, c, d)
<1>1. CASE n = 4
  <2>1. (10 * a) * r <= (10 * c) * read
    BY ProductsGrow
  <2> DEFINE x == 10 * a
             y == 10 * c
  <2>2. x \in Nat /\ y \in Nat /\ x * r <= y * read
    BY <2>1
  <2> HIDE DEF x, y
  <2>3. x \div read \in Nat /\ y \div r \in Nat /\ x \div read <= y \div r
    BY <2>2, Quotients
  <2> QED
    BY <1>1, <2>3, WholeRateIs DEF x, y
<1>2. CASE n # 4
  <2> DEFINE x == 40 * a * b
             y == 40 * c * d
             s == Time(n, a, b)
             t == Time(n, c, d)
  <2>1. n \in Nat /\ n < 4 /\ a \in Nat \ {0} /\ c \in Nat \ {0}
    BY <1>2
  <2>2. /\ x \in Nat /\ read * s \in Nat \ {0} /\ Sp!Rate(n, read, a, b) = x \div (read * s)
        /\ y \in Nat /\ r * t \in Nat \ {0} /\ Sp!Rate(n, r, c, d) = y \div (r * t)
    <3>1. /\ x \in Nat /\ read * s \in Nat \ {0} /\ Sp!Rate(n, read, a, b) = x \div (read * s)
      BY <2>1, RateIs
    <3>2. /\ y \in Nat /\ r * t \in Nat \ {0} /\ Sp!Rate(n, r, c, d) = y \div (r * t)
      BY <2>1, RateIs
    <3> QED
      BY <3>1, <3>2
  <2>3. s \in Nat /\ t \in Nat
    BY <2>1, TimeIs
  <2>4. x * t <= y * s
    <3> DEFINE k == 4 - n
    <3>1. k \in Nat /\ n \in Nat /\ a * b \in Nat /\ c * d \in Nat /\ a * c \in Nat /\ b * d \in Nat
      BY <2>1, Positive
    <3>2. t = n * d + k * c /\ s = n * b + k * a
      BY DEF Time
    <3> HIDE DEF k, s, t
    <3>3. n * (b * d) \in Nat /\ k * (a * c) \in Nat
      BY <3>1, Positive
    <3>4. a * (n * (b * d)) <= c * (n * (b * d))
      BY <3>3, Products
    <3>5. b * (k * (a * c)) <= d * (k * (a * c))
      BY <3>3, Products
    <3>6. x * t = 40 * (a * (n * (b * d))) + 40 * (b * (k * (a * c)))
      BY <3>1, <3>2
    <3>7. y * s = 40 * (c * (n * (b * d))) + 40 * (d * (k * (a * c)))
      BY <3>1, <3>2
    <3>8. a * (n * (b * d)) \in Nat /\ c * (n * (b * d)) \in Nat /\ b * (k * (a * c)) \in Nat /\ d * (k * (a * c)) \in Nat
      BY <3>3, Positive
    <3> QED
      BY <3>4, <3>5, <3>6, <3>7, <3>8
  <2> HIDE DEF x, y, s, t
  <2>5. x * (r * t) <= y * (read * s)
    <3>1. x * t \in Nat /\ y * s \in Nat
      BY <2>2, <2>3, Positive
    <3>2. (x * t) * r <= (y * s) * read
      BY <2>4, <3>1, ProductsGrow
    <3> QED
      BY <2>2, <2>3, <3>2
  <2> DEFINE e == read * s
             f == r * t
  <2>6. e \in Nat \ {0} /\ f \in Nat \ {0} /\ x * f <= y * e
    BY <2>2, <2>5
  <2> HIDE DEF e, f
  <2>7. x \div e \in Nat /\ y \div f \in Nat /\ x \div e <= y \div f
    BY <2>2, <2>6, Quotients
  <2> QED
    BY <2>2, <2>7 DEF e, f
<1> QED
  BY <1>1, <1>2

(* A quarter more of the layers on the faster part takes no longer; the    *)
(* last quarter leaves nothing of the slower part's time.                  *)
LEMMA RateOfMore ==
    ASSUME NEW n \in Nat, 0 < n, n < 4, NEW read \in Nat \ {0},
           NEW a \in Nat, NEW b \in Nat, 0 < b, b <= a, NEW c, n < 3 => c = b
    PROVE  /\ Sp!Rate(n, read, a, b) \in Nat /\ Sp!Rate(n + 1, read, a, c) \in Nat
           /\ Sp!Rate(n, read, a, b) <= Sp!Rate(n + 1, read, a, c)
<1> DEFINE x == 40 * a * b
           s == Time(n, a, b)
           e == read * s
<1>1. a \in Nat \ {0} /\ b \in Nat \ {0}
  OBVIOUS
<1>2. x \in Nat /\ e \in Nat \ {0} /\ Sp!Rate(n, read, a, b) = x \div e
  BY <1>1, RateIs
<1>3. s \in Nat
  BY <1>1, TimeIs
<1>4. CASE n < 3
  <2> DEFINE t == Time(n + 1, a, b)
             f == read * t
  <2>1. x \in Nat /\ f \in Nat \ {0} /\ Sp!Rate(n + 1, read, a, b) = x \div f
    BY <1>1, <1>4, RateIs
  <2>2. t \in Nat
    BY <1>1, <1>4, TimeIs
  <2>3. t <= s
    <3>1. n * b \in Nat /\ (4 - n) * a \in Nat /\ (n + 1) * b = n * b + b /\ (4 - (n + 1)) * a = (4 - n) * a - a
      BY <1>4, Positive
    <3> QED
      BY <3>1 DEF Time
  <2>4. f <= e
    <3> HIDE DEF s, t
    <3>1. t * read <= s * read /\ t * read = read * t /\ s * read = read * s
      BY <1>3, <2>2, <2>3, Products
    <3> QED
      BY <3>1
  <2> HIDE DEF x, e, f
  <2>5. x * f <= x * e
    <3>1. f * x <= e * x /\ f * x = x * f /\ e * x = x * e
      BY <1>2, <2>1, <2>4, Products
    <3> QED
      BY <3>1
  <2>6. x \div e \in Nat /\ x \div f \in Nat /\ x \div e <= x \div f
    BY <1>2, <2>1, <2>5, Quotients
  <2> QED
    BY <1>2, <1>4, <2>1, <2>6
<1>5. CASE n = 3
  <2> DEFINE y == 10 * a
  <2>1. n + 1 = 4
    BY <1>5
  <2>2. y \in Nat /\ Sp!Rate(4, read, a, c) = y \div read
    BY WholeRateIs
  <2>3. x * read <= y * e
    <3>1. s = 3 * b + a
      BY <1>5 DEF Time
    <3>2. 4 * b <= s
      BY <3>1
    <3>3. a * read \in Nat
      BY Positive
    <3> DEFINE k == 10 * (a * read)
    <3>4. k \in Nat
      BY <3>3
    <3>5. y * e = s * k
      BY <1>3 DEF y, e
    <3>6. x * read = (4 * b) * k
      OBVIOUS
    <3> HIDE DEF k, s
    <3>7. (4 * b) * k <= s * k
      BY <1>3, <3>2, <3>4, Products
    <3> QED
      BY <3>5, <3>6, <3>7
  <2> HIDE DEF x, y, e
  <2>4. x \div e \in Nat /\ y \div read \in Nat /\ x \div e <= y \div read
    BY <1>2, <2>2, <2>3, Quotients
  <2> QED
    BY <1>2, <2>1, <2>2, <2>4
<1> QED
  BY <1>4, <1>5

(* The model of what is asked about.                                       *)
ModelOK(i) == Sp!Bytes(i.model.size) \in Nat \ {0} /\ i.model.cache \in Nat /\ i.model.params \in Nat \ {0}

(* A prompt is read no slower where the part or the rate is no slower.     *)
LEMMA PromptGrows ==
    ASSUME NEW i, ModelOK(i), NEW v \in Nat, NEW w \in Nat, v <= w,
           NEW r \in Nat, NEW q \in Nat, r <= q, NEW d, d.high \in Nat, Sp!Share(i.pl) = 4 \/ 0 < d.high
    PROVE  /\ Sp!PromptSpeed(i, v, r, d) \in Nat /\ Sp!PromptSpeed(i, w, q, d) \in Nat
           /\ Sp!PromptSpeed(i, v, r, d) <= Sp!PromptSpeed(i, w, q, d)
<1> DEFINE P == i.model.params
           B == Sp!Bytes(i.model.size)
           h == d.high
<1>1. P \in Nat \ {0} /\ B \in Nat \ {0} /\ h \in Nat
  BY DEF ModelOK
<1> HIDE DEF P, B, h
<1>2. CASE Sp!Share(i.pl) = 4
  <2>1. Sp!PromptSpeed(i, v, r, d) = (10 * v) \div P /\ Sp!PromptSpeed(i, w, q, d) = (10 * w) \div P
    BY <1>2 DEF Sp!PromptSpeed, P
  <2> DEFINE x == 10 * v
             y == 10 * w
  <2>2. x \in Nat /\ y \in Nat /\ x <= y
    OBVIOUS
  <2>3. x * P <= y * P
    BY <1>1, <2>2, Products
  <2> HIDE DEF x, y
  <2>4. x \div P \in Nat /\ y \div P \in Nat /\ x \div P <= y \div P
    BY <1>1, <2>2, <2>3, Quotients
  <2> QED
    BY <2>1, <2>4 DEF x, y
<1>3. CASE Sp!Share(i.pl) # 4
  <2> DEFINE x == v * r
             y == w * q
  <2>1. x \in Nat /\ y \in Nat /\ x <= y
    BY ProductsGrow
  <2>2. Sp!PromptSpeed(i, v, r, d) = ((x \div P) * B) \div h /\ Sp!PromptSpeed(i, w, q, d) = ((y \div P) * B) \div h
    BY <1>3 DEF Sp!PromptSpeed, P, B, h
  <2> HIDE DEF x, y
  <2>3. x * P <= y * P
    BY <1>1, <2>1, Products
  <2>4. x \div P \in Nat /\ y \div P \in Nat /\ x \div P <= y \div P
    BY <1>1, <2>1, <2>3, Quotients
  <2> DEFINE m == (x \div P) * B
             n == (y \div P) * B
  <2>5. m \in Nat /\ n \in Nat /\ m <= n
    BY <1>1, <2>4, Products
  <2>6. h \in Nat \ {0}
    BY <1>1, <1>3 DEF h
  <2> HIDE DEF m, n
  <2>7. m * h <= n * h
    BY <2>5, <2>6, Products
  <2>8. m \div h \in Nat /\ n \div h \in Nat /\ m \div h <= n \div h
    BY <2>5, <2>6, <2>7, Quotients
  <2> QED
    BY <2>2, <2>8 DEF m, n
<1> QED
  BY <1>2, <1>3

(* The last layers moved onto the card: nothing slows the prompt any more. *)
LEMMA PromptOfWhole ==
    ASSUME NEW i, ModelOK(i), NEW j, j.model = i.model, Sp!Share(i.pl) # 4, Sp!Share(j.pl) = 4,
           NEW v \in Nat, NEW d, d.high \in Nat \ {0}, NEW q,
           NEW r \in Nat, r <= (10 * d.high) \div Sp!Bytes(i.model.size)
    PROVE  /\ Sp!PromptSpeed(i, v, r, d) \in Nat /\ Sp!PromptSpeed(j, v, q, d) \in Nat
           /\ Sp!PromptSpeed(i, v, r, d) <= Sp!PromptSpeed(j, v, q, d)
<1> DEFINE P == i.model.params
           B == Sp!Bytes(i.model.size)
           h == d.high
           x == v * r
           k == x \div P
<1>1. P \in Nat \ {0} /\ B \in Nat \ {0} /\ h \in Nat \ {0}
  BY DEF ModelOK
<1>2. /\ Sp!PromptSpeed(i, v, r, d) = (k * B) \div h
      /\ Sp!PromptSpeed(j, v, q, d) = (10 * v) \div P
  BY DEF Sp!PromptSpeed
<1>3. r <= (10 * h) \div B
  OBVIOUS
<1> HIDE DEF P, B, h
<1>4. x \in Nat
  BY Positive
<1> HIDE DEF x
<1>5. k \in Nat /\ P * k \in Nat /\ P * k <= x
  BY <1>1, <1>4, Divides
<1> HIDE DEF k
<1>6. r * B \in Nat /\ r * B <= 10 * h
  <2> DEFINE u == 10 * h
             z == u \div B
  <2>1. u \in Nat
    BY <1>1
  <2> HIDE DEF u
  <2>2. z \in Nat /\ B * z \in Nat /\ B * z <= u
    BY <1>1, <2>1, Divides
  <2>3. r <= z
    BY <1>3 DEF u, z
  <2> HIDE DEF z
  <2>4. r * B \in Nat /\ z * B \in Nat /\ r * B <= z * B /\ z * B = B * z
    <3>1. B \in Nat
      BY <1>1
    <3>2. r * B \in Nat /\ z * B \in Nat /\ r * B <= z * B
      BY <2>2, <2>3, <3>1, Products
    <3>3. z * B = B * z
      BY <2>2, <3>1
    <3> QED
      BY <3>2, <3>3
  <2>5. r * B <= u
    <3> DEFINE e == r * B
               f == z * B
    <3>1. e \in Nat /\ f \in Nat /\ e <= f /\ f <= u
      BY <2>2, <2>4
    <3> HIDE DEF e, f
    <3>2. e <= u
      BY <2>1, <3>1
    <3> QED
      BY <3>2 DEF e
  <2> QED
    BY <2>4, <2>5 DEF u
<1>7. (k * B) * P <= (10 * v) * h
  <2>1. (P * k) * B <= x * B
    BY <1>1, <1>4, <1>5, Products
  <2>2. (r * B) * v <= (10 * h) * v
    BY <1>1, <1>6, Products
  <2>3. (P * k) * B = (k * B) * P /\ x * B = (r * B) * v /\ (10 * h) * v = (10 * v) * h
    BY <1>1, <1>5 DEF x
  <2>4. (P * k) * B \in Nat /\ x * B \in Nat /\ (10 * h) * v \in Nat
    <3>1. 10 * h \in Nat
      BY <1>1
    <3> QED
      BY <1>1, <1>4, <1>5, <3>1, Positive
  <2> QED
    BY <2>1, <2>2, <2>3, <2>4
<1> DEFINE m == k * B
           n == 10 * v
<1>8. m \in Nat /\ n \in Nat /\ m * P <= n * h
  BY <1>1, <1>5, <1>7, Positive
<1> HIDE DEF m, n
<1>9. m \div h \in Nat /\ n \div P \in Nat /\ m \div h <= n \div P
  BY <1>1, <1>8, Quotients
<1> QED
  BY <1>2, <1>9 DEF m, n

(* The model and the shares asked about are numbers.                       *)
LEMMA ModelIs ==
    ASSUME NEW i, Asked(i)
    PROVE  /\ ModelOK(i) /\ Sp!Share(i.pl) \in Nat /\ 0 < Sp!Share(i.pl) /\ Sp!Share(i.pl) <= 4
           /\ IsPair(MoEGeneration) /\ IsPair(MoEPrompt)
<1>1. ModelOK(i)
  BY DEF Asked, Sp!AskedOK, ModelOK
<1>2. IsPair(MoEGeneration) /\ IsPair(MoEPrompt)
  BY DEF Asked, Sp!FiguresOK, Sp!Pair, IsPair
<1> DEFINE n == i.pl.share
<1>3. n \in 1..4
  BY DEF Asked, Sp!AskedOK
<1> HIDE DEF n
<1>4. n \in Nat /\ 0 < n /\ n <= 4
  BY <1>3
<1>5. Sp!Share(i.pl) = IF Sp!Own(i.pl) THEN n ELSE 4
  BY DEF Sp!Share, n
<1> QED
  BY <1>1, <1>2, <1>4, <1>5

(* A speed is a range: its low end reads the model and its cache at the    *)
(* parts' low ends, its high end the model alone at the high ones.         *)
LEMMA SpeedIsARange ==
    ASSUME NEW i, Asked(i), Sp!Share(i.pl) = 4 \/ Sp!PartsReach(i)
    PROVE  Sp!IsARange(i)
<1> SUFFICES ASSUME NEW s \in Sp!Speed(i)
             PROVE  0 <= s.low /\ s.low <= s.high /\ 0 <= s.promptLow /\ s.promptLow <= s.promptHigh
  BY DEF Sp!IsARange
<1>1. PICK a, b : /\ PartOf(i, a, b) /\ s = Sp!SpeedOf(i, a, b)
                  /\ Sp!PartsReach(i) => 0 < a.low /\ 0 < b.low
  BY SpeedOfPart
<1>2. IsRange(a) /\ IsRange(b)
  BY <1>1, PartIs
<1> DEFINE n == Sp!Share(i.pl)
           W == Sp!Bytes(i.model.size)
           V == W + i.model.cache
           low == Sp!Rate(n, V, a.low, b.low)
           high == Sp!Rate(n, W, a.high, b.high)
           x == Sp!PromptSpeed(i, a.promptLow, high, a)
           y == Sp!PromptSpeed(i, a.promptHigh, high, a)
<1>3. /\ s.low = Sp!Scaled(i.model, low, MoEGeneration[1]) /\ s.high = Sp!Scaled(i.model, high, MoEGeneration[2])
      /\ s.promptLow = Sp!Scaled(i.model, x, MoEPrompt[1]) /\ s.promptHigh = Sp!Scaled(i.model, y, MoEPrompt[2])
  BY <1>1 DEF Sp!SpeedOf
<1>4. n \in Nat /\ 0 < n /\ n <= 4 /\ W \in Nat \ {0} /\ i.model.cache \in Nat
  BY ModelIs DEF ModelOK
<1> HIDE DEF W, n
<1>5. V \in Nat \ {0} /\ W <= V
  BY <1>4
<1> HIDE DEF V
<1>6. n = 4 \/ (0 < a.low /\ 0 < b.low)
  BY <1>1 DEF n
<1>7. low \in Nat /\ high \in Nat /\ low <= high
  BY <1>2, <1>4, <1>5, <1>6, RateGrows DEF IsRange
<1> HIDE DEF low, high
<1>8. x \in Nat /\ y \in Nat /\ x <= y
  <2>1. Sp!Share(i.pl) = 4 \/ 0 < a.high
    BY <1>2, <1>6 DEF IsRange, n
  <2>2. /\ a.promptLow \in Nat /\ a.promptHigh \in Nat /\ a.promptLow <= a.promptHigh
        /\ a.high \in Nat /\ ModelOK(i) /\ high <= high
    BY <1>2, <1>7, ModelIs DEF IsRange
  <2> QED
    BY <1>7, <2>1, <2>2, PromptGrows
<1> HIDE DEF x, y
<1>9. IsPair(MoEGeneration) /\ IsPair(MoEPrompt)
  BY ModelIs
<1>10. s.low \in Nat /\ s.low <= s.high
  BY <1>3, <1>7, <1>9, ScaledGrows DEF IsPair
<1>11. s.promptLow \in Nat /\ s.promptLow <= s.promptHigh
  BY <1>3, <1>8, <1>9, ScaledGrows DEF IsPair
<1> QED
  BY <1>10, <1>11

(* A model's own run is inside the speed made from it: drawn around what   *)
(* was read, divided by no less at the low end and by no more at the high  *)
(* one.                                                                    *)
LEMMA MeasurementIsHeld ==
    ASSUME NEW i, Asked(i)
    PROVE  Sp!HoldsItsMeasurement(i)
<1> SUFFICES ASSUME NEW o \in Sp!Nearest(i.obs, i.pl.path, i.model.size),
                    Sp!Own(i.pl), i.pl.share = 4, o.size = i.model.size, o.fill <= i.model.cache, ~i.model.moe,
                    NEW s \in Sp!Speed(i)
             PROVE  s.low <= Sp!Rounded(100 * o.tps) /\ Sp!Rounded(100 * o.tps) <= s.high
  BY DEF Sp!HoldsItsMeasurement
<1>1. PICK a, b : PartOf(i, a, b) /\ s = Sp!SpeedOf(i, a, b)
  BY SpeedOfPart
<1>2. a = b /\ a \in Sp!Device(i) /\ IsRange(a) /\ Sp!Share(i.pl) = 4
  BY <1>1, PartIs DEF PartOf, Sp!Share
<1>3. PICK g \in i.pl.device : TRUE
  BY DEF Sp!Own
<1> DEFINE pop == Sp!DeviceSpeed(i.table, g, i.pl.path)
           near == Sp!Nearest(i.obs, i.pl.path, i.model.size)
<1>4. Sp!AtMostOne(pop) /\ \A q \in pop : IsRange(q)
  BY AskedIs, DeviceSpeedIs DEF Asked
<1>5. Sp!FiguresOK /\ ObsOK(i.obs) /\ i.model.size \in Nat
  BY AskedIs DEF Asked, Sp!AskedOK
<1>6. a \in Sp!WithCalibration(pop, i.obs, i.pl.path, i.model.size)
  BY <1>2, DeviceIs DEF DevicesOf
<1>7. Sp!AtMostOne(near) /\ Sp!ObservedOK(o) /\ o \in near
  BY <1>5, NearestIs
<1> HIDE DEF pop
<1>8. near = {} \/ \E p \in near : FromRun(a, p, pop, i.model.size)
  BY <1>4, <1>5, <1>6, CalibratedIs
<1>9. FromRun(a, o, pop, i.model.size)
  <2> HIDE DEF near
  <2> QED
    BY <1>7, <1>8 DEF Sp!AtMostOne
<1> DEFINE w == Sp!Width(pop, Sp!Distance(o.size, i.model.size))
           W == Sp!Bytes(i.model.size)
           V == W + i.model.cache
           F == W + o.fill
           t == o.tps
           v == 10 * Sp!Reached(o)
           low == Sp!Rate(4, V, a.low, b.low)
           high == Sp!Rate(4, W, a.high, b.high)
<1>10. IsShare(w)
  <2>1. Sp!Distance(o.size, i.model.size) \in Nat
    BY <1>5, <1>7, DistanceIs DEF Sp!ObservedOK
  <2> QED
    BY <1>4, <1>5, <2>1, WidthIs DEF IsShare
<1>11. a.low = LowOf(v, w) /\ a.high = HighOf(v, w)
  BY <1>9 DEF FromRun
<1>12. v \in Nat
  BY <1>7, ReachedIs
<1>13. v = 10 * (t * F)
  BY DEF Sp!Reached
<1>14. W \in Nat \ {0} /\ i.model.cache \in Nat /\ o.fill \in Nat /\ t \in Nat
  BY <1>7, ModelIs DEF ModelOK, Sp!ObservedOK
<1> HIDE DEF w, v, near, W
<1>15. V \in Nat \ {0} /\ F \in Nat /\ W <= F /\ F <= V
  BY <1>14
<1>16. a.low <= v /\ v <= a.high /\ a.low \in Nat /\ a.high \in Nat
  BY <1>10, <1>11, <1>12, AroundIt
<1> DEFINE r == 100 * t
           x == 10 * a.low
           y == 10 * a.high
<1>17. r \in Nat /\ x \in Nat /\ y \in Nat
  BY <1>14, <1>16
<1>18. low = x \div V /\ high = y \div W
  BY <1>14, <1>15, <1>16, WholeRateIs
<1>19. x <= r * V /\ r * W <= y
  <2> HIDE DEF F, V, r
  <2>1. r * F \in Nat /\ r * V \in Nat /\ r * W \in Nat /\ r * W <= r * F /\ r * F <= r * V
    BY <1>14, <1>15, <1>17, ProductsGrow
  <2>2. 10 * v = r * F
    BY <1>13, <1>14, <1>15 DEF r
  <2>3. x <= 10 * v /\ 10 * v <= y
    BY <1>12, <1>16
  <2> HIDE DEF x, y
  <2> QED
    BY <1>17, <2>1, <2>2, <2>3
<1> HIDE DEF x, y, r, V
<1>20. /\ low \in Nat /\ high \in Nat /\ low <= r /\ r <= high
  BY <1>14, <1>15, <1>17, <1>18, <1>19, QuotientAround, Divides
<1>21. s.low = Sp!Rounded(low) /\ s.high = Sp!Rounded(high)
  BY <1>1, <1>2 DEF Sp!SpeedOf, Sp!Scaled, V, W
<1> HIDE DEF low, high
<1>22. Sp!Rounded(low) <= Sp!Rounded(r) /\ Sp!Rounded(r) <= Sp!Rounded(high)
  BY <1>17, <1>20, RoundedGrows
<1> QED
  BY <1>21, <1>22 DEF r

(* A plan with a quarter more on the card asks about the same parts.       *)
LEMMA MoreIs ==
    ASSUME NEW i, Asked(i), Sp!Own(i.pl), i.pl.share < 4, NEW j, j = [i EXCEPT !.pl.share = i.pl.share + 1]
    PROVE  /\ j.model = i.model /\ Sp!Own(j.pl) /\ Sp!Device(j) = Sp!Device(i) /\ Sp!System(j) = Sp!System(i)
           /\ i.pl.share \in Nat /\ 0 < i.pl.share
           /\ Sp!Share(i.pl) = i.pl.share /\ Sp!Share(j.pl) = i.pl.share + 1 /\ j.pl.share = i.pl.share + 1
<1> DEFINE n == i.pl.share
           p == [path |-> i.pl.path, device |-> i.pl.device, shared |-> i.pl.shared, share |-> n + 1]
<1>1. i = [table |-> i.table, m |-> i.m, pl |-> i.pl, model |-> i.model, obs |-> i.obs]
  BY DEF Asked, Sp!AskedOK
<1>2. [i.pl EXCEPT !.share = n + 1] = p
  <2>1. i.pl = [path |-> i.pl.path, device |-> i.pl.device, shared |-> i.pl.shared, share |-> n]
    BY DEF Asked, Sp!AskedOK
  <2> QED
    BY <2>1
<1>3. j = [i EXCEPT !.pl = [i.pl EXCEPT !.share = n + 1]]
  OBVIOUS
<1> HIDE DEF n, p
<1>4. j.table = i.table /\ j.m = i.m /\ j.pl = p /\ j.model = i.model /\ j.obs = i.obs
  BY <1>1, <1>2, <1>3
<1>5. p.path = i.pl.path /\ p.device = i.pl.device /\ p.shared = i.pl.shared /\ p.share = n + 1
  BY DEF p
<1>6. Sp!Own(j.pl)
  BY <1>4, <1>5 DEF Sp!Own
<1>7. Sp!Device(j) = Sp!Device(i)
  BY <1>4, <1>5 DEF Sp!Device
<1>8. Sp!System(j) = Sp!System(i)
  BY <1>4, <1>5, <1>6 DEF Sp!System
<1>9. n \in Nat /\ 0 < n
  <2>1. n \in 1..4
    BY DEF Asked, Sp!AskedOK, n
  <2> QED
    BY <2>1
<1> QED
  BY <1>4, <1>5, <1>6, <1>7, <1>8, <1>9 DEF Sp!Share, n

(* More of a model on the faster part makes neither end slower, nor the    *)
(* prompt.                                                                 *)
LEMMA FasterOnTheCard ==
    ASSUME NEW i, Asked(i), Sp!PartsReach(i)
    PROVE  Sp!MoreOnTheCardIsFaster(i)
<1> DEFINE j == [i EXCEPT !.pl.share = i.pl.share + 1]
<1> SUFFICES ASSUME Sp!Own(i.pl), i.pl.share < 4,
                    NEW d \in Sp!Device(i), NEW s \in Sp!System(i), s.low <= d.low, s.high <= d.high,
                    NEW a \in Sp!Speed(i), NEW b \in Sp!Speed(j)
             PROVE  a.low <= b.low /\ a.high <= b.high /\ a.promptHigh <= b.promptHigh
  BY DEF Sp!MoreOnTheCardIsFaster
<1> DEFINE n == i.pl.share
<1>1. /\ j.model = i.model /\ Sp!Own(j.pl) /\ Sp!Device(j) = Sp!Device(i) /\ Sp!System(j) = Sp!System(i)
      /\ n \in Nat /\ 0 < n /\ n < 4
      /\ Sp!Share(i.pl) = n /\ Sp!Share(j.pl) = n + 1 /\ j.pl.share = n + 1
  BY MoreIs
<1> HIDE DEF j
<1>2. PICK e, f : PartOf(i, e, f) /\ a = Sp!SpeedOf(i, e, f) /\ 0 < e.low /\ 0 < f.low
  BY SpeedOfPart
<1>3. PICK g, h : PartOf(j, g, h) /\ b = Sp!SpeedOf(j, g, h)
  BY SpeedOfPart
<1>4. /\ \A x, y \in Sp!Device(i) : x = y
      /\ \A x, y \in Sp!System(i) : x = y
  BY DeviceIs, SystemIs DEF Sp!AtMostOne
<1>5. e = d /\ f = s
  BY <1>1, <1>2, <1>4 DEF PartOf
<1>6. g = d /\ (n < 3 => h = s)
  BY <1>1, <1>3, <1>4 DEF PartOf
<1>7. IsRange(d) /\ IsRange(s)
  BY DeviceIs, SystemIs
<1> DEFINE W == Sp!Bytes(i.model.size)
           V == W + i.model.cache
           l == Sp!Rate(n, V, d.low, s.low)
           m == Sp!Rate(n + 1, V, d.low, h.low)
           p == Sp!Rate(n, W, d.high, s.high)
           q == Sp!Rate(n + 1, W, d.high, h.high)
           x == Sp!PromptSpeed(i, d.promptHigh, p, d)
           y == Sp!PromptSpeed(j, d.promptHigh, q, d)
<1>8. /\ a.low = Sp!Scaled(i.model, l, MoEGeneration[1]) /\ a.high = Sp!Scaled(i.model, p, MoEGeneration[2])
      /\ a.promptHigh = Sp!Scaled(i.model, x, MoEPrompt[2])
  BY <1>1, <1>2, <1>5 DEF Sp!SpeedOf
<1>9. /\ b.low = Sp!Scaled(i.model, m, MoEGeneration[1]) /\ b.high = Sp!Scaled(i.model, q, MoEGeneration[2])
      /\ b.promptHigh = Sp!Scaled(i.model, y, MoEPrompt[2])
  BY <1>1, <1>3, <1>6 DEF Sp!SpeedOf
<1>10. W \in Nat \ {0} /\ i.model.cache \in Nat /\ ModelOK(i)
  BY ModelIs DEF ModelOK
<1> HIDE DEF W, n
<1>11. V \in Nat \ {0}
  BY <1>10
<1> HIDE DEF V
<1>12. d.low \in Nat /\ s.low \in Nat /\ 0 < s.low /\ d.high \in Nat \ {0} /\ s.high \in Nat /\ 0 < s.high
  BY <1>2, <1>5, <1>7 DEF IsRange
<1>13. l \in Nat /\ m \in Nat /\ l <= m
  BY <1>1, <1>6, <1>11, <1>12, RateOfMore
<1>14. p \in Nat /\ q \in Nat /\ p <= q
  BY <1>1, <1>6, <1>10, <1>12, RateOfMore
<1>15. x \in Nat /\ y \in Nat /\ x <= y
  <2>1. CASE n < 3
    <3>1. y = Sp!PromptSpeed(i, d.promptHigh, q, d)
      BY <1>1, <2>1 DEF Sp!PromptSpeed
    <3>2. d.promptHigh \in Nat /\ d.promptHigh <= d.promptHigh /\ 0 < d.high
      BY <1>7, <1>12 DEF IsRange
    <3> HIDE DEF p, q
    <3> QED
      BY <1>10, <1>12, <1>14, <3>1, <3>2, PromptGrows
  <2>2. CASE n = 3
    <3>1. n + 1 = 4
      BY <2>2
    <3>2. q = (10 * d.high) \div W
      BY <1>10, <1>12, <3>1, WholeRateIs
    <3>3. p <= (10 * d.high) \div Sp!Bytes(i.model.size)
      BY <1>14, <3>2 DEF W
    <3>4. d.promptHigh \in Nat /\ Sp!Share(i.pl) # 4 /\ Sp!Share(j.pl) = 4
      BY <1>1, <1>7, <2>2 DEF IsRange
    <3> HIDE DEF p, q
    <3> QED
      BY <1>1, <1>10, <1>12, <1>14, <3>3, <3>4, PromptOfWhole
  <2> QED
    BY <1>1, <2>1, <2>2
<1> HIDE DEF l, m, p, q, x, y
<1>16. MoEGeneration[1] \in Nat /\ MoEGeneration[2] \in Nat /\ MoEPrompt[2] \in Nat
  BY ModelIs DEF IsPair
<1>17. a.low <= b.low
  BY <1>8, <1>9, <1>13, <1>16, ScaledGrows
<1>18. a.high <= b.high
  BY <1>8, <1>9, <1>14, <1>16, ScaledGrows
<1>19. a.promptHigh <= b.promptHigh
  BY <1>8, <1>9, <1>15, <1>16, ScaledGrows
<1> QED
  BY <1>17, <1>18, <1>19

(* For every table that was accepted, every machine, plan, model and list  *)
(* of benchmarks, whatever the figures: a name of several cards is never   *)
(* taken for a card it may not be, a benchmark never widens what was       *)
(* known, a part that was measured is known, a model's own measurement is  *)
(* inside the estimate made from it, a speed is a range, and more of a     *)
(* model on the faster part is no slower (the properties of Speeds, of     *)
(* devices.go, calibration.go and speed.go).                               *)
THEOREM SpeedsAreTrue ==
    ASSUME NEW i, Sp!FiguresOK, Sp!AskedOK(i), Sp!ValidTable(i.table)
    PROVE  /\ Sp!NeverTooFast(i) /\ Sp!NeverWider(i) /\ Sp!KnownOnceMeasured(i) /\ Sp!HoldsItsMeasurement(i)
           /\ Sp!Share(i.pl) = 4 \/ Sp!PartsReach(i) => Sp!IsARange(i)
           /\ Sp!PartsReach(i) => Sp!MoreOnTheCardIsFaster(i)
<1>1. Asked(i)
  BY DEF Asked
<1> QED
  BY <1>1, NeverTooFastHolds, NeverWiderHolds, KnownOnceMeasuredHolds, MeasurementIsHeld, SpeedIsARange, FasterOnTheCard
-----------------------------------------------------------------------------
(* The layout of a model's layers, which its memory is counted from.       *)
CONSTANTS ProjectorRank, SlidingPatterns, RecurrentByInterval, DefaultInterval
Mf == INSTANCE ModelFiles

LEMMA MfCount == ASSUME NEW S PROVE Mf!Cardinality(S) = Cardinality(S)
BY DEF Mf!Cardinality, Cardinality

(* A sum over a set adds one element at a time.                            *)
LEMMA SumsAreNatural ==
    ASSUME NEW S, IsFiniteSet(S), NEW f, \A x \in S : f[x] \in Nat, NEW h, SumsOn(h, f, SUBSET S)
    PROVE  /\ \A s \in SUBSET S : h[s] \in Nat
           /\ h[{}] = 0
           /\ \A s \in SUBSET S : s # {} => Picked(s) \in s /\ h[s] = f[Picked(s)] + h[s \ {Picked(s)}]
<1> DEFINE Wrong == {s \in SUBSET S : ~(h[s] \in Nat)}
<1>1. \A s \in SUBSET S : h[s] = IF s = {} THEN 0 ELSE f[Picked(s)] + h[s \ {Picked(s)}]
  BY DEF SumsOn
<1>2. \A s \in SUBSET S : s # {} => Picked(s) \in s
  BY DEF Picked
<1>3. Wrong = {}
  <2> SUFFICES ASSUME Wrong # {} PROVE FALSE
    OBVIOUS
  <2>1. PICK s \in Wrong : \A t \in Wrong : Cardinality(s) <= Cardinality(t)
    <3>1. \A t \in Wrong : IsFiniteSet(t)
      BY FS_Subset
    <3> HIDE DEF Wrong
    <3> QED
      BY <3>1, SmallestSet
  <2>2. s # {}
    <3>1. h[{}] = 0
      BY <1>1
    <3>2. {} \notin Wrong
      BY <3>1
    <3> QED
      BY <3>2
  <2>3. Picked(s) \in s /\ s \in SUBSET S
    BY <1>2, <2>1, <2>2
  <2>4. s \ {Picked(s)} \in SUBSET S /\ Cardinality(s \ {Picked(s)}) = Cardinality(s) - 1 /\ Cardinality(s) \in Nat
    BY <2>3, SmallerSubset, 0 \in Nat
  <2>5. s \ {Picked(s)} \notin Wrong
    <3> HIDE DEF Wrong
    <3> QED
      BY <2>1, <2>4
  <2>6. h[s \ {Picked(s)}] \in Nat /\ f[Picked(s)] \in Nat
    BY <2>3, <2>4, <2>5
  <2>7. h[s] = f[Picked(s)] + h[s \ {Picked(s)}]
    BY <1>1, <2>2, <2>3
  <2>8. h[s] \in Nat
    BY <2>6, <2>7
  <2> QED
    BY <2>1, <2>8
<1> QED
  BY <1>1, <1>2, <1>3

(* Elements that come no smaller add up to no less.                        *)
LEMMA SumsGrow ==
    ASSUME NEW S, IsFiniteSet(S), NEW f, NEW g, \A x \in S : f[x] \in Nat /\ g[x] \in Nat /\ f[x] <= g[x],
           NEW h, NEW k, SumsOn(h, f, SUBSET S), SumsOn(k, g, SUBSET S)
    PROVE  h[S] <= k[S]
<1> DEFINE Wrong == {s \in SUBSET S : ~(h[s] <= k[s])}
<1>1. /\ \A s \in SUBSET S : h[s] \in Nat /\ k[s] \in Nat
      /\ h[{}] = 0 /\ k[{}] = 0
      /\ \A s \in SUBSET S : s # {} => /\ Picked(s) \in s /\ h[s] = f[Picked(s)] + h[s \ {Picked(s)}]
                                       /\ k[s] = g[Picked(s)] + k[s \ {Picked(s)}]
  <2>1. (\A x \in S : f[x] \in Nat) /\ (\A x \in S : g[x] \in Nat)
    OBVIOUS
  <2>2. \A s \in SUBSET S : h[s] \in Nat
    BY <2>1, SumsAreNatural
  <2>3. \A s \in SUBSET S : k[s] \in Nat
    BY <2>1, SumsAreNatural
  <2>4. \A s \in SUBSET S : s # {} => Picked(s) \in s
    BY DEF Picked
  <2>5. h[{}] = 0 /\ \A s \in SUBSET S : s # {} => h[s] = f[Picked(s)] + h[s \ {Picked(s)}]
    BY DEF SumsOn
  <2>6. k[{}] = 0 /\ \A s \in SUBSET S : s # {} => k[s] = g[Picked(s)] + k[s \ {Picked(s)}]
    BY DEF SumsOn
  <2> QED
    BY <2>2, <2>3, <2>4, <2>5, <2>6
<1>2. Wrong = {}
  <2> SUFFICES ASSUME Wrong # {} PROVE FALSE
    OBVIOUS
  <2>1. PICK s \in Wrong : \A t \in Wrong : Cardinality(s) <= Cardinality(t)
    <3>1. \A t \in Wrong : IsFiniteSet(t)
      BY FS_Subset
    <3> HIDE DEF Wrong
    <3> QED
      BY <3>1, SmallestSet
  <2>2. s # {} /\ s \in SUBSET S /\ ~(h[s] <= k[s])
    BY <1>1, <2>1
  <2>3. Picked(s) \in s
    BY <1>1, <2>2
  <2>4. s \ {Picked(s)} \in SUBSET S /\ Cardinality(s \ {Picked(s)}) = Cardinality(s) - 1 /\ Cardinality(s) \in Nat
    BY <2>2, <2>3, SmallerSubset, 0 \in Nat
  <2>5. s \ {Picked(s)} \notin Wrong
    <3> HIDE DEF Wrong
    <3> QED
      BY <2>1, <2>4
  <2>6. h[s \ {Picked(s)}] <= k[s \ {Picked(s)}]
    BY <2>4, <2>5
  <2>7. f[Picked(s)] \in Nat /\ g[Picked(s)] \in Nat /\ f[Picked(s)] <= g[Picked(s)]
    BY <2>2, <2>3
  <2>8. /\ h[s] = f[Picked(s)] + h[s \ {Picked(s)}] /\ k[s] = g[Picked(s)] + k[s \ {Picked(s)}]
        /\ h[s \ {Picked(s)}] \in Nat /\ k[s \ {Picked(s)}] \in Nat
    BY <1>1, <2>2, <2>4
  <2> QED
    BY <2>2, <2>6, <2>7, <2>8
<1> QED
  BY <1>2

(* What MapThenSumSet adds up of the groups of a layout.                   *)
LEMMA LayersSum ==
    ASSUME NEW layout, IsFiniteSet(layout.groups), \A g \in layout.groups : g.layers \in Nat
    PROVE  \E h : /\ Mf!LayersOf(layout) = h[layout.groups]
                  /\ SumsOn(h, [g \in layout.groups |-> g.layers], SUBSET layout.groups)
<1> DEFINE G == layout.groups
           f == [g \in G |-> g.layers]
           Is(h) == h = [s \in SUBSET G |-> IF s = {} THEN 0 ELSE Picked(s).layers + h[s \ {Picked(s)}]]
           it == CHOOSE h : Is(h)
<1>1. Mf!LayersOf(layout) = it[G]
  BY DEF Mf!LayersOf, Mf!MapThenSumSet, Mf!MapThenFoldSet, Picked
<1>2. PICK h : SumsOn(h, f, SUBSET G)
  <2>1. \A x \in G : f[x] \in Nat
    OBVIOUS
  <2> HIDE DEF f, G
  <2> QED
    BY <2>1, SumExists DEF G
<1>3. \A s \in SUBSET G : s # {} => f[Picked(s)] = Picked(s).layers
  BY DEF Picked
<1>4. \A k : SumsOn(k, f, SUBSET G) <=> Is(k)
  <2> SUFFICES ASSUME NEW k PROVE SumsOn(k, f, SUBSET G) <=> Is(k)
    OBVIOUS
  <2>1. [s \in SUBSET G |-> IF s = {} THEN 0 ELSE f[Picked(s)] + k[s \ {Picked(s)}]]
          = [s \in SUBSET G |-> IF s = {} THEN 0 ELSE Picked(s).layers + k[s \ {Picked(s)}]]
    BY <1>3
  <2> QED
    BY <2>1 DEF SumsOn
<1>5. Is(it)
  <2>1. \E k : Is(k)
    BY <1>2, <1>4
  <2> HIDE DEF Is
  <2> QED
    BY <2>1
<1>6. SumsOn(it, f, SUBSET G)
  BY <1>4, <1>5
<1> QED
  BY <1>1, <1>6

(* Of things told apart by what is made of them, each is in one group.     *)
GroupOf(C, sh, s) == [shape |-> s, layers |-> Cardinality({i \in C : sh[i] = s})]
GroupsOf(C, sh) == {GroupOf(C, sh, s) : s \in {sh[i] : i \in C}}
Members(C, sh, g) == {i \in C : GroupOf(C, sh, sh[i]) = g}
LEMMA GroupsAre ==
    ASSUME NEW C, IsFiniteSet(C), NEW sh
    PROVE  /\ IsFiniteSet(GroupsOf(C, sh))
           /\ \A g \in GroupsOf(C, sh) :
                g.layers \in Nat /\ g.layers = Cardinality(Members(C, sh, g))
<1> DEFINE G == GroupsOf(C, sh)
<1>1. IsFiniteSet(G)
  <2> DEFINE to == [i \in C |-> GroupOf(C, sh, sh[i])]
  <2>1. G = {to[i] : i \in C}
    BY DEF GroupsOf
  <2> HIDE DEF G
  <2> QED
    BY <2>1, ImageIsFinite
<1>2. \A g \in G : g.layers \in Nat /\ g.layers = Cardinality(Members(C, sh, g))
  <2> SUFFICES ASSUME NEW g \in G
               PROVE  g.layers \in Nat /\ g.layers = Cardinality(Members(C, sh, g))
    OBVIOUS
  <2>1. PICK s \in {sh[i] : i \in C} : g = GroupOf(C, sh, s)
    BY DEF GroupsOf
  <2>2. g.shape = s /\ g.layers = Cardinality({i \in C : sh[i] = s})
    BY <2>1 DEF GroupOf
  <2>3. \A i \in C : GroupOf(C, sh, sh[i]) = g <=> sh[i] = s
    BY <2>1, <2>2 DEF GroupOf
  <2>4. Members(C, sh, g) = {i \in C : sh[i] = s}
    BY <2>3 DEF Members
  <2>5. IsFiniteSet({i \in C : sh[i] = s})
    BY FS_Subset
  <2> QED
    BY <2>2, <2>4, <2>5, FS_CardinalityType
<1> QED
  BY <1>1, <1>2

LEMMA GroupsCountAll ==
    ASSUME NEW C, IsFiniteSet(C), NEW sh, NEW h,
           SumsOn(h, [g \in GroupsOf(C, sh) |-> g.layers], SUBSET GroupsOf(C, sh))
    PROVE  h[GroupsOf(C, sh)] = Cardinality(C)
<1> DEFINE G == GroupsOf(C, sh)
           f == [g \in G |-> g.layers]
           In(t) == {i \in C : GroupOf(C, sh, sh[i]) \in t}
           Wrong == {t \in SUBSET G : h[t] # Cardinality(In(t))}
<1>1. IsFiniteSet(G)
  BY GroupsAre
<1>2. \A t : IsFiniteSet(In(t)) /\ Cardinality(In(t)) \in Nat
  BY FS_Subset, FS_CardinalityType
<1>3. \A g \in G : g.layers \in Nat /\ g.layers = Cardinality(Members(C, sh, g))
  BY GroupsAre
<1>4. \A g \in G : f[g] = g.layers
  OBVIOUS
<1> HIDE DEF f
<1>5. \A g \in G : f[g] \in Nat
  BY <1>3, <1>4
<1>6. SumsOn(h, f, SUBSET G)
  BY DEF f
<1>7. In(G) = C
  BY DEF GroupsOf
<1> HIDE DEF G
<1>8. /\ \A s \in SUBSET G : h[s] \in Nat
      /\ h[{}] = 0
      /\ \A s \in SUBSET G : s # {} => Picked(s) \in s /\ h[s] = f[Picked(s)] + h[s \ {Picked(s)}]
  <2>1. \A s \in SUBSET G : h[s] \in Nat
    BY <1>1, <1>5, <1>6, SumsAreNatural
  <2>2. \A s \in SUBSET G : s # {} => Picked(s) \in s
    BY DEF Picked
  <2>3. h[{}] = 0 /\ \A s \in SUBSET G : s # {} => h[s] = f[Picked(s)] + h[s \ {Picked(s)}]
    BY <1>6 DEF SumsOn
  <2> QED
    BY <2>1, <2>2, <2>3
<1>9. Wrong = {}
  <2> SUFFICES ASSUME Wrong # {} PROVE FALSE
    OBVIOUS
  <2>1. PICK s \in Wrong : \A t \in Wrong : Cardinality(s) <= Cardinality(t)
    <3>1. \A t \in Wrong : IsFiniteSet(t)
      BY <1>1, FS_Subset
    <3> HIDE DEF Wrong
    <3> QED
      BY <3>1, SmallestSet
  <2>2. s # {} /\ s \in SUBSET G /\ h[s] # Cardinality(In(s))
    <3>1. In({}) = {}
      OBVIOUS
    <3> HIDE DEF In
    <3> QED
      BY <1>8, <2>1, <3>1, FS_EmptySet
  <2>3. Picked(s) \in s
    BY <1>8, <2>2
  <2>4. s \ {Picked(s)} \in SUBSET G /\ Cardinality(s \ {Picked(s)}) = Cardinality(s) - 1 /\ Cardinality(s) \in Nat
    BY <1>1, <2>2, <2>3, SmallerSubset, 0 \in Nat
  <2>5. s \ {Picked(s)} \notin Wrong
    <3> HIDE DEF Wrong
    <3> QED
      BY <2>1, <2>4
  <2>6. h[s \ {Picked(s)}] = Cardinality(In(s \ {Picked(s)}))
    BY <2>4, <2>5
  <2> DEFINE A == In(s \ {Picked(s)})
             B == Members(C, sh, Picked(s))
  <2>7. In(s) = A \cup B /\ A \cap B = {}
    BY <2>3 DEF Members
  <2>8. IsFiniteSet(A) /\ IsFiniteSet(B)
    BY FS_Subset DEF Members
  <2>9. f[Picked(s)] = Cardinality(B)
    BY <1>3, <1>4, <2>2, <2>3
  <2>10. h[s] = Cardinality(B) + Cardinality(A)
    BY <1>8, <2>2, <2>6, <2>9
  <2> HIDE DEF A, B
  <2>11. Cardinality(A) \in Nat /\ Cardinality(B) \in Nat
    BY <2>8, FS_CardinalityType
  <2>12. Cardinality(A \cup B) = Cardinality(A) + Cardinality(B)
    <3>1. Cardinality(A \cup B) = Cardinality(A) + Cardinality(B) - Cardinality(A \cap B)
      BY <2>8, FS_Union
    <3>2. Cardinality(A \cap B) = 0
      BY <2>7, FS_EmptySet
    <3> QED
      BY <2>8, <2>11, <3>1, <3>2
  <2>13. Cardinality(In(s)) = Cardinality(A \cup B)
    <3> HIDE DEF In
    <3> QED
      BY <2>7
  <2>14. h[s] = Cardinality(In(s))
    <3> HIDE DEF In
    <3> QED
      BY <2>10, <2>11, <2>12, <2>13
  <2> QED
    BY <2>2, <2>14
<1>10. h[G] = Cardinality(C)
  BY <1>7, <1>9
<1> QED
  BY <1>10 DEF G

(* Every layer that is run keeps a state, nothing or a cache.              *)
LEMMA RunLayers ==
    ASSUME NEW h, NEW m, Mf!HeaderOK(h, m), Mf!Readable(h)
    PROVE  /\ h.blocks \in Nat /\ h.blocks > 0
           /\ Mf!LayersRun(h, m) \in Nat /\ Mf!LayersRun(h, m) <= h.blocks
           /\ m.nextn < h.blocks => Mf!LayersRun(h, m) = h.blocks - m.nextn
BY DEF Mf!HeaderOK, Mf!Readable, Mf!LayersRun

LEMMA LayersArePartitioned ==
    ASSUME NEW h, NEW m, Mf!HeaderOK(h, m), Mf!Readable(h)
    PROVE  LET R == Mf!Recurrent(h, m)
               K == Mf!KeepsNothing(h, m)
               C == Mf!Caching(h, m)
           IN  /\ IsFiniteSet(R) /\ IsFiniteSet(K) /\ IsFiniteSet(C)
               /\ Cardinality(R) \in Nat /\ Cardinality(K) \in Nat /\ Cardinality(C) \in Nat
               /\ Cardinality(C) + Cardinality(R) + Cardinality(K) = Mf!LayersRun(h, m)
<1> DEFINE n == Mf!LayersRun(h, m)
           R == Mf!Recurrent(h, m)
           K == Mf!KeepsNothing(h, m)
           C == Mf!Caching(h, m)
<1>1. n \in Nat
  BY RunLayers
<1>2. R \subseteq 1..n /\ K \subseteq 1..n /\ C \subseteq 1..n
  BY DEF Mf!Recurrent, Mf!KeepsNothing, Mf!Caching
<1>3. K \cap R = {} /\ C \cap (R \cup K) = {} /\ C \cup (R \cup K) = 1..n
  BY DEF Mf!Recurrent, Mf!KeepsNothing, Mf!Caching
<1> HIDE DEF n, R, K, C
<1>4. IsFiniteSet(1..n) /\ Cardinality(1..n) = n
  BY <1>1, FS_Interval
<1>5. IsFiniteSet(R) /\ IsFiniteSet(K) /\ IsFiniteSet(C)
  BY <1>2, <1>4, FS_Subset
<1>6. Cardinality(R) \in Nat /\ Cardinality(K) \in Nat /\ Cardinality(C) \in Nat
  BY <1>5, FS_CardinalityType
<1>7. IsFiniteSet(R \cup K) /\ Cardinality(R \cup K) = Cardinality(R) + Cardinality(K)
  <2>1. Cardinality(R \cap K) = 0
    BY <1>3, FS_EmptySet
  <2>2. IsFiniteSet(R \cup K) /\ Cardinality(R \cup K) = Cardinality(R) + Cardinality(K) - Cardinality(R \cap K)
    BY <1>5, FS_Union
  <2> QED
    BY <1>6, <2>1, <2>2
<1>8. Cardinality(C \cup (R \cup K)) = Cardinality(C) + Cardinality(R \cup K)
  <2>1. Cardinality(C \cap (R \cup K)) = 0
    BY <1>3, FS_EmptySet
  <2>2. Cardinality(C \cup (R \cup K)) = Cardinality(C) + Cardinality(R \cup K) - Cardinality(C \cap (R \cup K))
    BY <1>5, <1>7, FS_Union
  <2>3. Cardinality(R \cup K) \in Nat
    BY <1>6, <1>7
  <2> QED
    BY <1>6, <2>1, <2>2, <2>3
<1>9. Cardinality(C) + Cardinality(R) + Cardinality(K) = n
  <2>1. Cardinality(C \cup (R \cup K)) = n
    BY <1>3, <1>4
  <2> QED
    BY <1>6, <1>7, <1>8, <2>1
<1> QED
  BY <1>5, <1>6, <1>9 DEF n, R, K, C

(* A layout's groups are those of the shapes of the layers with a cache.   *)
Shapes(h, m) == [i \in Mf!Caching(h, m) |-> Mf!Shape(h, m, i)]
LEMMA LayoutIs ==
    ASSUME NEW h, NEW m, Mf!Readable(h)
    PROVE  /\ Mf!NewLayout(h, m).groups = GroupsOf(Mf!Caching(h, m), Shapes(h, m))
           /\ Mf!NewLayout(h, m).recurrent = Cardinality(Mf!Recurrent(h, m))
           /\ Mf!NewLayout(h, m).stateless = Cardinality(Mf!KeepsNothing(h, m)) + (h.blocks - Mf!LayersRun(h, m))
           /\ Mf!NewLayout(h, m).basis = Mf!Basis(h, m)
<1> DEFINE C == Mf!Caching(h, m)
           sh == Shapes(h, m)
<1>1. \A i \in C : sh[i] = Mf!Shape(h, m, i)
  BY DEF Shapes
<1>2. \A s : {i \in C : sh[i] = s} = {i \in C : Mf!Shape(h, m, i) = s}
  BY <1>1
<1>3. {sh[i] : i \in C} = {Mf!Shape(h, m, i) : i \in C}
  BY <1>1
<1>4. GroupsOf(C, sh) = {[shape |-> s, layers |-> Mf!Cardinality({i \in C : Mf!Shape(h, m, i) = s})] : s \in {Mf!Shape(h, m, i) : i \in C}}
  <2>1. \A s : GroupOf(C, sh, s) = [shape |-> s, layers |-> Mf!Cardinality({i \in C : Mf!Shape(h, m, i) = s})]
    BY <1>2, MfCount DEF GroupOf
  <2> HIDE DEF C, sh
  <2>2. GroupsOf(C, sh) = {GroupOf(C, sh, s) : s \in {Mf!Shape(h, m, i) : i \in C}}
    BY <1>3 DEF GroupsOf
  <2> QED
    BY <2>1, <2>2
<1>5. Mf!NewLayout(h, m).groups = GroupsOf(C, sh)
  <2> HIDE DEF sh
  <2> QED
    BY <1>4 DEF Mf!NewLayout
<1>6. Mf!NewLayout(h, m).recurrent = Mf!Cardinality(Mf!Recurrent(h, m))
  BY DEF Mf!NewLayout
<1>7. Mf!NewLayout(h, m).stateless = Mf!Cardinality(Mf!KeepsNothing(h, m)) + (h.blocks - Mf!LayersRun(h, m))
  BY DEF Mf!NewLayout
<1>8. Mf!NewLayout(h, m).basis = Mf!Basis(h, m)
  BY DEF Mf!NewLayout
<1> QED
  BY <1>5, <1>6, <1>7, <1>8, MfCount

LEMMA EveryLayerIsOnce ==
    ASSUME NEW h, NEW m, Mf!HeaderOK(h, m)
    PROVE  Mf!EveryLayerOnce(h, m)
<1> SUFFICES ASSUME Mf!Readable(h) PROVE Mf!EveryLayerOnce(h, m)
  BY DEF Mf!EveryLayerOnce
<1> DEFINE layout == Mf!NewLayout(h, m)
           n == Mf!LayersRun(h, m)
           R == Cardinality(Mf!Recurrent(h, m))
           K == Cardinality(Mf!KeepsNothing(h, m))
           C == Cardinality(Mf!Caching(h, m))
<1>1. IsFiniteSet(Mf!Caching(h, m)) /\ R \in Nat /\ K \in Nat /\ C \in Nat /\ C + R + K = n
  BY LayersArePartitioned
<1>2. /\ layout.groups = GroupsOf(Mf!Caching(h, m), Shapes(h, m)) /\ layout.recurrent = R
      /\ layout.stateless = K + (h.blocks - n)
  BY LayoutIs
<1>3. IsFiniteSet(layout.groups) /\ \A g \in layout.groups : g.layers \in Nat
  <2>1. IsFiniteSet(GroupsOf(Mf!Caching(h, m), Shapes(h, m)))
    BY <1>1, GroupsAre
  <2>2. \A g \in GroupsOf(Mf!Caching(h, m), Shapes(h, m)) : g.layers \in Nat
    BY <1>1, GroupsAre
  <2> HIDE DEF layout
  <2> QED
    BY <1>2, <2>1, <2>2
<1>4. PICK f : /\ Mf!LayersOf(layout) = f[layout.groups]
               /\ SumsOn(f, [g \in layout.groups |-> g.layers], SUBSET layout.groups)
  <2> HIDE DEF layout
  <2> QED
    BY <1>3, LayersSum
<1>5. Mf!LayersOf(layout) = C
  <2> HIDE DEF layout
  <2> QED
    BY <1>1, <1>2, <1>4, GroupsCountAll
<1>6. h.blocks \in Nat /\ n \in Nat /\ n <= h.blocks /\ (m.nextn < h.blocks => n = h.blocks - m.nextn)
  BY RunLayers
<1>7. R \in Nat /\ K \in Nat /\ C \in Nat /\ C + R + K = n /\ layout.recurrent = R /\ layout.stateless = K + (h.blocks - n)
  BY <1>1, <1>2
<1> HIDE DEF layout, n, R, K, C
<1>8. Mf!LayersOf(layout) + layout.recurrent + layout.stateless = h.blocks
  BY <1>5, <1>6, <1>7
<1>9. m.nextn < h.blocks => Mf!LayersOf(layout) + layout.recurrent <= h.blocks - m.nextn
  BY <1>5, <1>6, <1>7
<1> QED
  BY <1>8, <1>9 DEF Mf!EveryLayerOnce, layout

(* Where only the plain formula applies, all layers are one group.         *)
LEMMA OnePlainGroup ==
    ASSUME NEW h, NEW m, Mf!HeaderOK(h, m)
    PROVE  Mf!PlainIsOneGroup(h, m)
<1> SUFFICES ASSUME Mf!NewLayout(h, m).basis = "uniform", h.kvHeads > 0
             PROVE  Mf!NewLayout(h, m).groups = {[shape |-> Mf!Full(h, m, 1), layers |-> h.blocks]}
  BY DEF Mf!PlainIsOneGroup
<1> DEFINE full == Mf!Full(h, m, 1)
           n == h.blocks
           sh == Shapes(h, m)
<1>1. Mf!Readable(h)
  BY DEF Mf!NewLayout
<1>2. n \in Nat /\ n > 0 /\ Mf!LayersRun(h, m) \in Nat /\ Mf!LayersRun(h, m) <= n
  BY <1>1, RunLayers
<1>3. Mf!Basis(h, m) = "uniform"
  BY <1>1, LayoutIs
<1>4. /\ ~Mf!IsStated(h, m)
      /\ ~(h.window > 0 /\ ~Mf!ListsSliding(h, m) /\ ~m.hasPeriod /\ Mf!KnownPattern(h))
  BY <1>3 DEF Mf!Basis
<1>5. /\ ~(Mf!LayersRun(h, m) < n) /\ ~Mf!PerLayerHeads(h, m) /\ ~Mf!ListsRecurrent(h, m) /\ ~Mf!ByInterval(h, m)
      /\ ~(Mf!OwnCacheUntil(h, m) < Mf!LayersRun(h, m))
      /\ ~(h.window > 0 /\ (Mf!ListsSliding(h, m) \/ m.hasPeriod))
  BY <1>4 DEF Mf!IsStated
<1>6. Mf!LayersRun(h, m) = n
  BY <1>2, <1>5
<1>7. Mf!OwnCacheUntil(h, m) = n
  BY <1>2, <1>5, <1>6 DEF Mf!OwnCacheUntil, Mf!HeaderOK
<1>8. Mf!Recurrent(h, m) = {}
  BY <1>5 DEF Mf!Recurrent, Mf!IsRecurrent
<1>9. \A i : Mf!Heads(h, m, i) = h.kvHeads
  BY <1>5 DEF Mf!Heads
<1>10. Mf!KeepsNothing(h, m) = {}
  <2>1. \A i \in 1..n : ~(i > n) /\ Mf!Heads(h, m, i) # 0
    BY <1>2, <1>9 DEF Mf!HeaderOK
  <2> QED
    BY <1>6, <1>7, <2>1 DEF Mf!KeepsNothing
<1>11. Mf!Caching(h, m) = 1..n
  BY <1>6, <1>8, <1>10 DEF Mf!Caching
<1>12. \A i : ~Mf!IsSliding(h, m, i)
  <2> SUFFICES ASSUME h.window > 0 PROVE \A i : ~Mf!IsSliding(h, m, i)
    BY DEF Mf!IsSliding
  <2>1. ~Mf!ListsSliding(h, m) /\ ~m.hasPeriod /\ ~Mf!KnownPattern(h)
    BY <1>4, <1>5
  <2>2. Mf!Pattern(h, m).period = 0
    BY <2>1 DEF Mf!Pattern
  <2> QED
    BY <2>1, <2>2 DEF Mf!IsSliding, Mf!Slides
<1>13. \A i : Mf!Shape(h, m, i) = full
  BY <1>9, <1>12 DEF Mf!Shape, Mf!Full
<1> HIDE DEF full, n
<1>14. sh = [i \in 1..n |-> full]
  BY <1>11, <1>13 DEF Shapes
<1> HIDE DEF sh
<1>15. {sh[i] : i \in 1..n} = {full}
  <2>1. 1 \in 1..n
    BY <1>2
  <2> QED
    BY <1>14, <2>1
<1>16. {i \in 1..n : sh[i] = full} = 1..n
  BY <1>14
<1>17. Cardinality(1..n) = n
  BY <1>2, FS_Interval
<1>18. GroupOf(1..n, sh, full) = [shape |-> full, layers |-> n]
  BY <1>16, <1>17 DEF GroupOf
<1>19. GroupsOf(1..n, sh) = {[shape |-> full, layers |-> n]}
  BY <1>15, <1>18 DEF GroupsOf
<1> QED
  BY <1>1, <1>11, <1>19, LayoutIs DEF full, n, sh

(* A remainder is what is left of whole periods.                           *)
LEMMA Remainders ==
    ASSUME NEW p \in Nat, p > 0, NEW q \in Nat, NEW r \in Nat, r < p
    PROVE  (q * p + r) % p = r
<1> DEFINE a == q * p + r
           d == a \div p
           e == a % p
<1>1. q * p \in Nat /\ a \in Nat
  OBVIOUS
<1>2. d \in Nat /\ e \in Nat /\ e < p /\ a = p * d + e
  BY <1>1
<1> HIDE DEF d, e
<1>3. p * d \in Nat /\ p * d = d * p
  BY <1>2
<1>4. ~(d < q)
  <2> SUFFICES ASSUME d < q PROVE FALSE
    OBVIOUS
  <2>1. (d + 1) * p <= q * p
    BY <1>2, Products
  <2>2. (d + 1) * p = d * p + p
    BY <1>2
  <2> QED
    BY <1>1, <1>2, <1>3, <2>1, <2>2
<1>5. ~(q < d)
  <2> SUFFICES ASSUME q < d PROVE FALSE
    OBVIOUS
  <2>1. (q + 1) * p <= d * p
    BY <1>2, Products
  <2>2. (q + 1) * p = q * p + p
    OBVIOUS
  <2> QED
    BY <1>1, <1>2, <1>3, <2>1, <2>2
<1>6. d = q
  BY <1>2, <1>4, <1>5
<1>7. e = r
  BY <1>1, <1>2, <1>3, <1>6
<1> QED
  BY <1>7 DEF e

(* One layer in a period attends to everything: its first or its last.     *)
LEMMA OnePerPeriod ==
    ASSUME NEW h, NEW m, Mf!HeaderOK(h, m)
    PROVE  Mf!OneOfAPeriod(h, m)
<1> DEFINE p == Mf!Pattern(h, m)
           n == p.period
<1> SUFFICES ASSUME n > 1, NEW k \in 1..(h.blocks \div n)
             PROVE  Mf!Cardinality({i \in ((k - 1) * n + 1)..(k * n) : ~Mf!Slides(p, i)}) = 1
  BY DEF Mf!OneOfAPeriod
<1>1. n \in Nat
  BY DEF Mf!HeaderOK
<1> DEFINE S == {i \in ((k - 1) * n + 1)..(k * n) : ~Mf!Slides(p, i)}
           first == (k - 1) * n
           it == IF p.denseFirst THEN first + 1 ELSE first + n
<1>2. k \in Nat /\ k - 1 \in Nat
  OBVIOUS
<1>3. first \in Nat /\ k * n = first + n
  BY <1>1, <1>2
<1>4. \A i \in (first + 1)..(first + n) :
         LET r == i - 1 - first IN r \in Nat /\ r < n /\ (i - 1) % n = r
  <2> SUFFICES ASSUME NEW i \in (first + 1)..(first + n)
               PROVE  LET r == i - 1 - first IN r \in Nat /\ r < n /\ (i - 1) % n = r
    OBVIOUS
  <2> DEFINE r == i - 1 - first
  <2>1. r \in Nat /\ r < n /\ i - 1 = first + r
    BY <1>1, <1>3
  <2> HIDE DEF r, n
  <2>2. (first + r) % n = r
    BY <1>1, <1>2, <2>1, Remainders
  <2> QED
    BY <2>1, <2>2 DEF r
<1>5. S = {it}
  <2> HIDE DEF n, first, p
  <2>1. \A i \in (first + 1)..(first + n) :
           Mf!Slides(p, i) <=> IF p.denseFirst THEN i - 1 - first # 0 ELSE i - 1 - first < n - 1
    BY <1>4 DEF Mf!Slides, n
  <2>2. \A i \in (first + 1)..(first + n) : ~Mf!Slides(p, i) <=> i = it
    BY <1>1, <1>3, <2>1
  <2>3. it \in (first + 1)..(first + n)
    BY <1>1, <1>3
  <2>4. S = {i \in (first + 1)..(first + n) : ~Mf!Slides(p, i)}
    BY <1>3 DEF first
  <2> QED
    BY <2>2, <2>3, <2>4
<1>6. Cardinality(S) = 1
  <2> HIDE DEF S, it
  <2> QED
    BY <1>5, FS_Singleton
<1> QED
  BY <1>6, MfCount

(* What a group of a layout keeps of a conversation.                       *)
WindowCells(w, batch, pad) == ((w + batch + pad - 1) \div pad) * pad
GroupCells(s, ctx, batch, pad) ==
    IF s.kind = "sliding" /\ WindowCells(s.window, batch, pad) < ctx THEN WindowCells(s.window, batch, pad) ELSE ctx
Weight(g) == g.layers * g.shape.heads * (g.shape.key + g.shape.value)
ShapesOK(G) == \A g \in G : Weight(g) \in Nat /\ g.shape.window \in Nat

(* What MapThenSumSet adds up of what the groups keep.                     *)
Fill(G, ctx, batch, pad) == [g \in G |-> Weight(g) * GroupCells(g.shape, ctx, batch, pad)]
LEMMA CacheSum ==
    ASSUME NEW layout, IsFiniteSet(layout.groups), NEW ctx, NEW batch, NEW pad,
           \A g \in layout.groups : Fill(layout.groups, ctx, batch, pad)[g] \in Nat
    PROVE  \E h : /\ Mf!CacheElements(layout, ctx, batch, pad) = h[layout.groups]
                  /\ SumsOn(h, Fill(layout.groups, ctx, batch, pad), SUBSET layout.groups)
<1> DEFINE G == layout.groups
           f == Fill(G, ctx, batch, pad)
           Is(h) == h = [s \in SUBSET G |-> IF s = {} THEN 0 ELSE
                          Weight(Picked(s)) * GroupCells(Picked(s).shape, ctx, batch, pad) + h[s \ {Picked(s)}]]
           it == CHOOSE h : Is(h)
<1>1. Mf!CacheElements(layout, ctx, batch, pad) = it[G]
  BY DEF Mf!CacheElements, Mf!MapThenSumSet, Mf!MapThenFoldSet, Picked, Weight, GroupCells, WindowCells
<1>2. PICK h : SumsOn(h, f, SUBSET G)
  <2> HIDE DEF G, f
  <2> QED
    BY SumExists DEF G, f
<1>3. \A s \in SUBSET G : s # {} => f[Picked(s)] = Weight(Picked(s)) * GroupCells(Picked(s).shape, ctx, batch, pad)
  BY DEF Picked, Fill
<1>4. \A k : SumsOn(k, f, SUBSET G) <=> Is(k)
  <2> SUFFICES ASSUME NEW k PROVE SumsOn(k, f, SUBSET G) <=> Is(k)
    OBVIOUS
  <2>1. [s \in SUBSET G |-> IF s = {} THEN 0 ELSE f[Picked(s)] + k[s \ {Picked(s)}]]
          = [s \in SUBSET G |-> IF s = {} THEN 0 ELSE
                Weight(Picked(s)) * GroupCells(Picked(s).shape, ctx, batch, pad) + k[s \ {Picked(s)}]]
    BY <1>3
  <2> QED
    BY <2>1 DEF SumsOn
<1>5. Is(it)
  <2>1. \E k : Is(k)
    BY <1>2, <1>4
  <2> HIDE DEF Is
  <2> QED
    BY <2>1
<1>6. SumsOn(it, f, SUBSET G)
  BY <1>4, <1>5
<1> QED
  BY <1>1, <1>6

(* And of what they would keep if every layer kept the whole conversation. *)
WholeCache(h, G, long) ==
    h = [s \in SUBSET G |-> IF s = {} THEN 0 ELSE Weight(Picked(s)) * long + h[s \ {Picked(s)}]]
LEMMA WholeSum ==
    ASSUME NEW G, IsFiniteSet(G), NEW long, NEW f, f = [g \in G |-> Weight(g) * long], \A g \in G : f[g] \in Nat
    PROVE  SumsOn(CHOOSE h : WholeCache(h, G, long), f, SUBSET G)
<1> DEFINE it == CHOOSE h : WholeCache(h, G, long)
<1>1. PICK h : SumsOn(h, f, SUBSET G)
  BY SumExists
<1>2. \A s \in SUBSET G : s # {} => f[Picked(s)] = Weight(Picked(s)) * long
  BY DEF Picked
<1>3. \A k : SumsOn(k, f, SUBSET G) <=> WholeCache(k, G, long)
  <2> SUFFICES ASSUME NEW k PROVE SumsOn(k, f, SUBSET G) <=> WholeCache(k, G, long)
    OBVIOUS
  <2>1. [s \in SUBSET G |-> IF s = {} THEN 0 ELSE f[Picked(s)] + k[s \ {Picked(s)}]]
          = [s \in SUBSET G |-> IF s = {} THEN 0 ELSE Weight(Picked(s)) * long + k[s \ {Picked(s)}]]
    BY <1>2
  <2> QED
    BY <2>1 DEF SumsOn, WholeCache
<1>4. WholeCache(it, G, long)
  BY <1>1, <1>3
<1> QED
  BY <1>3, <1>4

(* A longer conversation fills no fewer cells of a group.                  *)
LEMMA CellsGrow ==
    ASSUME NEW s, s.window \in Nat, NEW batch \in Nat, NEW pad \in Nat, pad > 0,
           NEW short \in Nat, NEW long \in Nat, short <= long
    PROVE  /\ GroupCells(s, short, batch, pad) \in Nat /\ GroupCells(s, long, batch, pad) \in Nat
           /\ GroupCells(s, short, batch, pad) <= GroupCells(s, long, batch, pad)
           /\ GroupCells(s, long, batch, pad) <= long
<1> DEFINE w == WindowCells(s.window, batch, pad)
<1>1. w \in Nat
  <2> DEFINE q == (s.window + batch + pad - 1) \div pad
  <2>1. q \in Nat
    <3>1. s.window + batch + pad - 1 \in Nat
      OBVIOUS
    <3> QED
      BY <3>1, Division
  <2> HIDE DEF q
  <2>2. q * pad \in Nat
    BY <2>1
  <2> QED
    BY <2>2 DEF WindowCells, q
<1> HIDE DEF w
<1> QED
  BY <1>1 DEF GroupCells, w

(* The groups of a layout are counted in natural numbers.                  *)
LEMMA KeyIsNatural ==
    ASSUME NEW h, NEW m, Mf!HeaderOK(h, m)
    PROVE  Mf!KeyLength(h) \in Nat /\ Mf!ValueLength(h, m) \in Nat
<1>1. h.key \in Nat /\ h.heads \in Nat /\ h.value \in Nat /\ h.embedding \in Nat
  BY DEF Mf!HeaderOK
<1>2. Mf!KeyLength(h) \in Nat
  BY <1>1 DEF Mf!KeyLength
<1> QED
  BY <1>1, <1>2 DEF Mf!ValueLength

LEMMA ShapesAreNatural ==
    ASSUME NEW h, NEW m, Mf!HeaderOK(h, m), Mf!Readable(h), NEW i \in 1..Mf!LayersRun(h, m)
    PROVE  LET s == Mf!Shape(h, m, i)
           IN  s.heads \in Nat /\ s.key \in Nat /\ s.value \in Nat /\ s.window \in Nat
<1>1. Mf!Heads(h, m, i) \in Nat
  <2>1. CASE Mf!PerLayerHeads(h, m)
    <3>1. m.kvHeads \in Seq(Nat) /\ Mf!LayersRun(h, m) \in Nat
      <4>1. Mf!LayersRun(h, m) \in Nat
        BY RunLayers
      <4> QED
        BY <4>1 DEF Mf!HeaderOK
    <3>2. Len(m.kvHeads) >= Mf!LayersRun(h, m) /\ Len(m.kvHeads) \in Nat
      BY <2>1, <3>1 DEF Mf!PerLayerHeads
    <3>3. i \in 1..Len(m.kvHeads)
      BY <3>1, <3>2
    <3>4. m.kvHeads[i] \in Nat
      BY <3>1, <3>3
    <3> QED
      BY <2>1, <3>4 DEF Mf!Heads
  <2>2. CASE ~Mf!PerLayerHeads(h, m)
    BY <2>2 DEF Mf!Heads, Mf!HeaderOK
  <2> QED
    BY <2>1, <2>2
<1>2. Mf!KeyLength(h) \in Nat /\ Mf!ValueLength(h, m) \in Nat
  BY KeyIsNatural
<1>3. h.window \in Nat /\ m.keySliding \in Nat /\ m.valueSliding \in Nat
  BY DEF Mf!HeaderOK
<1>4. CASE Mf!IsSliding(h, m, i)
  BY <1>1, <1>2, <1>3, <1>4 DEF Mf!Shape, Mf!Sliding
<1>5. CASE ~Mf!IsSliding(h, m, i)
  BY <1>1, <1>2, <1>5 DEF Mf!Shape, Mf!Full
<1> QED
  BY <1>4, <1>5

LEMMA GroupsAreNatural ==
    ASSUME NEW h, NEW m, Mf!HeaderOK(h, m)
    PROVE  IsFiniteSet(Mf!NewLayout(h, m).groups) /\ ShapesOK(Mf!NewLayout(h, m).groups)
<1>1. CASE ~Mf!Readable(h)
  <2>1. Mf!NewLayout(h, m).groups = {}
    BY <1>1 DEF Mf!NewLayout
  <2> QED
    BY <2>1, FS_EmptySet DEF ShapesOK
<1>2. CASE Mf!Readable(h)
  <2> DEFINE C == Mf!Caching(h, m)
             sh == Shapes(h, m)
             G == GroupsOf(C, sh)
  <2>1. Mf!NewLayout(h, m).groups = G
    BY <1>2, LayoutIs
  <2>2. IsFiniteSet(C)
    BY <1>2, LayersArePartitioned
  <2>3. IsFiniteSet(G)
    BY <2>2, GroupsAre
  <2>4. \A g \in G : g.layers \in Nat
    BY <2>2, GroupsAre
  <2>5. ASSUME NEW g \in G PROVE Weight(g) \in Nat /\ g.shape.window \in Nat
    <3>1. PICK i \in C : g = GroupOf(C, sh, sh[i])
      BY DEF GroupsOf
    <3>2. g.shape = Mf!Shape(h, m, i)
      BY <3>1 DEF GroupOf, Shapes
    <3>3. i \in 1..Mf!LayersRun(h, m)
      BY DEF Mf!Caching
    <3>4. g.shape.heads \in Nat /\ g.shape.key \in Nat /\ g.shape.value \in Nat /\ g.shape.window \in Nat
      BY <1>2, <3>2, <3>3, ShapesAreNatural
    <3>5. g.layers \in Nat
      BY <2>4
    <3>6. g.layers * g.shape.heads \in Nat /\ g.shape.key + g.shape.value \in Nat
      BY <3>4, <3>5
    <3>7. (g.layers * g.shape.heads) * (g.shape.key + g.shape.value) \in Nat
      BY <3>6
    <3> QED
      BY <3>4, <3>7 DEF Weight
  <2> HIDE DEF G
  <2> QED
    BY <2>1, <2>3, <2>5 DEF ShapesOK
<1> QED
  BY <1>1, <1>2

LEMMA LongerKeepsNoLess ==
    ASSUME NEW h, NEW m, Mf!HeaderOK(h, m), NEW batch \in Nat, NEW pad \in Nat, pad > 0,
           NEW short \in Nat, NEW long \in Nat, short <= long
    PROVE  Mf!CacheGrows(h, m, short, long, batch, pad)
<1> DEFINE layout == Mf!NewLayout(h, m)
           G == layout.groups
           whole == CHOOSE k : WholeCache(k, G, long)
           some == Fill(G, short, batch, pad)
           more == Fill(G, long, batch, pad)
           full == [g \in G |-> Weight(g) * long]
<1>1. Mf!CacheGrows(h, m, short, long, batch, pad)
        <=> /\ Mf!CacheElements(layout, short, batch, pad) <= Mf!CacheElements(layout, long, batch, pad)
            /\ Mf!CacheElements(layout, long, batch, pad) <= whole[G]
  BY DEF Mf!CacheGrows, Mf!MapThenSumSet, Mf!MapThenFoldSet, Picked, Weight, WholeCache
<1>2. IsFiniteSet(G) /\ \A g \in G : Weight(g) \in Nat /\ g.shape.window \in Nat
  BY GroupsAreNatural DEF ShapesOK
<1> HIDE DEF G
<1>3. ASSUME NEW g \in G
      PROVE  /\ some[g] \in Nat /\ more[g] \in Nat /\ full[g] \in Nat
             /\ some[g] <= more[g] /\ more[g] <= full[g]
  <2> DEFINE a == GroupCells(g.shape, short, batch, pad)
             b == GroupCells(g.shape, long, batch, pad)
             w == Weight(g)
  <2>1. w \in Nat /\ a \in Nat /\ b \in Nat /\ a <= b /\ b <= long
    BY <1>2, CellsGrow
  <2>2. some[g] = w * a /\ more[g] = w * b /\ full[g] = w * long
    BY DEF Fill
  <2> HIDE DEF a, b, w, full, some, more
  <2>3. a * w \in Nat /\ b * w \in Nat /\ long * w \in Nat /\ a * w <= b * w /\ b * w <= long * w
    BY <2>1, Products
  <2>4. w * a = a * w /\ w * b = b * w /\ w * long = long * w
    BY <2>1
  <2> QED
    BY <2>2, <2>3, <2>4
<1>4. PICK f : Mf!CacheElements(layout, short, batch, pad) = f[G] /\ SumsOn(f, some, SUBSET G)
  <2>1. IsFiniteSet(layout.groups) /\ \A g \in layout.groups : some[g] \in Nat
    BY <1>2, <1>3 DEF G
  <2> HIDE DEF layout
  <2> QED
    BY <2>1, CacheSum DEF G
<1>5. PICK k : Mf!CacheElements(layout, long, batch, pad) = k[G] /\ SumsOn(k, more, SUBSET G)
  <2>1. IsFiniteSet(layout.groups) /\ \A g \in layout.groups : more[g] \in Nat
    BY <1>2, <1>3 DEF G
  <2> HIDE DEF layout
  <2> QED
    BY <2>1, CacheSum DEF G
<1>6. SumsOn(whole, full, SUBSET G)
  <2>1. \A g \in G : full[g] \in Nat
    BY <1>3
  <2> QED
    BY <1>2, <2>1, WholeSum
<1> HIDE DEF some, more, full, whole
<1>7. f[G] <= k[G]
  BY <1>2, <1>3, <1>4, <1>5, SumsGrow
<1>8. k[G] <= whole[G]
  BY <1>2, <1>3, <1>5, <1>6, SumsGrow
<1> QED
  BY <1>1, <1>4, <1>5, <1>7, <1>8

(* Whatever a header states: every layer of the file is counted once, the  *)
(* plain formula is one group of all layers, a period leaves one layer of  *)
(* it that attends to everything, and a longer conversation keeps no less, *)
(* nor more than every layer keeping all of it (NewLayout of               *)
(* internal/catalog/layout.go, kvBytes of internal/estimate/fit.go).       *)
THEOREM LayersAreCountedOnce ==
    \A h, m : Mf!HeaderOK(h, m) =>
      /\ Mf!EveryLayerOnce(h, m) /\ Mf!PlainIsOneGroup(h, m) /\ Mf!OneOfAPeriod(h, m)
      /\ \A short, long, batch \in Nat, pad \in Nat \ {0} :
            short <= long => Mf!CacheGrows(h, m, short, long, batch, pad)
BY EveryLayerIsOnce, OnePlainGroup, OnePerPeriod, LongerKeepsNoLess
-----------------------------------------------------------------------------
(* The header of a file, which its layout is of, and how much of the file  *)
(* is fetched for it.                                                      *)
CONSTANTS Tokenizer, Architecture, Required, Projectors
Gg == INSTANCE GGUF

(* A fold over a sequence goes through its beginnings.                     *)
FoldsBy(it, base, step, n) ==
    it = [s \in SUBSET (1..n) |-> IF s = {} THEN base ELSE step[<<Gg!Max(s), it[s \ {Gg!Max(s)}]>>]]
LEMMA LastOfFirst ==
    ASSUME NEW n \in Nat, NEW i \in 1..n
    PROVE  /\ Gg!Max(1..i) = i /\ (1..i) \ {i} = 1..(i - 1)
           /\ 1..i # {} /\ 1..i \in SUBSET (1..n) /\ 1..(i - 1) \in SUBSET (1..n)
BY MaxOfFirst DEF Gg!Max, Max

LEMMA LastIsIn ==
    ASSUME NEW n \in Nat, NEW s \in SUBSET (1..n), s # {}
    PROVE  Gg!Max(s) \in s
<1>1. s \subseteq Nat
  OBVIOUS
<1>2. IsFiniteSet(s)
  <2>1. IsFiniteSet(1..n) /\ s \subseteq 1..n
    BY FS_Interval
  <2> HIDE DEF Max
  <2> QED
    BY <2>1, FS_Subset
<1>3. Max(s) \in s
  BY <1>1, <1>2, MostIsOne
<1> QED
  BY <1>3 DEF Gg!Max, Max

LEMMA FoldExists ==
    ASSUME NEW n \in Nat, NEW V, NEW base \in V, NEW step \in [(1..n) \X V -> V]
    PROVE  \E it \in [SUBSET (1..n) -> V] : FoldsBy(it, base, step, n)
<1> DEFINE S == 1..n
           pick == [s \in SUBSET S |-> Gg!Max(s)]
           to == [sv \in (SUBSET S) \X V |-> IF sv[1] = {} THEN base ELSE step[<<Gg!Max(sv[1]), sv[2]>>]]
<1>1. IsFiniteSet(S)
  BY FS_Interval
<1>2. \A s \in SUBSET S : s # {} => Gg!Max(s) \in s
  BY LastIsIn
<1> HIDE DEF S
<1>3. \A s \in SUBSET S : s # {} => pick[s] \in s
  BY <1>2
<1>4. to \in [(SUBSET S) \X V -> V]
  <2>1. ASSUME NEW s \in SUBSET S, NEW v \in V
        PROVE  (IF s = {} THEN base ELSE step[<<Gg!Max(s), v>>]) \in V
    <3>1. s # {} => <<Gg!Max(s), v>> \in (1..n) \X V
      BY <1>2 DEF S
    <3> QED
      BY <3>1
  <2>2. \A sv \in (SUBSET S) \X V : (IF sv[1] = {} THEN base ELSE step[<<Gg!Max(sv[1]), sv[2]>>]) \in V
    BY <2>1
  <2> QED
    BY <2>2
<1> HIDE DEF to
<1>5. PICK it \in [SUBSET S -> V] : Recurs(it, base, pick, to, SUBSET S)
  <2> HIDE DEF pick
  <2> QED
    BY <1>1, <1>3, <1>4, RecursionExists
<1>6. ASSUME NEW s \in SUBSET S
      PROVE  it[s] = IF s = {} THEN base ELSE step[<<Gg!Max(s), it[s \ {Gg!Max(s)}]>>]
  <2>1. it[s] = IF s = {} THEN base ELSE to[<<s, it[s \ {Gg!Max(s)}]>>]
    BY <1>5 DEF Recurs
  <2>2. it[s \ {Gg!Max(s)}] \in V
    BY <1>5
  <2> QED
    BY <2>1, <2>2 DEF to
<1>7. it = [s \in SUBSET S |-> IF s = {} THEN base ELSE step[<<Gg!Max(s), it[s \ {Gg!Max(s)}]>>]]
  BY <1>5, <1>6
<1> QED
  BY <1>5, <1>7 DEF FoldsBy, S

(* The states of the loop over a header's pairs.                           *)
Names(h) == {h.pairs[i].name : i \in DOMAIN h.pairs}
States(h) ==
    [at : Nat, kept : SUBSET Names(h), skipped : SUBSET Names(h),
     end : {"none", "truncated", "malformed", "stopped"}]
Pairs(h) == Len(h.pairs)

LEMMA PairsAre ==
    ASSUME NEW h, Gg!HeaderOK(h)
    PROVE  /\ Pairs(h) \in Nat /\ DOMAIN h.pairs = 1..Pairs(h) /\ h.start \in Nat
           /\ \A i \in 1..Pairs(h) :
                /\ h.pairs[i].nameBytes \in Nat /\ h.pairs[i].lengthBytes \in Nat /\ h.pairs[i].bodyBytes \in Nat
                /\ h.pairs[i].name \in Names(h)
BY DEF Gg!HeaderOK, Pairs, Names

LEMMA ReadIsState ==
    ASSUME NEW h, Gg!HeaderOK(h), NEW s \in States(h), NEW i \in 1..Pairs(h), NEW avail, NEW stop
    PROVE  Gg!ReadPair(h, s, h.pairs[i], avail, stop) \in States(h)
<1>1. s.at + h.pairs[i].nameBytes + h.pairs[i].bodyBytes \in Nat /\ h.pairs[i].name \in Names(h)
  BY PairsAre DEF States
<1> QED
  BY <1>1 DEF Gg!ReadPair, Gg!Ended, States

(* What parse goes through, of a file of avail bytes.                      *)
ReadsBy(it, h, avail, stop) ==
    it = [s \in SUBSET DOMAIN h.pairs |->
            IF s = {} THEN Gg!Begun(h)
            ELSE Gg!ReadPair(h, it[s \ {Gg!Max(s)}], h.pairs[Gg!Max(s)], avail, stop)]
Loop(h, avail, stop) == CHOOSE it : ReadsBy(it, h, avail, stop)
At(h, avail, stop, i) == Loop(h, avail, stop)[1..i]

LEMMA LoopGoes ==
    ASSUME NEW h, Gg!HeaderOK(h), NEW avail, NEW stop
    PROVE  /\ At(h, avail, stop, 0) = Gg!Begun(h)
           /\ \A i \in 0..Pairs(h) : At(h, avail, stop, i) \in States(h)
           /\ \A i \in 1..Pairs(h) :
                At(h, avail, stop, i) = Gg!ReadPair(h, At(h, avail, stop, i - 1), h.pairs[i], avail, stop)
<1> DEFINE n == Pairs(h)
           V == States(h)
           step == [iv \in (1..n) \X V |-> Gg!ReadPair(h, iv[2], h.pairs[iv[1]], avail, stop)]
           loop == Loop(h, avail, stop)
<1>1. n \in Nat /\ DOMAIN h.pairs = 1..n
  BY PairsAre
<1>2. Gg!Begun(h) \in V
  BY PairsAre DEF Gg!Begun, States
<1>3. step \in [(1..n) \X V -> V]
  BY ReadIsState
<1>13. \A s \in V, i \in 1..n : Gg!ReadPair(h, s, h.pairs[i], avail, stop) \in V
  BY ReadIsState
<1> HIDE DEF n, V
<1>4. PICK it \in [SUBSET (1..n) -> V] : FoldsBy(it, Gg!Begun(h), step, n)
  <2> HIDE DEF step
  <2> QED
    BY <1>1, <1>2, <1>3, FoldExists
<1>5. ASSUME NEW s \in SUBSET (1..n), s # {}
      PROVE  step[<<Gg!Max(s), it[s \ {Gg!Max(s)}]>>] = Gg!ReadPair(h, it[s \ {Gg!Max(s)}], h.pairs[Gg!Max(s)], avail, stop)
  <2>1. Gg!Max(s) \in s
    BY <1>1, <1>5, LastIsIn
  <2>2. it[s \ {Gg!Max(s)}] \in V
    BY <1>4
  <2> QED
    BY <2>1, <2>2
<1> HIDE DEF step
<1>6. it = [s \in SUBSET (1..n) |-> IF s = {} THEN Gg!Begun(h)
              ELSE Gg!ReadPair(h, it[s \ {Gg!Max(s)}], h.pairs[Gg!Max(s)], avail, stop)]
  BY <1>4, <1>5 DEF FoldsBy
<1>7. ReadsBy(it, h, avail, stop)
  BY <1>1, <1>6 DEF ReadsBy
<1>8. ReadsBy(loop, h, avail, stop)
  BY <1>7 DEF Loop
<1> HIDE DEF loop
<1>9. \A s \in SUBSET (1..n) : loop[s] = IF s = {} THEN Gg!Begun(h)
              ELSE Gg!ReadPair(h, loop[s \ {Gg!Max(s)}], h.pairs[Gg!Max(s)], avail, stop)
  BY <1>1, <1>8 DEF ReadsBy
<1>10. loop[1..0] = Gg!Begun(h)
  <2>1. 1..0 = {}
    OBVIOUS
  <2> QED
    BY <1>9, <2>1
<1>11. ASSUME NEW i \in 1..n
       PROVE  loop[1..i] = Gg!ReadPair(h, loop[1..(i - 1)], h.pairs[i], avail, stop)
  <2>1. /\ Gg!Max(1..i) = i /\ (1..i) \ {i} = 1..(i - 1) /\ 1..i # {} /\ 1..i \in SUBSET (1..n)
    BY <1>1, LastOfFirst
  <2> QED
    BY <1>9, <2>1
<1> DEFINE Wrong == {i \in 0..n : ~(loop[1..i] \in V)}
<1>12. Wrong = {}
  <2> SUFFICES ASSUME Wrong # {} PROVE FALSE
    OBVIOUS
  <2>1. PICK i \in Wrong : \A k \in Wrong : i <= k
    <3>1. Wrong \subseteq Nat
      BY <1>1
    <3> HIDE DEF Wrong
    <3> QED
      BY <3>1, LeastNatural
  <2>2. i # 0
    BY <1>2, <1>10, <2>1
  <2>3. i \in 1..n /\ i - 1 \in 0..n /\ i - 1 \notin Wrong
    BY <1>1, <2>1, <2>2
  <2>4. loop[1..(i - 1)] \in V
    BY <2>3
  <2>5. loop[1..i] \in V
    BY <1>13, <1>11, <2>3, <2>4
  <2> QED
    BY <2>1, <2>5
<1> QED
  BY <1>10, <1>11, <1>12 DEF At, loop, n, V

LEMMA ParseIs ==
    ASSUME NEW h, Gg!HeaderOK(h), NEW avail, NEW stop
    PROVE  Gg!Parse(h, avail, stop) =
             LET s == At(h, avail, stop, Pairs(h))
             IN  IF avail < h.start THEN Gg!Ended(Gg!Begun(h), "truncated")
                 ELSE IF h.bad THEN Gg!Ended(Gg!Begun(h), "malformed")
                 ELSE IF s.end # "none" THEN s
                 ELSE IF Architecture \in s.kept THEN Gg!Ended(s, "complete") ELSE Gg!Ended(s, "malformed")
<1>1. At(h, avail, stop, Pairs(h)) = Loop(h, avail, stop)[DOMAIN h.pairs]
  BY PairsAre DEF At
<1> QED
  BY <1>1 DEF Gg!Parse, Gg!FoldLeft, Gg!MapThenFoldSet, Loop, ReadsBy

(* As far as a cut file is read, it is read as the whole file is.          *)
LEMMA CutReadsAlike ==
    ASSUME NEW h, Gg!HeaderOK(h), NEW size \in Nat, NEW n \in 0..size, NEW stop,
           NEW s \in States(h), NEW i \in 1..Pairs(h)
    PROVE  LET cut == Gg!ReadPair(h, s, h.pairs[i], n, stop)
           IN  cut.end = "truncated" \/ cut = Gg!ReadPair(h, s, h.pairs[i], size, stop)
<1> DEFINE named == s.at + h.pairs[i].nameBytes
<1>3. n \in Nat /\ n <= size
  OBVIOUS
<1>4. s.at \in Nat
  BY DEF States
<1>5. h.pairs[i].nameBytes \in Nat /\ h.pairs[i].lengthBytes \in Nat /\ h.pairs[i].bodyBytes \in Nat
  BY PairsAre
<1>1. /\ named \in Nat /\ named + h.pairs[i].lengthBytes \in Nat /\ named + h.pairs[i].bodyBytes \in Nat
      /\ n \in Nat /\ n <= size
  BY <1>3, <1>4, <1>5
<1>2. Gg!Ended(s, "truncated").end = "truncated"
  BY DEF States, Gg!Ended
<1> HIDE DEF named
<1> QED
  BY <1>1, <1>2 DEF Gg!ReadPair, named

LEMMA CutGoesAlike ==
    ASSUME NEW h, Gg!HeaderOK(h), NEW size \in Nat, NEW n \in 0..size, NEW stop
    PROVE  \A i \in 0..Pairs(h) :
              At(h, n, stop, i).end = "truncated" \/ At(h, n, stop, i) = At(h, size, stop, i)
<1> DEFINE Wrong == {i \in 0..Pairs(h) : ~(At(h, n, stop, i).end = "truncated" \/ At(h, n, stop, i) = At(h, size, stop, i))}
<1> SUFFICES ASSUME Wrong # {} PROVE FALSE
  OBVIOUS
<1>1. Pairs(h) \in Nat
  BY PairsAre
<1>2. PICK i \in Wrong : \A k \in Wrong : i <= k
  <2>1. Wrong \subseteq Nat
    BY <1>1
  <2> HIDE DEF Wrong
  <2> QED
    BY <2>1, LeastNatural
<1>3. i # 0
  BY <1>2, LoopGoes
<1>4. i \in 1..Pairs(h) /\ i - 1 \in 0..Pairs(h) /\ i - 1 \notin Wrong
  BY <1>1, <1>2, <1>3
<1> DEFINE cut == At(h, n, stop, i - 1)
<1>5. cut \in States(h)
  BY <1>4, LoopGoes
<1>6. cut.end = "truncated" \/ cut = At(h, size, stop, i - 1)
  BY <1>4
<1>10. \A avail : At(h, avail, stop, i) = Gg!ReadPair(h, At(h, avail, stop, i - 1), h.pairs[i], avail, stop)
  <2> HIDE DEF cut, Wrong
  <2> QED
    BY <1>4, LoopGoes
<1>7. At(h, n, stop, i) = Gg!ReadPair(h, cut, h.pairs[i], n, stop)
  BY <1>10
<1>9. At(h, size, stop, i) = Gg!ReadPair(h, At(h, size, stop, i - 1), h.pairs[i], size, stop)
  BY <1>10
<1>8. At(h, n, stop, i).end = "truncated" \/ At(h, n, stop, i) = At(h, size, stop, i)
  <2> HIDE DEF cut, Wrong
  <2>1. CASE cut.end = "truncated"
    BY <1>7, <2>1 DEF Gg!ReadPair
  <2>2. CASE cut = At(h, size, stop, i - 1)
    BY <1>4, <1>5, <1>7, <1>9, <2>2, CutReadsAlike
  <2> QED
    BY <1>6, <2>1, <2>2
<1> QED
  BY <1>2, <1>8

LEMMA CutNeverMisleads ==
    ASSUME NEW h, Gg!HeaderOK(h), NEW size \in Nat, NEW n \in 0..size, NEW stop
    PROVE  Gg!Parse(h, n, stop).end = "truncated" \/ Gg!Parse(h, n, stop) = Gg!Parse(h, size, stop)
<1> DEFINE cut == At(h, n, stop, Pairs(h))
           whole == At(h, size, stop, Pairs(h))
<1>1. Pairs(h) \in 0..Pairs(h) /\ h.start \in Nat
  BY PairsAre
<1>2. cut.end = "truncated" \/ cut = whole
  BY <1>1, CutGoesAlike
<1>3. /\ Gg!Parse(h, n, stop) =
             IF n < h.start THEN Gg!Ended(Gg!Begun(h), "truncated")
             ELSE IF h.bad THEN Gg!Ended(Gg!Begun(h), "malformed")
             ELSE IF cut.end # "none" THEN cut
             ELSE IF Architecture \in cut.kept THEN Gg!Ended(cut, "complete") ELSE Gg!Ended(cut, "malformed")
      /\ Gg!Parse(h, size, stop) =
             IF size < h.start THEN Gg!Ended(Gg!Begun(h), "truncated")
             ELSE IF h.bad THEN Gg!Ended(Gg!Begun(h), "malformed")
             ELSE IF whole.end # "none" THEN whole
             ELSE IF Architecture \in whole.kept THEN Gg!Ended(whole, "complete") ELSE Gg!Ended(whole, "malformed")
  BY ParseIs
<1>4. Gg!Ended(Gg!Begun(h), "truncated").end = "truncated"
  BY DEF Gg!Ended, Gg!Begun
<1> HIDE DEF cut, whole
<1> QED
  BY <1>1, <1>2, <1>3, <1>4

(* The parse that stops reads as the one that does not, as long as it has  *)
(* not stopped.                                                            *)
Early(h, b, a) ==
    \/ b = a
    \/ b.end = "stopped" /\ Gg!HaveRequired(h, b.kept) /\ b.kept \subseteq a.kept

LEMMA EarlyReadsAlike ==
    ASSUME NEW h, Gg!HeaderOK(h), NEW avail \in Nat,
           NEW a \in States(h), NEW b \in States(h), Early(h, b, a), a.end # "stopped", NEW i \in 1..Pairs(h)
    PROVE  LET a2 == Gg!ReadPair(h, a, h.pairs[i], avail, FALSE)
               b2 == Gg!ReadPair(h, b, h.pairs[i], avail, TRUE)
           IN  a2.end # "stopped" /\ Early(h, b2, a2)
<1> DEFINE a2 == Gg!ReadPair(h, a, h.pairs[i], avail, FALSE)
           b2 == Gg!ReadPair(h, b, h.pairs[i], avail, TRUE)
<1>1. a2.end # "stopped" /\ a.kept \subseteq a2.kept
  BY DEF Gg!ReadPair, Gg!StopsAt, Gg!Ended, States
<1>2. CASE b.end = "stopped"
  <2>1. b2 = b
    BY <1>2 DEF Gg!ReadPair
  <2> HIDE DEF a2, b2
  <2>2. Gg!HaveRequired(h, b.kept) /\ b.kept \subseteq a2.kept
    BY <1>1, <1>2 DEF Early
  <2> QED
    BY <1>1, <1>2, <2>1, <2>2 DEF Early, a2, b2
<1>3. CASE b.end # "stopped"
  <2>1. b = a
    BY <1>3 DEF Early
  <2>2. CASE Gg!StopsAt(h, a, h.pairs[i], TRUE) /\ b2 = Gg!Ended(a, "stopped")
    <3>1. b2.end = "stopped" /\ b2.kept = a.kept /\ Gg!HaveRequired(h, a.kept)
      BY <2>2 DEF Gg!Ended, States, Gg!StopsAt
    <3> HIDE DEF a2, b2
    <3> QED
      BY <1>1, <3>1 DEF Early, a2, b2
  <2>3. CASE ~(Gg!StopsAt(h, a, h.pairs[i], TRUE) /\ b2 = Gg!Ended(a, "stopped"))
    <3>1. ~Gg!StopsAt(h, a, h.pairs[i], FALSE)
      BY DEF Gg!StopsAt
    <3>2. b2 = a2
      BY <2>1, <2>3, <3>1 DEF Gg!ReadPair
    <3> HIDE DEF a2, b2
    <3> QED
      BY <1>1, <3>2 DEF Early, a2, b2
  <2> QED
    BY <2>2, <2>3
<1> QED
  BY <1>2, <1>3

LEMMA EarlyGoesAlike ==
    ASSUME NEW h, Gg!HeaderOK(h), NEW avail \in Nat
    PROVE  \A i \in 0..Pairs(h) :
              /\ At(h, avail, FALSE, i).end # "stopped"
              /\ Early(h, At(h, avail, TRUE, i), At(h, avail, FALSE, i))
<1> DEFINE Fine(i) == /\ At(h, avail, FALSE, i).end # "stopped"
                      /\ Early(h, At(h, avail, TRUE, i), At(h, avail, FALSE, i))
           Wrong == {i \in 0..Pairs(h) : ~Fine(i)}
<1> SUFFICES ASSUME Wrong # {} PROVE FALSE
  OBVIOUS
<1>1. Pairs(h) \in Nat
  BY PairsAre
<1>8. Fine(0)
  <2>1. Gg!Begun(h).end # "stopped"
    BY DEF Gg!Begun
  <2> QED
    BY <2>1, LoopGoes DEF Early
<1> HIDE DEF Fine
<1>2. PICK i \in Wrong : \A k \in Wrong : i <= k
  <2>1. Wrong \subseteq Nat
    BY <1>1
  <2> HIDE DEF Wrong
  <2> QED
    BY <2>1, LeastNatural
<1>3. i # 0
  BY <1>2, <1>8
<1>4. i \in 1..Pairs(h) /\ i - 1 \in 0..Pairs(h) /\ i - 1 \notin Wrong
  BY <1>1, <1>2, <1>3
<1>5. Fine(i - 1)
  BY <1>4
<1>6. /\ At(h, avail, FALSE, i - 1) \in States(h) /\ At(h, avail, TRUE, i - 1) \in States(h)
      /\ At(h, avail, FALSE, i) = Gg!ReadPair(h, At(h, avail, FALSE, i - 1), h.pairs[i], avail, FALSE)
      /\ At(h, avail, TRUE, i) = Gg!ReadPair(h, At(h, avail, TRUE, i - 1), h.pairs[i], avail, TRUE)
  BY <1>4, LoopGoes
<1>7. Fine(i)
  BY <1>4, <1>5, <1>6, EarlyReadsAlike DEF Fine
<1> QED
  BY <1>2, <1>7

(* The parse that stops ends as the other does, or sooner with all that is *)
(* required.                                                               *)
LEMMA EarlyEndsAlike ==
    ASSUME NEW h, Gg!HeaderOK(h), NEW avail \in Nat
    PROVE  LET a == Gg!Parse(h, avail, FALSE)
               b == Gg!Parse(h, avail, TRUE)
           IN  /\ b.end = "truncated" => a.end = "truncated"
               /\ Gg!Usable(a) => Early(h, b, a)
<1> DEFINE a == At(h, avail, FALSE, Pairs(h))
           b == At(h, avail, TRUE, Pairs(h))
           pa == Gg!Parse(h, avail, FALSE)
           pb == Gg!Parse(h, avail, TRUE)
<1>1. Pairs(h) \in 0..Pairs(h)
  BY PairsAre
<1>2. a.end # "stopped" /\ Early(h, b, a) /\ a \in States(h) /\ b \in States(h)
  BY <1>1, EarlyGoesAlike, LoopGoes
<1>3. pa = IF avail < h.start THEN Gg!Ended(Gg!Begun(h), "truncated")
           ELSE IF h.bad THEN Gg!Ended(Gg!Begun(h), "malformed")
           ELSE IF a.end # "none" THEN a
           ELSE IF Architecture \in a.kept THEN Gg!Ended(a, "complete") ELSE Gg!Ended(a, "malformed")
  BY ParseIs
<1>4. pb = IF avail < h.start THEN Gg!Ended(Gg!Begun(h), "truncated")
           ELSE IF h.bad THEN Gg!Ended(Gg!Begun(h), "malformed")
           ELSE IF b.end # "none" THEN b
           ELSE IF Architecture \in b.kept THEN Gg!Ended(b, "complete") ELSE Gg!Ended(b, "malformed")
  BY ParseIs
<1>5. \A e : /\ Gg!Ended(Gg!Begun(h), e).end = e
             /\ Gg!Ended(a, e).end = e /\ Gg!Ended(a, e).kept = a.kept
  BY <1>2 DEF Gg!Ended, Gg!Begun, States
<1> HIDE DEF a, b, pa, pb
<1>6. CASE avail < h.start \/ h.bad \/ b = a
  <2>1. pa = pb
    BY <1>3, <1>4, <1>6
  <2> QED
    BY <2>1 DEF Early, pa, pb
<1>7. CASE ~(avail < h.start \/ h.bad \/ b = a)
  <2>1. /\ b.end = "stopped" /\ Gg!HaveRequired(h, b.kept) /\ b.kept \subseteq a.kept
        /\ pb = b
    BY <1>2, <1>4, <1>7 DEF Early
  <2>2. Gg!Usable(pa) => pa.kept = a.kept
    BY <1>2, <1>3, <1>5, <1>7 DEF Gg!Usable
  <2> QED
    BY <2>1, <2>2 DEF Early, pa, pb
<1> QED
  BY <1>6, <1>7

(* How much of a file is seen: the least piece of which the parse ends.    *)
IsSeen(h, stop, size, n) ==
    /\ n \in 0..size
    /\ Gg!Parse(h, n, stop).end # "truncated" \/ n = size
    /\ \A k \in 0..(n - 1) : Gg!Parse(h, k, stop).end = "truncated"

LEMMA SeenIs ==
    ASSUME NEW h, NEW size \in Nat, NEW stop
    PROVE  IsSeen(h, stop, size, Gg!Seen(h, stop, size))
<1> DEFINE Ends == {n \in 0..size : Gg!Parse(h, n, stop).end # "truncated" \/ n = size}
<1>1. PICK n \in Ends : \A k \in Ends : n <= k
  <2>1. Ends \subseteq Nat /\ Ends # {}
    OBVIOUS
  <2> HIDE DEF Ends
  <2> QED
    BY <2>1, LeastNatural
<1>2. IsSeen(h, stop, size, n)
  BY <1>1 DEF IsSeen
<1> QED
  BY <1>2 DEF Gg!Seen, IsSeen

LEMMA EarlySeesNoMore ==
    ASSUME NEW h, Gg!HeaderOK(h), NEW size \in Nat
    PROVE  Gg!Seen(h, TRUE, size) <= Gg!Seen(h, FALSE, size)
<1> SUFFICES ASSUME NEW e, IsSeen(h, TRUE, size, e), NEW w, IsSeen(h, FALSE, size, w) PROVE e <= w
  BY SeenIs
<1>1. w \in Nat /\ e \in Nat /\ e <= size
  BY DEF IsSeen
<1>2. Gg!Parse(h, w, TRUE).end = "truncated" => Gg!Parse(h, w, FALSE).end = "truncated"
  BY <1>1, EarlyEndsAlike
<1>3. ~(w < e)
  <2> SUFFICES ASSUME w < e PROVE FALSE
    OBVIOUS
  <2>1. w \in 0..(e - 1)
    BY <1>1
  <2>2. Gg!Parse(h, w, FALSE).end = "truncated"
    BY <1>2, <2>1 DEF IsSeen
  <2>3. w = size
    BY <2>2 DEF IsSeen
  <2> QED
    BY <1>1, <2>3
<1> QED
  BY <1>1, <1>3

(* What is missing of a file is read from it just as well by the parse     *)
(* that stops.                                                             *)
LEMMA NothingIsMissed ==
    ASSUME NEW h, NEW a, NEW b, Early(h, b, a), Gg!Usable(a)
    PROVE  Gg!Usable(b) /\ Gg!Missing(h, b.kept) = Gg!Missing(h, a.kept) /\ b.kept \subseteq a.kept
<1>1. CASE b = a
  BY <1>1
<1>2. CASE b.end = "stopped" /\ Gg!HaveRequired(h, b.kept) /\ b.kept \subseteq a.kept
  <2>1. Architecture \in b.kept /\ Architecture \in a.kept /\ Gg!Need(h) \subseteq b.kept /\ Gg!Need(h) \subseteq a.kept
    BY <1>2 DEF Gg!HaveRequired, Gg!Need
  <2>2. Gg!Missing(h, b.kept) = {} /\ Gg!Missing(h, a.kept) = {}
    BY <2>1 DEF Gg!Missing
  <2> QED
    BY <1>2, <2>2 DEF Gg!Usable
<1> QED
  BY <1>1, <1>2 DEF Early

(* The reader of the ranges: how far it has read, and how much it asks for *)
(* next, which is no more than has been read and one first range.          *)
Readers(seen, size, first) ==
    {r \in [off : Nat, chunk : Nat] :
        /\ r.off <= 2 * seen + first
        /\ r.off >= size \/ r.chunk <= r.off + first}
Fetch(r, seen, size, most) ==
    IF r.off >= seen \/ r.off >= size THEN r
    ELSE [off |-> r.off + Gg!Asked(r, size), chunk |-> Gg!Doubled(r.chunk, most)]

LEMMA FetchKeepsBound ==
    ASSUME NEW seen \in Nat, NEW size \in Nat, NEW first \in Nat, NEW most \in Nat,
           NEW r \in Readers(seen, size, first)
    PROVE  Fetch(r, seen, size, most) \in Readers(seen, size, first)
<1>1. /\ r.off \in Nat /\ r.chunk \in Nat /\ r.off <= 2 * seen + first
      /\ r.off >= size \/ r.chunk <= r.off + first
  BY DEF Readers
<1>2. CASE r.off >= seen \/ r.off >= size
  BY <1>2 DEF Fetch
<1>3. CASE ~(r.off >= seen \/ r.off >= size)
  <2> DEFINE off == r.off + Gg!Asked(r, size)
             chunk == Gg!Doubled(r.chunk, most)
  <2>1. Fetch(r, seen, size, most) = [off |-> off, chunk |-> chunk]
    BY <1>3 DEF Fetch
  <2>2. chunk \in Nat /\ chunk <= 2 * r.chunk
    BY <1>1 DEF Gg!Doubled
  <2>3. off \in Nat /\ (off = size \/ off = r.off + r.chunk) /\ off <= r.off + r.chunk
    BY <1>1, <1>3 DEF Gg!Asked
  <2> HIDE DEF off, chunk
  <2>4. off <= 2 * seen + first
    BY <1>1, <1>3, <2>3
  <2>5. off >= size \/ chunk <= off + first
    BY <1>1, <1>3, <2>2, <2>3
  <2> QED
    BY <2>1, <2>2, <2>3, <2>4, <2>5 DEF Readers
<1> QED
  BY <1>2, <1>3

FetchesBy(it, seen, size, first, most) ==
    it = [s \in SUBSET (1..size) |->
            IF s = {} THEN [off |-> 0, chunk |-> first]
            ELSE Fetch(it[s \ {Gg!Max(s)}], seen, size, most)]
Fetched(seen, size, first, most) == CHOOSE it : FetchesBy(it, seen, size, first, most)

LEMMA FetchingGoes ==
    ASSUME NEW seen \in Nat, NEW size \in Nat, NEW first \in Nat, NEW most \in Nat
    PROVE  Fetched(seen, size, first, most)[1..size] \in Readers(seen, size, first)
<1> DEFINE V == Readers(seen, size, first)
           begun == [off |-> 0, chunk |-> first]
           step == [iv \in (1..size) \X V |-> Fetch(iv[2], seen, size, most)]
           all == Fetched(seen, size, first, most)
<1>1. begun \in V
  BY DEF Readers
<1>2. \A r \in V : Fetch(r, seen, size, most) \in V
  BY FetchKeepsBound
<1> HIDE DEF V, begun
<1>3. step \in [(1..size) \X V -> V]
  BY <1>2
<1>4. PICK it \in [SUBSET (1..size) -> V] : FoldsBy(it, begun, step, size)
  <2> HIDE DEF step
  <2> QED
    BY <1>1, <1>3, FoldExists
<1>5. ASSUME NEW s \in SUBSET (1..size), s # {}
      PROVE  step[<<Gg!Max(s), it[s \ {Gg!Max(s)}]>>] = Fetch(it[s \ {Gg!Max(s)}], seen, size, most)
  <2>1. Gg!Max(s) \in s
    BY <1>5, LastIsIn
  <2>2. it[s \ {Gg!Max(s)}] \in V
    BY <1>4
  <2> QED
    BY <2>1, <2>2
<1> HIDE DEF step
<1>6. it = [s \in SUBSET (1..size) |-> IF s = {} THEN begun ELSE Fetch(it[s \ {Gg!Max(s)}], seen, size, most)]
  BY <1>4, <1>5 DEF FoldsBy
<1>7. FetchesBy(it, seen, size, first, most)
  BY <1>6 DEF FetchesBy, begun
<1>8. FetchesBy(all, seen, size, first, most)
  BY <1>7 DEF Fetched
<1> HIDE DEF all
<1>9. \A s \in SUBSET (1..size) : all[s] = IF s = {} THEN begun ELSE Fetch(all[s \ {Gg!Max(s)}], seen, size, most)
  BY <1>8 DEF FetchesBy, begun
<1>10. all[1..0] = begun
  <2>1. 1..0 = {}
    OBVIOUS
  <2> QED
    BY <1>9, <2>1
<1>11. ASSUME NEW i \in 1..size PROVE all[1..i] = Fetch(all[1..(i - 1)], seen, size, most)
  <2>1. /\ Gg!Max(1..i) = i /\ (1..i) \ {i} = 1..(i - 1) /\ 1..i # {} /\ 1..i \in SUBSET (1..size)
    BY LastOfFirst
  <2> QED
    BY <1>9, <2>1
<1> DEFINE Wrong == {i \in 0..size : ~(all[1..i] \in V)}
<1>12. Wrong = {}
  <2> SUFFICES ASSUME Wrong # {} PROVE FALSE
    OBVIOUS
  <2>1. PICK i \in Wrong : \A k \in Wrong : i <= k
    <3>1. Wrong \subseteq Nat
      OBVIOUS
    <3> HIDE DEF Wrong
    <3> QED
      BY <3>1, LeastNatural
  <2>2. i # 0
    BY <1>1, <1>10, <2>1
  <2>3. i \in 1..size /\ i - 1 \in 0..size /\ i - 1 \notin Wrong
    BY <2>1, <2>2
  <2>4. all[1..(i - 1)] \in V
    BY <2>3
  <2>5. all[1..i] \in V
    BY <1>2, <1>11, <2>3, <2>4
  <2> QED
    BY <2>1, <2>5
<1>13. all[1..size] \in V
  BY <1>12
<1> QED
  BY <1>13 DEF all, V

LEMMA FetchedWithin ==
    ASSUME NEW seen \in Nat, NEW size \in Nat, NEW first \in Nat, NEW most \in Nat
    PROVE  Gg!FetchedFor(seen, size, first, most) <= 2 * seen + first
<1> DEFINE numbers == [i \in 1..size |-> i]
           end == Fetched(seen, size, first, most)[1..size]
<1>1. DOMAIN numbers = 1..size /\ [i \in DOMAIN numbers |-> i] = numbers
  OBVIOUS
<1>2. end \in Readers(seen, size, first)
  BY FetchingGoes
<1>3. end.off <= 2 * seen + first
  <2> HIDE DEF end
  <2> QED
    BY <1>2 DEF Readers
<1>4. Gg!FetchedFor(seen, size, first, most) = end.off
  BY <1>1 DEF Gg!FetchedFor, Gg!FoldLeftDomain, Gg!FoldLeft, Gg!MapThenFoldSet, Fetched, FetchesBy, Fetch
<1> HIDE DEF end
<1> QED
  BY <1>3, <1>4

(* The header of a file is read of a piece of it as of the whole; stopping *)
(* at the tokenizer costs no field and sees no more; and what is fetched   *)
(* beyond what the parse sees is no more than that much again and a first  *)
(* range.                                                                  *)
THEOREM HeaderIsReadAsOfTheWhole ==
    \A h, size \in Nat, first \in Nat, most \in Nat :
        Gg!HeaderOK(h) => /\ Gg!CutNeverChanges(h, size)
                          /\ Gg!EarlyStopReadsTheSame(h, size)
                          /\ Gg!TransferEndsWithTheParse(h, size, first, most)
<1> SUFFICES ASSUME NEW h, NEW size \in Nat, NEW first \in Nat, NEW most \in Nat, Gg!HeaderOK(h)
             PROVE  /\ Gg!CutNeverChanges(h, size)
                    /\ Gg!EarlyStopReadsTheSame(h, size)
                    /\ Gg!TransferEndsWithTheParse(h, size, first, most)
  OBVIOUS
<1>1. Gg!CutNeverChanges(h, size)
  BY CutNeverMisleads DEF Gg!CutNeverChanges
<1>2. Gg!EarlyStopReadsTheSame(h, size)
  <2> SUFFICES ASSUME NEW a, a = Gg!Parse(h, size, FALSE), NEW b, b = Gg!Parse(h, size, TRUE), Gg!Usable(a)
               PROVE  /\ Gg!Usable(b) /\ Gg!Missing(h, b.kept) = Gg!Missing(h, a.kept)
                      /\ b.kept \subseteq a.kept
                      /\ Gg!Seen(h, TRUE, size) <= Gg!Seen(h, FALSE, size)
    BY DEF Gg!EarlyStopReadsTheSame
  <2>1. Early(h, b, a)
    BY EarlyEndsAlike
  <2>2. Gg!Usable(b) /\ Gg!Missing(h, b.kept) = Gg!Missing(h, a.kept) /\ b.kept \subseteq a.kept
    BY <2>1, NothingIsMissed
  <2>3. Gg!Seen(h, TRUE, size) <= Gg!Seen(h, FALSE, size)
    BY EarlySeesNoMore
  <2> QED
    BY <2>2, <2>3
<1>3. Gg!TransferEndsWithTheParse(h, size, first, most)
  <2>1. ASSUME NEW seen \in Nat
        PROVE  Gg!FetchedFor(seen, size, first, most) <= 2 * seen + first
    BY FetchedWithin
  <2>2. Gg!Seen(h, TRUE, size) \in Nat
    <3>1. \A n : IsSeen(h, TRUE, size, n) => n \in Nat
      BY DEF IsSeen
    <3> QED
      BY <3>1, SeenIs
  <2> QED
    BY <2>1, <2>2 DEF Gg!TransferEndsWithTheParse
<1> QED
  BY <1>1, <1>2, <1>3
-----------------------------------------------------------------------------
(* What the runs of a computer come to: the rows they are read back from,  *)
(* and the estimates their measurements replace.                           *)
CONSTANTS Hardware, CacheTypes
Re == INSTANCE BenchRecords WITH GraphicsPaths <- GPUPaths

(* What holds of the fold's base and is kept by each step holds throughout. *)
LEMMA StaysThroughout ==
    ASSUME NEW n \in Nat, NEW Wrong, 0 \notin Wrong, \A i \in 1..n : i \in Wrong => i - 1 \in Wrong
    PROVE  \A i \in 0..n : i \notin Wrong
<1> DEFINE W == {i \in 0..n : i \in Wrong}
<1> SUFFICES ASSUME W # {} PROVE FALSE
  OBVIOUS
<1>1. PICK i \in W : \A k \in W : i <= k
  <2>1. W \subseteq Nat
    OBVIOUS
  <2> HIDE DEF W
  <2> QED
    BY <2>1, LeastNatural
<1>2. i \in 1..n
  BY <1>1
<1>3. i - 1 \in W /\ i - 1 < i
  BY <1>1, <1>2
<1> QED
  BY <1>1, <1>3

(* What a run's measurement is written as, and all it can be written to.   *)
Replaces(run) == [profile |-> run.config.profile, of |-> Re!Configuration(run.config), run |-> run.id]
AllReplaced(runs) == {Replaces(runs[m]) : m \in DOMAIN runs}

Upserted(up, es, e) ==
  /\ DOMAIN es \subseteq DOMAIN up
  /\ \A i \in DOMAIN up : up[i] = e \/ (i \in DOMAIN es /\ up[i] = es[i])
  /\ \A i \in DOMAIN es : up[i] = es[i] \/ (up[i] = e /\ es[i].profile = e.profile /\ es[i].of = e.of)
  /\ \E i \in DOMAIN up : up[i] = e

LEMMA UpsertIs ==
    ASSUME NEW E, NEW es \in Seq(E), NEW e \in E, NEW up, up = Re!Upsert(es, e)
    PROVE  up \in Seq(E) /\ Upserted(up, es, e)
<1> DEFINE same == {i \in DOMAIN es : es[i].profile = e.profile /\ es[i].of = e.of}
           n == Len(es)
<1>1. n \in Nat /\ DOMAIN es = 1..n
  OBVIOUS
<1>2. up = IF same = {} THEN Append(es, e) ELSE [i \in DOMAIN es |-> IF i \in same THEN e ELSE es[i]]
  BY DEF Re!Upsert
<1>3. \A i \in same : i \in DOMAIN es /\ es[i].profile = e.profile /\ es[i].of = e.of
  OBVIOUS
<1> HIDE DEF same
<1>4. CASE same = {}
  <2>1. up = Append(es, e)
    BY <1>2, <1>4
  <2>2. up \in Seq(E) /\ DOMAIN up = 1..(n + 1) /\ up[n + 1] = e /\ \A i \in 1..n : up[i] = es[i]
    BY <1>1, <2>1
  <2> HIDE DEF n
  <2>3. \A i \in 1..(n + 1) : i \in 1..n \/ i = n + 1
    BY <1>1
  <2>4. n + 1 \in DOMAIN up /\ DOMAIN es \subseteq DOMAIN up
    BY <1>1, <2>2
  <2> QED
    BY <1>1, <2>2, <2>3, <2>4 DEF Upserted
<1>5. CASE same # {}
  <2>1. up = [i \in 1..n |-> IF i \in same THEN e ELSE es[i]]
    BY <1>1, <1>2, <1>5
  <2>2. up \in [1..n -> E]
    BY <1>1, <2>1
  <2>3. up \in Seq(E) /\ DOMAIN up = 1..n
    BY <1>1, <2>2
  <2> HIDE DEF n
  <2>4. \A i \in 1..n : up[i] = IF i \in same THEN e ELSE es[i]
    BY <2>1
  <2>5. PICK k \in same : TRUE
    BY <1>5
  <2>6. k \in DOMAIN up /\ up[k] = e
    BY <1>1, <1>3, <2>3, <2>4, <2>5
  <2> QED
    BY <1>1, <1>3, <2>3, <2>4, <2>6 DEF Upserted
<1> QED
  BY <1>4, <1>5

LEMMA WriteStays ==
    ASSUME NEW runs, NEW m \in DOMAIN runs, NEW es \in Seq(AllReplaced(runs))
    PROVE  Re!WriteBack(es, runs[m]) \in Seq(AllReplaced(runs))
<1>1. Replaces(runs[m]) \in AllReplaced(runs)
  BY DEF AllReplaced
<1>2. Re!WriteBack(es, runs[m]) = IF ~Re!Measures(runs[m]) THEN es ELSE Re!Upsert(es, Replaces(runs[m]))
  BY DEF Re!WriteBack, Replaces
<1>3. Re!Upsert(es, Replaces(runs[m])) \in Seq(AllReplaced(runs))
  BY <1>1, UpsertIs
<1> QED
  BY <1>2, <1>3

WritesBy(it, runs, n) ==
    it = [s \in SUBSET (1..n) |-> IF s = {} THEN << >> ELSE Re!WriteBack(it[s \ {Gg!Max(s)}], runs[Gg!Max(s)])]

LEMMA WritesExist ==
    ASSUME NEW n \in Nat, NEW runs, DOMAIN runs = 1..n
    PROVE  \E it : WritesBy(it, runs, n)
<1> DEFINE V == Seq(AllReplaced(runs))
           step == [iv \in (1..n) \X V |-> Re!WriteBack(iv[2], runs[iv[1]])]
<1>1. << >> \in V
  OBVIOUS
<1>2. step \in [(1..n) \X V -> V]
  BY WriteStays
<1> HIDE DEF V
<1>3. PICK it \in [SUBSET (1..n) -> V] : FoldsBy(it, << >>, step, n)
  <2> HIDE DEF step
  <2> QED
    BY <1>1, <1>2, FoldExists
<1>4. ASSUME NEW s \in SUBSET (1..n), s # {}
      PROVE  step[<<Gg!Max(s), it[s \ {Gg!Max(s)}]>>] = Re!WriteBack(it[s \ {Gg!Max(s)}], runs[Gg!Max(s)])
  <2>1. Gg!Max(s) \in s
    BY <1>4, LastIsIn
  <2>2. it[s \ {Gg!Max(s)}] \in V
    BY <1>3
  <2> QED
    BY <2>1, <2>2
<1> HIDE DEF step
<1>5. it = [s \in SUBSET (1..n) |-> IF s = {} THEN << >> ELSE Re!WriteBack(it[s \ {Gg!Max(s)}], runs[Gg!Max(s)])]
  BY <1>3, <1>4 DEF FoldsBy
<1> QED
  BY <1>5 DEF WritesBy

LEMMA WrittenIsFold ==
    ASSUME NEW n \in Nat, NEW runs, DOMAIN runs = 1..n
    PROVE  \E it : WritesBy(it, runs, n) /\ Re!WrittenBack(runs) = it[1..n]
<1> DEFINE P(it) == it = [s \in SUBSET (1..n) |-> IF s = {} THEN << >> ELSE Re!WriteBack(it[s \ {Re!Max(s)}], runs[Re!Max(s)])]
           loop == CHOOSE it : P(it)
<1>1. \A s : Gg!Max(s) = Re!Max(s)
  BY DEF Gg!Max, Re!Max
<1>2. \A it : WritesBy(it, runs, n) <=> P(it)
  BY <1>1 DEF WritesBy
<1>3. \E it : WritesBy(it, runs, n)
  BY WritesExist
<1> HIDE DEF P
<1>4. P(loop)
  BY <1>2, <1>3
<1>5. Re!WrittenBack(runs) = loop[1..n]
  BY DEF Re!WrittenBack, Re!FoldLeft, Re!MapThenFoldSet, P
<1> QED
  BY <1>2, <1>4, <1>5

LEMMA WrittenNext ==
    ASSUME NEW n \in Nat, NEW runs, NEW it, WritesBy(it, runs, n)
    PROVE  it[1..0] = << >> /\ \A i \in 1..n : it[1..i] = Re!WriteBack(it[1..(i - 1)], runs[i])
<1>1. \A s \in SUBSET (1..n) : it[s] = IF s = {} THEN << >> ELSE Re!WriteBack(it[s \ {Gg!Max(s)}], runs[Gg!Max(s)])
  BY DEF WritesBy
<1>2. ASSUME NEW i \in 1..n PROVE it[1..i] = Re!WriteBack(it[1..(i - 1)], runs[i])
  <2>1. Gg!Max(1..i) = i /\ (1..i) \ {i} = 1..(i - 1) /\ 1..i # {} /\ 1..i \in SUBSET (1..n)
    BY LastOfFirst
  <2>2. it[1..i] = Re!WriteBack(it[(1..i) \ {Gg!Max(1..i)}], runs[Gg!Max(1..i)])
    BY <1>1, <2>1
  <2> QED
    BY <2>1, <2>2
<1>3. 1..0 = {} /\ {} \in SUBSET (1..n)
  OBVIOUS
<1> QED
  BY <1>1, <1>2, <1>3

(* What the estimates stand for after the first k runs: each of them is of  *)
(* one of those runs that measures, and each such run has one, its own or   *)
(* that of a later run.                                                     *)
OfRuns(es, runs, k) == \A i \in DOMAIN es : \E m \in 1..k : Re!Measures(runs[m]) /\ es[i] = Replaces(runs[m])
HasOf(es, run) ==
  \E i \in DOMAIN es : es[i].profile = run.config.profile /\ es[i].of = Re!Configuration(run.config) /\ es[i].run >= run.id
Kept(es, runs, k) == \A m \in 1..k : Re!Measures(runs[m]) => HasOf(es, runs[m])
KeptTo(es, runs, k) == es \in Seq(AllReplaced(runs)) /\ OfRuns(es, runs, k) /\ Kept(es, runs, k)

Numbered(runs, n) ==
  /\ n \in Nat /\ DOMAIN runs = 1..n /\ \A i \in 1..n : runs[i].id \in Nat
  /\ \A i, j \in 1..n : i < j => runs[i].id < runs[j].id

LEMMA ReplacesIs ==
    ASSUME NEW run
    PROVE  /\ Replaces(run).profile = run.config.profile /\ Replaces(run).of = Re!Configuration(run.config)
           /\ Replaces(run).run = run.id
BY DEF Replaces

(* A run that measures nothing leaves what holds of the estimates.          *)
LEMMA KeptUnmeasured ==
    ASSUME NEW runs, NEW n, Numbered(runs, n), NEW k \in 1..n, NEW es, KeptTo(es, runs, k - 1), ~Re!Measures(runs[k])
    PROVE  KeptTo(es, runs, k)
<1>1. \A m \in 1..k : m \in 1..(k - 1) \/ m = k
  OBVIOUS
<1>2. \A m \in 1..(k - 1) : m \in 1..k
  OBVIOUS
<1>3. OfRuns(es, runs, k)
  BY <1>2 DEF OfRuns, KeptTo
<1>4. Kept(es, runs, k)
  BY <1>1 DEF Kept, KeptTo
<1> QED
  BY <1>3, <1>4 DEF KeptTo

LEMMA KeptMeasured ==
    ASSUME NEW runs, NEW n, Numbered(runs, n), NEW k \in 1..n, NEW es, KeptTo(es, runs, k - 1), Re!Measures(runs[k])
    PROVE  KeptTo(Re!Upsert(es, Replaces(runs[k])), runs, k)
<1> DEFINE e == Replaces(runs[k])
           up == Re!Upsert(es, e)
<1>0. /\ e.profile = runs[k].config.profile /\ e.of = Re!Configuration(runs[k].config) /\ e.run = runs[k].id
      /\ e = Replaces(runs[k]) /\ e \in AllReplaced(runs)
  BY ReplacesIs DEF AllReplaced, Numbered
<1>1. /\ es \in Seq(AllReplaced(runs)) /\ OfRuns(es, runs, k - 1) /\ Kept(es, runs, k - 1)
  BY DEF KeptTo
<1>7. up = Re!Upsert(es, e)
  OBVIOUS
<1> HIDE DEF e, up
<1>2. up \in Seq(AllReplaced(runs)) /\ Upserted(up, es, e)
  BY <1>0, <1>1, <1>7, UpsertIs
<1>3. OfRuns(up, runs, k)
  <2> SUFFICES ASSUME NEW i \in DOMAIN up PROVE \E m \in 1..k : Re!Measures(runs[m]) /\ up[i] = Replaces(runs[m])
    BY DEF OfRuns
  <2>1. CASE up[i] = e
    <3>1. k \in 1..k
      OBVIOUS
    <3> QED
      BY <1>0, <2>1, <3>1
  <2>2. CASE i \in DOMAIN es /\ up[i] = es[i]
    <3>1. PICK m \in 1..(k - 1) : Re!Measures(runs[m]) /\ es[i] = Replaces(runs[m])
      BY <1>1, <2>2 DEF OfRuns
    <3>2. m \in 1..k
      OBVIOUS
    <3> QED
      BY <2>2, <3>1, <3>2
  <2> QED
    BY <1>2, <2>1, <2>2 DEF Upserted
<1>4. HasOf(up, runs[k])
  <2>1. PICK i \in DOMAIN up : up[i] = e
    BY <1>2 DEF Upserted
  <2>2. runs[k].id >= runs[k].id
    BY DEF Numbered
  <2> QED
    BY <1>0, <2>1, <2>2 DEF HasOf
<1>5. ASSUME NEW m \in 1..(k - 1), HasOf(es, runs[m]) PROVE HasOf(up, runs[m])
  <2>1. PICK i \in DOMAIN es : /\ es[i].profile = runs[m].config.profile /\ es[i].of = Re!Configuration(runs[m].config)
                               /\ es[i].run >= runs[m].id
    BY <1>5 DEF HasOf
  <2>2. i \in DOMAIN up
    BY <1>2 DEF Upserted
  <2>3. CASE up[i] = es[i]
    BY <2>1, <2>2, <2>3 DEF HasOf
  <2>4. CASE up[i] = e /\ es[i].profile = e.profile /\ es[i].of = e.of
    <3>1. runs[k].id >= runs[m].id
      <4>1. m \in 1..n /\ k \in 1..n /\ m < k
        BY DEF Numbered
      <4>2. runs[m].id < runs[k].id /\ runs[m].id \in Nat /\ runs[k].id \in Nat
        BY <4>1 DEF Numbered
      <4> QED
        BY <4>2
    <3>2. /\ up[i].profile = runs[m].config.profile /\ up[i].of = Re!Configuration(runs[m].config)
          /\ up[i].run >= runs[m].id
      BY <1>0, <2>1, <2>4, <3>1
    <3> QED
      BY <2>2, <3>2 DEF HasOf
  <2> QED
    BY <1>2, <2>3, <2>4 DEF Upserted
<1>6. Kept(up, runs, k)
  <2>1. \A m \in 1..k : m \in 1..(k - 1) \/ m = k
    OBVIOUS
  <2> QED
    BY <1>1, <1>4, <1>5, <2>1 DEF Kept
<1> QED
  BY <1>2, <1>3, <1>6 DEF KeptTo, e, up

LEMMA KeptNext ==
    ASSUME NEW runs, NEW n, Numbered(runs, n), NEW k \in 1..n, NEW es, KeptTo(es, runs, k - 1)
    PROVE  KeptTo(Re!WriteBack(es, runs[k]), runs, k)
<1>1. Re!WriteBack(es, runs[k]) = IF ~Re!Measures(runs[k]) THEN es ELSE Re!Upsert(es, Replaces(runs[k]))
  BY DEF Re!WriteBack, Replaces
<1>2. CASE Re!Measures(runs[k])
  BY <1>1, <1>2, KeptMeasured
<1>3. CASE ~Re!Measures(runs[k])
  BY <1>1, <1>3, KeptUnmeasured
<1> QED
  BY <1>2, <1>3

LEMMA WrittenIsKept ==
    ASSUME NEW runs, NEW n, Numbered(runs, n)
    PROVE  KeptTo(Re!WrittenBack(runs), runs, n)
<1>1. n \in Nat /\ DOMAIN runs = 1..n
  BY DEF Numbered
<1>2. PICK it : WritesBy(it, runs, n) /\ Re!WrittenBack(runs) = it[1..n]
  BY <1>1, WrittenIsFold
<1>3. it[1..0] = << >> /\ \A i \in 1..n : it[1..i] = Re!WriteBack(it[1..(i - 1)], runs[i])
  BY <1>1, <1>2, WrittenNext
<1> DEFINE Wrong == {i \in 0..n : ~KeptTo(it[1..i], runs, i)}
<1>4. KeptTo(<< >>, runs, 0)
  BY DEF KeptTo, OfRuns, Kept
<1>5. 0 \notin Wrong
  BY <1>3, <1>4
<1>6. ASSUME NEW i \in 1..n, i \in Wrong PROVE i - 1 \in Wrong
  <2>1. i - 1 \in 0..n
    BY <1>1
  <2>2. ASSUME KeptTo(it[1..(i - 1)], runs, i - 1) PROVE FALSE
    <3>1. KeptTo(it[1..i], runs, i)
      BY <1>3, <2>2, KeptNext
    <3> QED
      BY <1>6, <3>1
  <2> QED
    BY <2>1, <2>2
<1>7. n \notin Wrong
  <2>1. n \in 0..n
    BY <1>1
  <2> HIDE DEF Wrong
  <2>2. \A i \in 0..n : i \notin Wrong
    BY <1>1, <1>5, <1>6, StaysThroughout
  <2> QED
    BY <2>1, <2>2
<1> QED
  BY <1>1, <1>2, <1>7

(* Numbered runs are told apart by their numbers, and so are their rows.    *)
LEMMA NumbersTell ==
    ASSUME NEW runs, NEW n, Numbered(runs, n), NEW i \in 1..n, NEW j \in 1..n, runs[i].id = runs[j].id
    PROVE  i = j
<1>1. i \in Int /\ j \in Int /\ runs[i].id \in Nat /\ runs[j].id \in Nat
  BY DEF Numbered
<1>2. (i < j => runs[i].id < runs[j].id) /\ (j < i => runs[j].id < runs[i].id)
  BY DEF Numbered
<1>3. ~(i < j) /\ ~(j < i)
  BY <1>1, <1>2
<1> QED
  BY <1>1, <1>3

LEMMA RowKeeps ==
    ASSUME NEW run
    PROVE  /\ Re!Row(run).id = run.id /\ Re!Row(run).gen = run.gen /\ Re!Row(run).resident = run.resident
           /\ Re!Row(run).vram = run.vram
BY DEF Re!Row

LEMMA RunOfId ==
    ASSUME NEW runs, NEW n, Numbered(runs, n), NEW i \in 1..n
    PROVE  /\ (CHOOSE r \in Re!ToSet(runs) : r.id = runs[i].id) = runs[i]
           /\ (CHOOSE r \in Re!ToSet(Re!Rows(runs)) : r.id = runs[i].id) = Re!Row(runs[i])
<1>1. DOMAIN runs = 1..n
  BY DEF Numbered
<1>2. \A r \in Re!ToSet(runs) : \E j \in 1..n : r = runs[j]
  BY <1>1 DEF Re!ToSet
<1>3. runs[i] \in Re!ToSet(runs)
  BY <1>1 DEF Re!ToSet
<1>4. \A r \in Re!ToSet(runs) : r.id = runs[i].id => r = runs[i]
  BY <1>2, NumbersTell
<1>5. DOMAIN Re!Rows(runs) = 1..n /\ \A j \in 1..n : Re!Rows(runs)[j] = Re!Row(runs[j])
  BY <1>1 DEF Re!Rows
<1>6. \A r \in Re!ToSet(Re!Rows(runs)) : \E j \in 1..n : r = Re!Row(runs[j])
  BY <1>5 DEF Re!ToSet
<1>7. Re!Row(runs[i]) \in Re!ToSet(Re!Rows(runs))
  BY <1>5 DEF Re!ToSet
<1>8. \A r \in Re!ToSet(Re!Rows(runs)) : r.id = runs[i].id => r = Re!Row(runs[i])
  BY <1>6, RowKeeps, NumbersTell
<1>9. Re!Row(runs[i]).id = runs[i].id
  BY RowKeeps
<1> QED
  BY <1>3, <1>4, <1>7, <1>8, <1>9

(* The runs of this hardware that measure, and the last of each             *)
(* configuration.                                                           *)
MeasuresOn(run, f) == Hardware[run.config.profile] = f /\ Re!Measures(run)
LastOn(runs, n, run, f) ==
  /\ MeasuresOn(run, f)
  /\ \A l \in 1..n : MeasuresOn(runs[l], f) /\ Re!Configuration(runs[l].config) = Re!Configuration(run.config)
                       => runs[l].id <= run.id

(* Of the estimates kept of some runs, those that count are the ones of the *)
(* last runs.                                                               *)
LEMMA CountedIsLast ==
    ASSUME NEW runs, NEW n, Numbered(runs, n), NEW es, KeptTo(es, runs, n), NEW f,
           NEW e \in Re!MeasuredEstimates(es, f)
    PROVE  \E j \in 1..n : e = Replaces(runs[j]) /\ LastOn(runs, n, runs[j], f)
<1>1. OfRuns(es, runs, n) /\ Kept(es, runs, n)
  BY DEF KeptTo
<1>2. /\ e \in Re!ToSet(es) /\ Hardware[e.profile] = f
      /\ \A g \in Re!ToSet(es) : Hardware[g.profile] = f /\ g.of = e.of => g.run <= e.run
  BY DEF Re!MeasuredEstimates
<1>3. \A g : g \in Re!ToSet(es) <=> \E i \in DOMAIN es : g = es[i]
  BY DEF Re!ToSet
<1>4. PICK j \in 1..n : Re!Measures(runs[j]) /\ e = Replaces(runs[j])
  BY <1>1, <1>2, <1>3 DEF OfRuns
<1>5. e.profile = runs[j].config.profile /\ e.of = Re!Configuration(runs[j].config) /\ e.run = runs[j].id
  BY <1>4, ReplacesIs
<1>6. MeasuresOn(runs[j], f)
  BY <1>2, <1>4, <1>5 DEF MeasuresOn
<1>7. ASSUME NEW l \in 1..n, MeasuresOn(runs[l], f), Re!Configuration(runs[l].config) = Re!Configuration(runs[j].config)
      PROVE  runs[l].id <= runs[j].id
  <2>1. Hardware[runs[l].config.profile] = f /\ Re!Measures(runs[l])
    BY <1>7 DEF MeasuresOn
  <2>2. HasOf(es, runs[l])
    BY <1>1, <2>1 DEF Kept
  <2>3. PICK i \in DOMAIN es : /\ es[i].profile = runs[l].config.profile /\ es[i].of = Re!Configuration(runs[l].config)
                               /\ es[i].run >= runs[l].id
    BY <2>2 DEF HasOf
  <2>4. PICK m \in 1..n : es[i] = Replaces(runs[m])
    BY <1>1 DEF OfRuns
  <2>5. es[i].run = runs[m].id
    BY <2>4, ReplacesIs
  <2>6. es[i] \in Re!ToSet(es) /\ Hardware[es[i].profile] = f /\ es[i].of = e.of
    BY <1>3, <1>5, <1>7, <2>1, <2>3
  <2>7. es[i].run <= e.run
    BY <1>2, <2>6
  <2>8. runs[m].id \in Nat /\ runs[l].id \in Nat /\ runs[j].id \in Nat
    BY DEF Numbered
  <2>9. runs[m].id <= runs[j].id /\ runs[m].id >= runs[l].id
    BY <1>5, <2>3, <2>5, <2>7
  <2> QED
    BY <2>8, <2>9
<1>8. LastOn(runs, n, runs[j], f)
  BY <1>6, <1>7 DEF LastOn
<1> QED
  BY <1>4, <1>8

LEMMA LastIsCounted ==
    ASSUME NEW runs, NEW n, Numbered(runs, n), NEW es, KeptTo(es, runs, n), NEW f,
           NEW j \in 1..n, LastOn(runs, n, runs[j], f)
    PROVE  Replaces(runs[j]) \in Re!MeasuredEstimates(es, f)
<1>1. OfRuns(es, runs, n) /\ Kept(es, runs, n)
  BY DEF KeptTo
<1>2. /\ Hardware[runs[j].config.profile] = f /\ Re!Measures(runs[j])
      /\ \A l \in 1..n : MeasuresOn(runs[l], f) /\ Re!Configuration(runs[l].config) = Re!Configuration(runs[j].config)
                           => runs[l].id <= runs[j].id
  BY DEF LastOn, MeasuresOn
<1>3. \A g : g \in Re!ToSet(es) <=> \E i \in DOMAIN es : g = es[i]
  BY DEF Re!ToSet
<1>4. \A g \in Re!ToSet(es) : \E m \in 1..n : Re!Measures(runs[m]) /\ g = Replaces(runs[m])
  BY <1>1, <1>3 DEF OfRuns
<1>5. ASSUME NEW g \in Re!ToSet(es), Hardware[g.profile] = f, g.of = Re!Configuration(runs[j].config)
      PROVE  g.run <= runs[j].id
  <2>1. PICK m \in 1..n : Re!Measures(runs[m]) /\ g = Replaces(runs[m])
    BY <1>4
  <2>2. g.profile = runs[m].config.profile /\ g.of = Re!Configuration(runs[m].config) /\ g.run = runs[m].id
    BY <2>1, ReplacesIs
  <2>3. MeasuresOn(runs[m], f) /\ Re!Configuration(runs[m].config) = Re!Configuration(runs[j].config)
    BY <1>5, <2>1, <2>2 DEF MeasuresOn
  <2> QED
    BY <1>2, <2>2, <2>3
<1>6. Replaces(runs[j]) \in Re!ToSet(es)
  <2>1. HasOf(es, runs[j])
    BY <1>1, <1>2 DEF Kept
  <2>2. PICK i \in DOMAIN es : /\ es[i].profile = runs[j].config.profile /\ es[i].of = Re!Configuration(runs[j].config)
                               /\ es[i].run >= runs[j].id
    BY <2>1 DEF HasOf
  <2>3. es[i] \in Re!ToSet(es)
    BY <1>3
  <2>4. PICK m \in 1..n : Re!Measures(runs[m]) /\ es[i] = Replaces(runs[m])
    BY <1>4, <2>3
  <2>5. es[i].run = runs[m].id
    BY <2>4, ReplacesIs
  <2>6. es[i].run <= runs[j].id
    BY <1>2, <1>5, <2>2, <2>3
  <2>7. runs[m].id \in Nat /\ runs[j].id \in Nat
    BY DEF Numbered
  <2>8. runs[m].id = runs[j].id
    BY <2>2, <2>5, <2>6, <2>7
  <2>9. m = j
    BY <2>8, NumbersTell
  <2> QED
    BY <2>3, <2>4, <2>9
<1>7. /\ Replaces(runs[j]).profile = runs[j].config.profile /\ Replaces(runs[j]).of = Re!Configuration(runs[j].config)
      /\ Replaces(runs[j]).run = runs[j].id
  BY ReplacesIs
<1> QED
  BY <1>2, <1>5, <1>6, <1>7 DEF Re!MeasuredEstimates

(* A run measures when it is done, timed, of a known file and cache, and    *)
(* its path is not left open.                                               *)
LEMMA MeasuresIs ==
    ASSUME NEW run, Re!RunOK(run), {"", "unknown"} \cap GPUPaths = {}
    PROVE  Re!Measures(run) <=> /\ run.status = "done" /\ run.gen # {} /\ run.config.file # 0 /\ run.config.kv \in CacheTypes
                                /\ run.config.path \notin {"", "unknown"}
<1>1. run.config.path \in GPUPaths \cup {"cpu", "", "unknown"}
  BY DEF Re!RunOK
<1>2. Re!Known(run.config.path) <=> run.config.path \notin {"", "unknown"}
  BY <1>1 DEF Re!Known
<1> QED
  BY <1>2 DEF Re!Measures

LEMMA RunsAreNumbered ==
    ASSUME NEW runs, Re!RunsOK(runs)
    PROVE  Numbered(runs, Len(runs)) /\ \A i \in 1..Len(runs) : runs[i] \in Re!ToSet(runs) /\ Re!RunOK(runs[i])
<1>1. runs \in Seq(Re!ToSet(runs)) /\ \A r \in Re!ToSet(runs) : Re!RunOK(r)
  BY DEF Re!RunsOK
<1>2. \A i, j \in DOMAIN runs : i < j => runs[i].id < runs[j].id
  BY DEF Re!RunsOK
<1>3. Len(runs) \in Nat /\ DOMAIN runs = 1..Len(runs)
  BY <1>1
<1>4. \A i \in 1..Len(runs) : runs[i] \in Re!ToSet(runs)
  BY <1>3 DEF Re!ToSet
<1>5. \A i \in 1..Len(runs) : Re!RunOK(runs[i]) /\ runs[i].id \in Nat
  BY <1>1, <1>4 DEF Re!RunOK
<1> QED
  BY <1>2, <1>3, <1>4, <1>5 DEF Numbered

LEMMA MeasuredAre ==
    ASSUME NEW runs, NEW n, Numbered(runs, n), NEW f, NEW es, es = Re!WrittenBack(runs), NEW standing,
           standing = Re!Evidence(Re!Rows(runs), es, f).measured
    PROVE  /\ \A m \in standing : \E j \in 1..n : LastOn(runs, n, runs[j], f)
                                    /\ m = Re!MeasurementOf(Replaces(runs[j]), Re!Row(runs[j]))
           /\ \A j \in 1..n : LastOn(runs, n, runs[j], f) => Re!MeasurementOf(Replaces(runs[j]), Re!Row(runs[j])) \in standing
<1> DEFINE Its(id) == CHOOSE r \in Re!ToSet(Re!Rows(runs)) : r.id = id
           counted == Re!MeasuredEstimates(es, f)
<1>1. standing = {Re!MeasurementOf(e, Its(e.run)) : e \in {x \in counted : Its(x.run).gen # {}}}
  BY DEF Re!Evidence
<1>2. KeptTo(es, runs, n)
  BY WrittenIsKept
<1>3. \A j \in 1..n : Its(Replaces(runs[j]).run) = Re!Row(runs[j])
  BY RunOfId, ReplacesIs
<1>4. \A e \in counted : \E j \in 1..n : e = Replaces(runs[j]) /\ LastOn(runs, n, runs[j], f)
  BY <1>2, CountedIsLast
<1>5. \A j \in 1..n : LastOn(runs, n, runs[j], f) => Replaces(runs[j]) \in counted
  BY <1>2, LastIsCounted
<1>6. \A j \in 1..n : LastOn(runs, n, runs[j], f) => Re!Row(runs[j]).gen # {}
  BY RowKeeps DEF LastOn, MeasuresOn, Re!Measures
<1> HIDE DEF Its, counted
<1>7. ASSUME NEW m \in standing
      PROVE  \E j \in 1..n : LastOn(runs, n, runs[j], f) /\ m = Re!MeasurementOf(Replaces(runs[j]), Re!Row(runs[j]))
  <2>1. PICK e \in counted : m = Re!MeasurementOf(e, Its(e.run))
    BY <1>1
  <2>2. PICK j \in 1..n : e = Replaces(runs[j]) /\ LastOn(runs, n, runs[j], f)
    BY <1>4
  <2> QED
    BY <1>3, <2>1, <2>2
<1>8. ASSUME NEW j \in 1..n, LastOn(runs, n, runs[j], f)
      PROVE  Re!MeasurementOf(Replaces(runs[j]), Re!Row(runs[j])) \in standing
  BY <1>1, <1>3, <1>5, <1>6, <1>8
<1> QED
  BY <1>7, <1>8

HereOf(runs, f) ==
  {r \in Re!ToSet(runs) : Hardware[r.config.profile] = f /\ r.status = "done" /\ r.gen # {} /\ r.config.file # 0
                          /\ r.config.kv \in CacheTypes /\ r.config.path \notin {"", "unknown"}}
LatestOf(here) == {r \in here : \A q \in here : Re!Configuration(q.config) = Re!Configuration(r.config) => q.id <= r.id}

LEMMA LatestAreLast ==
    ASSUME NEW runs, Re!RunsOK(runs), NEW f, NEW n, n = Len(runs)
    PROVE  \A r : r \in LatestOf(HereOf(runs, f)) <=> \E j \in 1..n : r = runs[j] /\ LastOn(runs, n, r, f)
<1> DEFINE here == HereOf(runs, f)
           latest == LatestOf(here)
<1>1. Numbered(runs, n) /\ \A i \in 1..n : runs[i] \in Re!ToSet(runs) /\ Re!RunOK(runs[i])
  BY RunsAreNumbered
<1>2. \A r \in Re!ToSet(runs) : \E j \in 1..n : r = runs[j]
  BY <1>1 DEF Re!ToSet, Numbered
<1>3. {"", "unknown"} \cap GPUPaths = {}
  BY DEF Re!RunsOK
<1>4. \A j \in 1..n : Re!Measures(runs[j])
        <=> /\ runs[j].status = "done" /\ runs[j].gen # {} /\ runs[j].config.file # 0 /\ runs[j].config.kv \in CacheTypes
            /\ runs[j].config.path \notin {"", "unknown"}
  BY <1>1, <1>3, MeasuresIs
<1>5. \A r : r \in here <=> \E j \in 1..n : r = runs[j] /\ MeasuresOn(r, f)
  BY <1>1, <1>2, <1>4 DEF MeasuresOn, HereOf
<1>6. \A r : r \in latest
        <=> r \in here /\ \A q \in here : Re!Configuration(q.config) = Re!Configuration(r.config) => q.id <= r.id
  BY DEF LatestOf
<1> HIDE DEF here, latest
<1>7. ASSUME NEW r \in latest PROVE \E j \in 1..n : r = runs[j] /\ LastOn(runs, n, r, f)
  <2>1. PICK j \in 1..n : r = runs[j] /\ MeasuresOn(r, f)
    BY <1>5, <1>6
  <2>2. \A l \in 1..n : MeasuresOn(runs[l], f) => runs[l] \in here
    BY <1>5
  <2> QED
    BY <1>6, <2>1, <2>2 DEF LastOn
<1>8. ASSUME NEW j \in 1..n, LastOn(runs, n, runs[j], f) PROVE runs[j] \in latest
  <2>1. runs[j] \in here
    BY <1>5, <1>8 DEF LastOn
  <2>2. ASSUME NEW q \in here, Re!Configuration(q.config) = Re!Configuration(runs[j].config) PROVE q.id <= runs[j].id
    <3>1. PICK l \in 1..n : q = runs[l] /\ MeasuresOn(q, f)
      BY <1>5
    <3> QED
      BY <1>8, <2>2, <3>1 DEF LastOn
  <2> QED
    BY <1>6, <2>1, <2>2
<1> QED
  BY <1>7, <1>8 DEF here, latest

LEMMA MeasurementsAreTheLatest ==
    ASSUME NEW runs, Re!RunsOK(runs), NEW f
    PROVE  Re!LatestCounts(runs, f)
<1> DEFINE n == Len(runs)
           standing == Re!Evidence(Re!Rows(runs), Re!WrittenBack(runs), f).measured
           latest == LatestOf(HereOf(runs, f))
           M(r) == Re!MeasurementOf(Replaces(r), Re!Row(r))
           L(r) == [of |-> Re!Configuration(r.config), run |-> r.id, gen |-> Re!SumSet(r.gen)]
<1>1. Numbered(runs, n)
  BY RunsAreNumbered
<1>2. /\ \A m \in standing : \E j \in 1..n : LastOn(runs, n, runs[j], f) /\ m = M(runs[j])
      /\ \A j \in 1..n : LastOn(runs, n, runs[j], f) => M(runs[j]) \in standing
  BY <1>1, MeasuredAre
<1>3. \A r : r \in latest <=> \E j \in 1..n : r = runs[j] /\ LastOn(runs, n, r, f)
  BY LatestAreLast
<1>4. \A r : /\ [of |-> M(r).of, run |-> M(r).run, gen |-> M(r).gen] = L(r)
             /\ M(r).run = r.id /\ (M(r).peak > 0 => r.resident = "gpu")
  <2> TAKE r
  <2>1. Re!Row(r).gen = r.gen /\ Re!Row(r).resident = r.resident
    BY RowKeeps
  <2>2. Replaces(r).of = Re!Configuration(r.config) /\ Replaces(r).run = r.id
    BY ReplacesIs
  <2>3. ~(0 > 0)
    OBVIOUS
  <2> QED
    BY <2>1, <2>2, <2>3 DEF Re!MeasurementOf
<1>5. \A j \in 1..n : Re!RowOf(runs, runs[j].id).resident = runs[j].resident
  <2> TAKE j \in 1..n
  <2>1. (CHOOSE r \in Re!ToSet(runs) : r.id = runs[j].id) = runs[j]
    BY <1>1, RunOfId
  <2>2. Re!RowOf(runs, runs[j].id) = Re!Row(runs[j])
    BY <2>1 DEF Re!RowOf
  <2> QED
    BY <2>2, RowKeeps
<1>6. Re!LatestCounts(runs, f)
        <=> /\ {[of |-> m.of, run |-> m.run, gen |-> m.gen] : m \in standing} = {L(r) : r \in latest}
            /\ \A m \in standing : m.peak > 0 => Re!RowOf(runs, m.run).resident = "gpu"
  BY DEF Re!LatestCounts, LatestOf, HereOf
<1> HIDE DEF standing, latest, M, L, n
<1>7. ASSUME NEW m \in standing PROVE \E r \in latest : [of |-> m.of, run |-> m.run, gen |-> m.gen] = L(r)
  <2>1. PICK j \in 1..n : LastOn(runs, n, runs[j], f) /\ m = M(runs[j])
    BY <1>2
  <2>2. runs[j] \in latest
    BY <1>3, <2>1
  <2>3. [of |-> m.of, run |-> m.run, gen |-> m.gen] = L(runs[j])
    BY <1>4, <2>1
  <2> QED
    BY <2>2, <2>3
<1>8. ASSUME NEW r \in latest PROVE \E m \in standing : [of |-> m.of, run |-> m.run, gen |-> m.gen] = L(r)
  <2>1. M(r) \in standing
    BY <1>2, <1>3
  <2>2. [of |-> M(r).of, run |-> M(r).run, gen |-> M(r).gen] = L(r)
    BY <1>4
  <2> QED
    BY <2>1, <2>2
<1>9. {[of |-> m.of, run |-> m.run, gen |-> m.gen] : m \in standing} = {L(r) : r \in latest}
  BY <1>7, <1>8
<1>10. ASSUME NEW m \in standing, m.peak > 0 PROVE Re!RowOf(runs, m.run).resident = "gpu"
  <2>1. PICK j \in 1..n : m = M(runs[j])
    BY <1>2
  <2>2. runs[j].resident = "gpu" /\ m.run = runs[j].id
    BY <1>4, <1>10, <2>1
  <2> QED
    BY <1>5, <2>2
<1> QED
  BY <1>6, <1>9, <1>10

(* A column that is empty reads as nothing, and one of a value as it.       *)
LEMMA ColumnReads ==
    ASSUME NEW S, S = {} \/ \E v \in Nat : S = {v}
    PROVE  (S = {} => Re!SumSet(S) = 0) /\ \A v \in Nat : S = {v} => Re!SumSet(S) = v
<1> DEFINE first(s) == CHOOSE x \in s : TRUE
           P(it) == it = [s \in SUBSET S |-> IF s = {} THEN 0 ELSE first(s) + it[s \ {first(s)}]]
           sum == CHOOSE it : P(it)
           one == [s \in SUBSET S |-> IF s = {} THEN 0 ELSE first(s) + 0]
<1>1. Re!SumSet(S) = sum[S]
  BY DEF Re!SumSet, Re!FoldSet, Re!MapThenFoldSet
<1>2. \A s \in SUBSET S : s # {} => s = S /\ s \ {first(s)} = {}
  OBVIOUS
<1>3. \A s \in SUBSET S : s # {} => one[s \ {first(s)}] = 0
  BY <1>2
<1> HIDE DEF first
<1>4. P(one)
  BY <1>3
<1> HIDE DEF P
<1>5. P(sum)
  BY <1>4
<1>6. \A s \in SUBSET S : sum[s] = IF s = {} THEN 0 ELSE first(s) + sum[s \ {first(s)}]
  BY <1>5 DEF P
<1> HIDE DEF sum
<1>7. S = {} => Re!SumSet(S) = 0
  BY <1>1, <1>6
<1>8. ASSUME NEW v \in Nat, S = {v} PROVE Re!SumSet(S) = v
  <2>1. first(S) = v
    BY <1>8 DEF first
  <2>2. S \ {v} = {} /\ S # {} /\ S \in SUBSET S /\ {} \in SUBSET S
    BY <1>8
  <2>3. sum[{}] = 0
    BY <1>6, <2>2
  <2>4. sum[S] = v + sum[{}]
    BY <1>6, <2>1, <2>2
  <2> QED
    BY <1>1, <1>8, <2>3, <2>4
<1> QED
  BY <1>7, <1>8

LEMMA SizesReadBack ==
    ASSUME NEW run, Re!RunOK(run)
    PROVE  /\ Re!SumSet(Re!Row(run).size) = run.size
           /\ Re!SumSet(Re!Row(run).sizeVRAM) = run.sizeVRAM
<1>1. run.size \in Nat /\ run.sizeVRAM \in Nat /\ (run.size = 0 => run.sizeVRAM = 0)
  BY DEF Re!RunOK
<1>2. /\ Re!Row(run).size = {v \in {run.size} : v > 0}
      /\ Re!Row(run).sizeVRAM = IF run.size > 0 THEN {run.sizeVRAM} ELSE {}
  BY DEF Re!Row, Re!Positive
<1>3. CASE run.size > 0
  <2>1. Re!Row(run).size = {run.size} /\ Re!Row(run).sizeVRAM = {run.sizeVRAM}
    BY <1>2, <1>3
  <2> QED
    BY <1>1, <2>1, ColumnReads
<1>4. CASE ~(run.size > 0)
  <2>1. Re!Row(run).size = {} /\ Re!Row(run).sizeVRAM = {} /\ run.size = 0 /\ run.sizeVRAM = 0
    BY <1>1, <1>2, <1>4
  <2> QED
    BY <2>1, ColumnReads
<1> QED
  BY <1>3, <1>4

LEMMA RunsReadBack ==
    ASSUME NEW run, Re!RunOK(run)
    PROVE  Re!ReadsBack(run)
<1> DEFINE row == Re!Row(run)
           back == Re!FromRow(row)
           head == Re!Headline(run.results)
<1>1. /\ DOMAIN run \ {"config"} = {"id", "status", "results", "headline", "gen", "read", "ttft", "vram", "resident", "size",
                                    "sizeVRAM", "finished", "facts"}
      /\ head = [headline |-> run.headline, gen |-> run.gen, read |-> run.read, ttft |-> run.ttft]
  BY DEF Re!RunOK
<1>2. head.headline = run.headline /\ head.gen = run.gen /\ head.read = run.read /\ head.ttft = run.ttft
  BY <1>1
<1>3. /\ row.id = run.id /\ row.status = run.status /\ row.results = run.results /\ row.headline = run.headline
      /\ row.vram = run.vram /\ row.resident = run.resident /\ row.finished = run.finished /\ row.facts = run.facts
      /\ row.gen = run.gen /\ row.config = run.config /\ row.path = Re!PathOf(run.config.path) /\ row.kv = run.config.kv
  BY DEF Re!Row
<1>4. Re!SumSet(row.size) = run.size /\ Re!SumSet(row.sizeVRAM) = run.sizeVRAM
  BY SizesReadBack
<1> HIDE DEF row, head
<1>5. /\ back.id = row.id /\ back.status = row.status /\ back.results = row.results
      /\ back.headline = IF row.headline # {} THEN row.headline ELSE Re!Headline(row.results).headline
      /\ back.gen = Re!Headline(row.results).gen /\ back.read = Re!Headline(row.results).read
      /\ back.ttft = Re!Headline(row.results).ttft /\ back.vram = row.vram /\ back.resident = row.resident
      /\ back.size = Re!SumSet(row.size) /\ back.sizeVRAM = Re!SumSet(row.sizeVRAM)
      /\ back.finished = row.finished /\ back.facts = row.facts
      /\ back.config = [row.config EXCEPT !.path = row.path, !.kv = row.kv]
  BY DEF Re!FromRow
<1>6. Re!Headline(row.results) = head
  BY <1>3 DEF head
<1> HIDE DEF back
<1>7. \A f \in DOMAIN run \ {"config"} : back[f] = run[f]
  <2>1. back.id = run.id /\ back.status = run.status /\ back.results = run.results /\ back.headline = run.headline
    BY <1>2, <1>3, <1>5, <1>6
  <2>2. back.gen = run.gen /\ back.read = run.read /\ back.ttft = run.ttft /\ back.vram = run.vram
    BY <1>2, <1>3, <1>5, <1>6
  <2>3. /\ back.resident = run.resident /\ back.size = run.size /\ back.sizeVRAM = run.sizeVRAM
        /\ back.finished = run.finished /\ back.facts = run.facts
    BY <1>3, <1>4, <1>5
  <2> QED
    BY <1>1, <2>1, <2>2, <2>3
<1>8. back.config = [run.config EXCEPT !.path = Re!PathOf(run.config.path)]
  <2> DEFINE c == run.config
             D == {"profile", "backendVersion", "path", "model", "digest", "quant", "weights", "file", "ctx",
                   "effective", "kv", "fa", "faKnown", "parallel", "suite"}
  <2>1. back.config = [c EXCEPT !.path = Re!PathOf(c.path), !.kv = c.kv]
    BY <1>3, <1>5
  <2> HIDE DEF c
  <2>2. [c EXCEPT !.path = Re!PathOf(c.path), !.kv = c.kv] = [c EXCEPT !.path = Re!PathOf(c.path)]
    OBVIOUS
  <2> QED
    BY <2>1, <2>2 DEF c
<1>9. Re!Key(back.config) = Re!Key(run.config)
  <2> DEFINE c == run.config
  <2>1. DOMAIN c = {"profile", "backendVersion", "path", "model", "digest", "quant", "weights", "file", "ctx",
                    "effective", "kv", "fa", "faKnown", "parallel", "suite"}
    BY DEF Re!RunOK
  <2> HIDE DEF c
  <2> DEFINE b == [c EXCEPT !.path = Re!PathOf(c.path)]
  <2>2. /\ b.path = Re!PathOf(c.path) /\ b.profile = c.profile /\ b.backendVersion = c.backendVersion /\ b.model = c.model
        /\ b.digest = c.digest /\ b.quant = c.quant /\ b.weights = c.weights /\ b.ctx = c.ctx /\ b.kv = c.kv
        /\ b.fa = c.fa /\ b.faKnown = c.faKnown /\ b.parallel = c.parallel /\ b.suite = c.suite
    BY <2>1
  <2> HIDE DEF b
  <2>3. Re!PathOf(b.path) = Re!PathOf(c.path)
    BY <2>2 DEF Re!PathOf
  <2>4. Re!ModelOf(b) = Re!ModelOf(c) /\ Re!Flash(b) = Re!Flash(c)
    BY <2>2 DEF Re!ModelOf, Re!Flash
  <2>5. Re!Key(b) = Re!Key(c)
    BY <2>2, <2>3, <2>4 DEF Re!Key
  <2> QED
    BY <1>8, <2>5 DEF b, c
<1>10. back.gen = row.gen
  BY <1>2, <1>3, <1>5, <1>6
<1> QED
  BY <1>7, <1>8, <1>9, <1>10 DEF Re!ReadsBack, back, row

(* Of any runs of a computer, as long as each carries the figures of its    *)
(* results and they are numbered in the order they ended, each reads back   *)
(* from its row as it was stored and under the key it was stored under, and *)
(* the estimator is told, for every configuration measured on the hardware  *)
(* in whichever start, exactly the latest measurement of it, with memory    *)
(* only when all of it was on the graphics (Key, writeBack, runFromRow and  *)
(* Evidence, bench/evidence.go; row, bench/harness.go;                      *)
(* UpsertMeasuredEstimate and MeasuredEstimates, store/bench.go).           *)
THEOREM LatestMeasurementsCount ==
    ASSUME NEW runs, Re!RunsOK(runs)
    PROVE  (\A i \in DOMAIN runs : Re!ReadsBack(runs[i])) /\ \A f : Re!LatestCounts(runs, f)
<1>1. DOMAIN runs = 1..Len(runs) /\ \A i \in 1..Len(runs) : Re!RunOK(runs[i])
  BY RunsAreNumbered DEF Numbered
<1>2. \A i \in DOMAIN runs : Re!ReadsBack(runs[i])
  BY <1>1, RunsReadBack
<1>3. \A f : Re!LatestCounts(runs, f)
  BY MeasurementsAreTheLatest
<1> QED
  BY <1>2, <1>3
=============================================================================
