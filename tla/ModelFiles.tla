----------------------------- MODULE ModelFiles -----------------------------
(***************************************************************************)
(* What the catalogue makes of a model's files: which of a repository's    *)
(* files a refresh reads, and what each layer of the model keeps in memory *)
(* by the header of such a file.                                           *)
(*                                                                         *)
(* The first half is GroupGGUF of internal/catalog/files.go with           *)
(* refreshSize and pickProjector of internal/catalog/refresh/refresh.go:   *)
(* the logical GGUF files of a listing, one for each tracked quant and at  *)
(* most one vision encoder.  A file is what its name says (path is its     *)
(* place in the order of names, stem the name without "-00001-of-00003",   *)
(* part and of are 0 when it has no such suffix, role, quant), its size    *)
(* and its content's hash.                                                 *)
(*                                                                         *)
(* The second half is NewLayout of internal/catalog/layout.go.  A header   *)
(* is the typed fields h and the rest of the metadata m.  A count the file *)
(* does not state is 0 and a list it does not state is empty, the way      *)
(* kvInt and kvInts tell; ssm and conv say that the state's keys are       *)
(* there.  arch names the architectures the runtime has rules of its own   *)
(* for.                                                                    *)
(***************************************************************************)
EXTENDS Naturals, Sequences, FiniteSets, FiniteSetsExt, SequencesExt

CONSTANTS
  ProjectorRank,       \* the vision encoder's quants, the preferred first
  SlidingPatterns,     \* architecture -> how its windows are spread, when not stated
  RecurrentByInterval, \* architectures that are hybrid without saying which layers
  DefaultInterval      \* the runtime's interval of those

(* Files that are neither GGUF, weights nor a vision encoder are passed    *)
(* over.                                                                   *)
IsRead(f) == f.gguf /\ f.role # "none"

(* The first listed part says how many there are; a part that disagrees is *)
(* reported and left out.                                                  *)
Stems(files) == {files[i].stem : i \in {j \in DOMAIN files : IsRead(files[j]) /\ files[j].part > 0}}
Listed(files, stem) ==
  LET OfStem(f) == IsRead(f) /\ f.part > 0 /\ f.stem = stem IN SelectSeq(files, OfStem)
PartsOf(files, stem) == Head(Listed(files, stem)).of
(* A bug: the parts count whatever their numbering says.                   *)
PartsAny(files, stem) == ToSet(Listed(files, stem))
Parts(files, stem) == {f \in ToSet(Listed(files, stem)) : f.of = PartsOf(files, stem) /\ f.part <= f.of}
(* A bug: a file is taken when its first part is there.                    *)
IsWholeFirst(files, stem) == \E f \in Parts(files, stem) : f.part = 1
IsWhole(files, stem) == Cardinality(Parts(files, stem)) = PartsOf(files, stem)

Bytes(parts) == LET of(f) == f.bytes IN MapThenSumSet(of, parts)
Logical(first, parts) ==
  [path |-> first.path, parts |-> Cardinality(parts), bytes |-> Bytes(parts),
   role |-> first.role, quant |-> first.quant, sha |-> first.sha]
FirstPart(parts) == CHOOSE f \in parts : f.part = 1

(* GroupGGUF: the whole files, in the order of their first names.          *)
GroupGGUF(files) ==
  LET single == {Logical(files[i], {files[i]}) : i \in {j \in DOMAIN files : IsRead(files[j]) /\ files[j].part = 0}}
      split == {Logical(FirstPart(Parts(files, s)), Parts(files, s)) : s \in {t \in Stems(files) : IsWhole(files, t)}}
      Before(a, b) == a.path < b.path
  IN SetToSortSeq(single \cup split, Before)
-----------------------------------------------------------------------------
(* The first file of each tracked quant, in the order of the quants.       *)
Weights(groups, quants) ==
  LET OfQuant(q, g) == g.role = "model" /\ g.quant = q
      first(q) == LET OfThis(g) == OfQuant(q, g) IN SelectSeq(groups, OfThis)
      take(acc, q) == IF first(q) = << >> THEN acc ELSE Append(acc, Head(first(q)))
  IN FoldLeft(take, << >>, quants)

(* pickProjector: the first of the best rank.                              *)
RankOf(g) == IF \E i \in DOMAIN ProjectorRank : ProjectorRank[i] = g.quant
             THEN CHOOSE i \in DOMAIN ProjectorRank : ProjectorRank[i] = g.quant
             ELSE Len(ProjectorRank) + 1
Projector(groups) ==
  LET IsProjector(g) == g.role = "projector"
      all == SelectSeq(groups, IsProjector)
      best == {i \in DOMAIN all : \A j \in DOMAIN all : RankOf(all[i]) <= RankOf(all[j])}
  IN IF all = << >> THEN << >> ELSE <<all[Min(best)]>>

(* What a size's files are read from; nothing without a tracked quant.     *)
Selected(files, quants) ==
  LET groups == GroupGGUF(files) IN
  IF Weights(groups, quants) = << >> THEN << >> ELSE Weights(groups, quants) \o Projector(groups)
-----------------------------------------------------------------------------
(* A selected file is whole and its size is of all its parts, whatever     *)
(* else the listing holds and in whatever order: no quant is read twice,   *)
(* and none that is there whole is missed.                                 *)
SelectionIsWhole(files, quants) ==
  LET chosen == Selected(files, quants)
      partsOf(g) == {f \in ToSet(files) : IsRead(f) /\
          (f.path = g.path \/ \E first \in ToSet(files) :
              first.path = g.path /\ first.part = 1 /\ f.part > 0 /\ f.stem = first.stem /\ f.of = first.of)}
      agree == \A f, e \in ToSet(files) : f.part > 0 /\ e.part > 0 /\ f.stem = e.stem => f.of = e.of
  IN /\ \A i \in DOMAIN chosen :
          /\ chosen[i].bytes = Bytes(partsOf(chosen[i]))
          /\ \A f \in partsOf(chosen[i]) : f.part > 0 => {e.part : e \in partsOf(chosen[i])} = 1..f.of
     /\ \A i, j \in DOMAIN chosen : i # j =>
          chosen[i].path # chosen[j].path /\ <<chosen[i].role, chosen[i].quant>> # <<chosen[j].role, chosen[j].quant>>
     /\ agree => /\ Selected(Reverse(files), quants) = chosen
                 /\ \A f \in ToSet(files) : f.part = 0 /\ f.role = "model" /\ f.gguf /\ f.quant \in ToSet(quants) =>
                      \E i \in DOMAIN chosen : chosen[i].quant = f.quant
-----------------------------------------------------------------------------
(* The head's size, and the value's where it has one of its own.           *)
KeyLength(h) == IF h.key = 0 /\ h.heads > 0 THEN h.embedding \div h.heads ELSE h.key
ValueLength(h, m) ==
  IF m.mla THEN 0 ELSE IF h.value = 0 THEN KeyLength(h) ELSE h.value
Readable(h) == h.blocks > 0 /\ KeyLength(h) > 0

(* A bug: the prediction layers are run like the others.                   *)
LayersRunAll(h, m) == h.blocks

(* The layers the runtime runs: without the prediction layers at the end.  *)
LayersRun(h, m) == IF m.nextn > 0 /\ m.nextn < h.blocks THEN h.blocks - m.nextn ELSE h.blocks

PerLayerHeads(h, m) == m.kvHeads # << >> /\ Len(m.kvHeads) >= LayersRun(h, m)
Heads(h, m, i) == IF PerLayerHeads(h, m) THEN m.kvHeads[i] ELSE h.kvHeads

(* Which layers keep a fixed state: as listed, by the interval, or those   *)
(* with neither heads nor a feed-forward block.                            *)
ListsRecurrent(h, m) == m.recurrent # << >> /\ Len(m.recurrent) >= LayersRun(h, m)
ByInterval(h, m) == h.interval > 1 \/ (h.arch \in RecurrentByInterval /\ m.ssm)
Interval(h) == IF h.interval > 1 THEN h.interval ELSE DefaultInterval
HasFeedForward(m, i) == i \in DOMAIN m.feedForward /\ m.feedForward[i] # 0
IsRecurrent(h, m, i) ==
  IF ListsRecurrent(h, m) THEN m.recurrent[i]
  ELSE IF ByInterval(h, m) THEN i % Interval(h) # 0
  ELSE PerLayerHeads(h, m) /\ m.ssm /\ Heads(h, m, i) = 0 /\ ~HasFeedForward(m, i)
StateElements(m) ==
  IF ~(m.ssm /\ m.conv) THEN 0
  ELSE (IF m.convKernel > 0 THEN (m.convKernel - 1) * (m.inner + 2 * m.groups * m.state) ELSE 0)
       + m.state * m.inner

(* Layers from here on use the cache of an earlier one.                    *)
OwnCacheUntil(h, m) ==
  IF m.shared > 0 /\ m.shared < LayersRun(h, m) THEN LayersRun(h, m) - m.shared ELSE LayersRun(h, m)

(* Which layers attend over a window: as listed, by the period the file    *)
(* states, or by the architecture's; otherwise the runtime uses none.      *)
ListsSliding(h, m) == m.slidingList # << >> /\ Len(m.slidingList) >= LayersRun(h, m)
KnownPattern(h) == h.arch \in DOMAIN SlidingPatterns
Pattern(h, m) ==
  LET known == IF KnownPattern(h) THEN SlidingPatterns[h.arch] ELSE [period |-> 0, denseFirst |-> FALSE]
  IN IF m.hasPeriod THEN [known EXCEPT !.period = m.period] ELSE known
(* A bug: off by one, no layer of a period attends to everything.          *)
SlidesToTheEnd(p, i) ==
  p.period > 1 /\ IF p.denseFirst THEN (i - 1) % p.period # 0 ELSE (i - 1) % p.period <= p.period - 1
Slides(p, i) ==
  p.period > 1 /\ IF p.denseFirst THEN (i - 1) % p.period # 0 ELSE (i - 1) % p.period < p.period - 1
IsSliding(h, m, i) ==
  h.window > 0 /\ IF ListsSliding(h, m) THEN m.slidingList[i] ELSE Slides(Pattern(h, m), i)

(* The shape of a layer's cache.                                           *)
Full(h, m, i) ==
  [kind |-> "full", heads |-> Heads(h, m, i), key |-> KeyLength(h), value |-> ValueLength(h, m), window |-> 0]
Sliding(h, m, i) ==
  [kind |-> "sliding", heads |-> Heads(h, m, i),
   key |-> IF m.keySliding > 0 THEN m.keySliding ELSE KeyLength(h),
   value |-> IF m.keySliding = 0 THEN ValueLength(h, m)
             ELSE IF m.valueSliding > 0 THEN m.valueSliding ELSE m.keySliding,
   window |-> h.window]
Shape(h, m, i) == IF IsSliding(h, m, i) THEN Sliding(h, m, i) ELSE Full(h, m, i)

Recurrent(h, m) == {i \in 1..LayersRun(h, m) : IsRecurrent(h, m, i)}
(* A bug: a layer without heads is counted twice.                          *)
KeepsNothingTwice(h, m) == {i \in 1..LayersRun(h, m) : i > OwnCacheUntil(h, m) \/ Heads(h, m, i) = 0}
KeepsNothing(h, m) ==
  {i \in 1..LayersRun(h, m) \ Recurrent(h, m) : i > OwnCacheUntil(h, m) \/ Heads(h, m, i) = 0}
Caching(h, m) == 1..LayersRun(h, m) \ (Recurrent(h, m) \cup KeepsNothing(h, m))

(* How far the layout can be trusted.                                      *)
IsStated(h, m) ==
  \/ LayersRun(h, m) < h.blocks \/ m.mla \/ PerLayerHeads(h, m)
  \/ ListsRecurrent(h, m) \/ ByInterval(h, m) \/ OwnCacheUntil(h, m) < LayersRun(h, m)
  \/ h.window > 0 /\ (ListsSliding(h, m) \/ m.hasPeriod)
Basis(h, m) ==
  IF ~Readable(h) \/ (Recurrent(h, m) # {} /\ StateElements(m) = 0) THEN "incomplete"
  ELSE IF h.window > 0 /\ ~ListsSliding(h, m) /\ ~m.hasPeriod /\ KnownPattern(h) THEN "architecture"
  ELSE IF IsStated(h, m) THEN "stated" ELSE "uniform"

(* NewLayout, its groups as a set: each shape once, with its layers.       *)
NewLayout(h, m) ==
  IF ~Readable(h)
  THEN [groups |-> {}, recurrent |-> 0, state |-> 0, stateless |-> 0, basis |-> "incomplete"]
  ELSE LET shapes == {Shape(h, m, i) : i \in Caching(h, m)}
           layers(s) == Cardinality({i \in Caching(h, m) : Shape(h, m, i) = s})
       IN [groups |-> {[shape |-> s, layers |-> layers(s)] : s \in shapes},
           recurrent |-> Cardinality(Recurrent(h, m)), state |-> StateElements(m),
           stateless |-> Cardinality(KeepsNothing(h, m)) + (h.blocks - LayersRun(h, m)),
           basis |-> Basis(h, m)]

(* What a conversation of ctx tokens keeps of a layout, in elements        *)
(* (kvBytes of internal/estimate/fit.go, with the window as the runtime    *)
(* rounds it, of the groups; a recurrent layer's state is beside it).      *)
CacheElements(layout, ctx, batch, pad) ==
  LET window(w) == ((w + batch + pad - 1) \div pad) * pad
      cells(s) == IF s.kind = "sliding" /\ window(s.window) < ctx THEN window(s.window) ELSE ctx
      of(g) == g.layers * g.shape.heads * (g.shape.key + g.shape.value) * cells(g.shape)
  IN MapThenSumSet(of, layout.groups)

(* What the arithmetic needs of a header: counts are counts.               *)
HeaderOK(h, m) ==
  /\ {h.blocks, h.heads, h.kvHeads, h.key, h.value, h.embedding, h.window} \subseteq Nat
  /\ {m.nextn, m.shared, m.keySliding, m.valueSliding} \subseteq Nat
  /\ m.kvHeads \in Seq(Nat) /\ Pattern(h, m).period \in Nat
-----------------------------------------------------------------------------
(* What a layout must be whatever the header states: every layer of the    *)
(* file is counted once, and those of prediction keep nothing; where       *)
(* nothing but the plain formula applies, all layers are one group; a      *)
(* period leaves exactly one layer in it that attends to everything; and a *)
(* longer conversation never keeps less, nor more than if every layer that *)
(* keeps a cache kept all of it.                                           *)
LayersOf(layout) == LET of(g) == g.layers IN MapThenSumSet(of, layout.groups)
EveryLayerOnce(h, m) ==
  LET layout == NewLayout(h, m)
      run == LayersOf(layout) + layout.recurrent
  IN Readable(h) => /\ run + layout.stateless = h.blocks
                    /\ m.nextn < h.blocks => run <= h.blocks - m.nextn
PlainIsOneGroup(h, m) ==
  NewLayout(h, m).basis = "uniform" /\ h.kvHeads > 0 =>
    NewLayout(h, m).groups = {[shape |-> Full(h, m, 1), layers |-> h.blocks]}
OneOfAPeriod(h, m) ==
  LET p == Pattern(h, m)
      whole == {i \in 1..(h.blocks \div p.period) : TRUE}
  IN p.period > 1 =>
       \A k \in whole : Cardinality({i \in ((k - 1) * p.period + 1)..(k * p.period) : ~Slides(p, i)}) = 1
CacheGrows(h, m, short, long, batch, pad) ==
  LET layout == NewLayout(h, m)
      whole(g) == g.layers * g.shape.heads * (g.shape.key + g.shape.value) * long
  IN /\ CacheElements(layout, short, batch, pad) <= CacheElements(layout, long, batch, pad)
     /\ CacheElements(layout, long, batch, pad) <= MapThenSumSet(whole, layout.groups)
=============================================================================
