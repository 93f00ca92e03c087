------------------------------ MODULE Matching ------------------------------
(***************************************************************************)
(* Which size of the curated list, and which of its files, a model on disk *)
(* is (internal/catalog/match.go: MatchInstalled).                         *)
(*                                                                         *)
(* A name is where it comes from and what ":" cuts it into, in the         *)
(* spelling of NormalizeTag; a number that a name or the runtime gives is  *)
(* 0 where ParseParameterSize reads none.  Candidates are a sequence, for  *)
(* the first that fits is taken.                                           *)
(***************************************************************************)
EXTENDS Naturals, Sequences, FiniteSetsExt

Gap(a, b) == IF a > b THEN a - b ELSE b - a

Unknown == [kind |-> "unknown", model |-> 0, file |-> 0]

(* withQuant: a size is known, the quant picks the file.                   *)
WithQuant(c, quant) ==
  LET same == {i \in DOMAIN c.files : c.files[i].quant = quant}
  IN IF quant = "" \/ same = {}
     THEN [kind |-> "model", model |-> c.id, file |-> 0]
     ELSE [kind |-> "file", model |-> c.id, file |-> c.files[Min(same)].id]

(* The candidate whose parameters are nearest in proportion to its own,    *)
(* the first of equals, and only within a quarter.                         *)
Nearer(a, b, params) == Gap(params, a.params) * b.params < Gap(params, b.params) * a.params

IsNearest(i, same, cands, params) ==
  \A j \in same : ~Nearer(cands[j], cands[i], params) /\ (j < i => Nearer(cands[i], cands[j], params))
Nearest(same, cands, params) == cands[CHOOSE i \in same : IsNearest(i, same, cands, params)]
Near(c, params) == 4 * Gap(params, c.params) <= c.params

(* What the runtime says of the size, else what the tag begins with.       *)
SizeSaid(inst) == IF inst.params # 0 THEN inst.params ELSE inst.name.size

ByFamily(inst, cands) ==
  LET same == {i \in DOMAIN cands : cands[i].base = inst.name.base}
  IN CASE same = {} -> Unknown
       [] same # {} /\ SizeSaid(inst) = 0 ->
            IF Cardinality(same) = 1 THEN WithQuant(cands[Min(same)], inst.quant) ELSE Unknown
       [] OTHER -> LET best == Nearest(same, cands, SizeSaid(inst))
                   IN IF Near(best, SizeSaid(inst)) THEN WithQuant(best, inst.quant) ELSE Unknown

ByRepo(inst, cands) ==
  LET hits == {i \in DOMAIN cands : cands[i].repo = inst.name.base}
      quant == IF inst.quant = "" THEN inst.name.tag ELSE inst.quant
  IN IF hits = {} THEN Unknown ELSE WithQuant(cands[Min(hits)], quant)

(* 1. a Hub repository, 2. the exact tag, 3. the family and its size.      *)
MatchInstalled(inst, cands) ==
  LET exact == {i \in DOMAIN cands : cands[i].base = inst.name.base /\ cands[i].tag = inst.name.tag}
  IN CASE inst.name.hub -> ByRepo(inst, cands)
       [] ~inst.name.hub /\ exact # {} -> WithQuant(cands[Min(exact)], inst.quant)
       [] OTHER -> ByFamily(inst, cands)

=============================================================================
