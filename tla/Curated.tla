------------------------------- MODULE Curated -------------------------------
(***************************************************************************)
(* The curated list, data/catalog/families.yaml: what makes it valid       *)
(* (internal/catalog/load.go: Validate, Tracks) and the rows the store     *)
(* keeps of it from one edition to the next (internal/store/catalog.go:    *)
(* SyncCatalogModels, CatalogModels).                                      *)
(*                                                                         *)
(* A text is "" when it is missing and "bad" when it is not of the form    *)
(* its pattern or date wants; a licence is how it is stated.  Repositories *)
(* are in the spelling EqualFold compares.                                 *)
(***************************************************************************)
EXTENDS Matching, FiniteSets, FiniteSetsExt, SequencesExt

CONSTANT Purposes   \* the purposes the program knows

Tracks(list, quant) == quant \in ToSet(list.quants)
Formed(text) == text \notin {"", "bad"}
NoneTwice(seq) == IsInjective(seq)

ValidQuants(list) == list.quants # << >> /\ NoneTwice(list.quants) /\ "bad" \notin ToSet(list.quants)

(* A licence is an SPDX id, or else a name with the page it is read at.    *)
ValidLicence(l) == IF l.spdx # "" THEN Formed(l.spdx) ELSE l.name /\ l.url = "https"
ValidPurposes(ps) == ps # << >> /\ NoneTwice(ps) /\ ToSet(ps) \subseteq Purposes
ValidSize(list, s) ==
  /\ s.params > 0 /\ (s.active = 0 \/ s.active < s.params) /\ s.ctx > 0
  /\ Formed(s.base) /\ Formed(s.tag) /\ Formed(s.repo) /\ Formed(s.hfBase) /\ s.hfBase # s.repo
  /\ \A r \in s.sameAs : Formed(r) /\ r # s.hfBase
  /\ s.quant = "" \/ Tracks(list, s.quant)
ValidFamily(list, f) ==
  /\ Formed(f.id) /\ f.named /\ f.dated /\ f.sourced
  /\ ValidLicence(f.licence) /\ ValidPurposes(f.purposes)
  /\ f.sizes # << >> /\ \A s \in ToSet(f.sizes) : ValidSize(list, s)

(* The sizes of the list, each with its family's id.                       *)
SizesOf(f) == [i \in DOMAIN f.sizes |-> [family |-> f.id, size |-> f.sizes[i]]]
AllSizes(list) == FlattenSeq([i \in DOMAIN list.families |-> SizesOf(list.families[i])])

(* A bug: a number of parameters may come twice in a family.               *)
DistinctTags(list) ==
  LET all == AllSizes(list)
  IN NoneTwice([i \in DOMAIN all |-> <<all[i].size.base, all[i].size.tag>>])
(* No family, no tag of the library, and no size of a family comes twice.  *)
Distinct(list) ==
  LET all == AllSizes(list)
  IN /\ NoneTwice([i \in DOMAIN list.families |-> list.families[i].id])
     /\ NoneTwice([i \in DOMAIN all |-> <<all[i].size.base, all[i].size.tag>>])
     /\ NoneTwice([i \in DOMAIN all |-> <<all[i].family, all[i].size.params>>])

(* Validate finds nothing.                                                 *)
Valid(list) ==
  /\ ValidQuants(list) /\ list.families # << >>
  /\ \A f \in ToSet(list.families) : ValidFamily(list, f)
  /\ Distinct(list)
-----------------------------------------------------------------------------
(* The rows: a sequence, whose positions are their ids.                    *)
KeyOf(entry) == <<entry.family, entry.size.params>>
RowOf(rows, entry) == {i \in DOMAIN rows : KeyOf(rows[i]) = KeyOf(entry)}
Hidden(rows) == [i \in DOMAIN rows |-> [rows[i] EXCEPT !.present = FALSE]]
Row(entry) == [family |-> entry.family, size |-> entry.size, present |-> TRUE]

(* INSERT ... ON CONFLICT (family_id, parameters) DO UPDATE.               *)
Upserted(rows, entry) ==
  IF RowOf(rows, entry) = {} THEN Append(rows, Row(entry))
  ELSE [rows EXCEPT ![Min(RowOf(rows, entry))] = Row(entry)]
(* A bug: rows that are gone from the list are deleted first.              *)
SyncDeleting(rows, list) == FoldLeft(Upserted, << >>, AllSizes(list))
(* SyncCatalogModels, one transaction.                                     *)
Sync(rows, list) == FoldLeft(Upserted, Hidden(rows), AllSizes(list))

(* CatalogModels(false): the present rows by family and parameters, as     *)
(* MatchInstalled's candidates.                                            *)
Candidates(rows, order) ==
  LET present == {i \in DOMAIN rows : rows[i].present}
      Before(i, j) == \/ order[rows[i].family] < order[rows[j].family]
                      \/ rows[i].family = rows[j].family /\ rows[i].size.params < rows[j].size.params
      ids == [n \in 1..Cardinality(present) |-> CHOOSE i \in present : Cardinality({j \in present : Before(j, i)}) = n - 1]
      size(i) == rows[ids[i]].size
  IN [i \in DOMAIN ids |-> [id |-> ids[i], base |-> size(i).base, tag |-> size(i).tag,
                            repo |-> size(i).repo, params |-> size(i).params, files |-> << >>]]
-----------------------------------------------------------------------------
(* What a list read is, and the order of its families' ids.                *)
ListOK(list) ==
  /\ list.families \in Seq(ToSet(list.families))
  /\ \A f \in ToSet(list.families) : f.sizes \in Seq(ToSet(f.sizes)) /\ \A s \in ToSet(f.sizes) : s.params \in Nat
OrderOK(order, list) ==
  \A f, g \in ToSet(list.families) : order[f.id] \in Nat /\ (order[f.id] = order[g.id] => f.id = g.id)

(* A valid list is one the rest of the program can use, whatever edition   *)
(* the database is of: each size has a row of its own, every row that was  *)
(* there still stands for the size it stood for, nothing is present that   *)
(* is not in the list, and a model pulled by a size's own tag is taken for *)
(* that size, also when the runtime rounds what it says of its parameters. *)
ListIsUsable(old, new, order, rounded) ==
  LET before == Sync(<< >>, old)
      rows == Sync(before, new)
      all == ToSet(AllSizes(new))
      pulled(e) == [name |-> [hub |-> FALSE, base |-> e.size.base, tag |-> e.size.tag, size |-> 0],
                    params |-> rounded[e.size.params], quant |-> ""]
  IN Valid(old) /\ Valid(new) =>
       /\ Cardinality({RowOf(rows, e) : e \in all}) = Cardinality(all)
       /\ {i \in DOMAIN rows : rows[i].present} = UNION {RowOf(rows, e) : e \in all}
       /\ \A i \in DOMAIN before : KeyOf(before[i]) = KeyOf(rows[i])
       /\ \A e \in all : LET m == MatchInstalled(pulled(e), Candidates(rows, order))
                         IN {m.model} = RowOf(rows, e)
=============================================================================
