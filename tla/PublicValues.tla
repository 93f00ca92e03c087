---------------------------- MODULE PublicValues ----------------------------
(***************************************************************************)
(* What other people published about the catalogue's models: the values    *)
(* taken from an answer of each source (internal/catalog/external:         *)
(* hfevals.go, arena.go, epoch.go), how a read replaces what was stored    *)
(* (internal/store/external.go), what is shown of it (public.go) and what  *)
(* the recommendation engine makes of it (internal/recommend).             *)
(*                                                                         *)
(* A number that may be missing is a set.  A value is in thousandths, and  *)
(* a name is a number: 0 stands for any in a scope.                        *)
(***************************************************************************)
EXTENDS Integers, Sequences, FiniteSets, SequencesExt, FiniteSetsExt

CONSTANTS
  Metrics,    \* the map's entries, in its order
  Excluded,   \* the publishers never ingested
  Alias,      \* a source's name for a model -> a size, 0 for none
  MinCovered, \* the sizes a metric has to cover to be scored
  Sway,       \* how much public data may move a purpose's fit, in hundredths
  Whole       \* what a fit is counted in; a multiple of all the halves below

MetricOf(source, metric) == {m \in ToSet(Metrics) : m.source = source /\ m.metric = metric}
Listed(source, metric) == MetricOf(source, metric) # {}
Scorable(provenance) == provenance \in {"verified", "independent", "crowd"}
Has(best, row) == \E r \in ToSet(best) : r.metric = row.metric /\ r.size = row.size
Put(best, row, Keep(_, _)) ==
  IF Has(best, row) THEN [i \in DOMAIN best |-> IF best[i].metric = row.metric /\ best[i].size = row.size THEN Keep(best[i], row) ELSE best[i]]
  ELSE Append(best, row)
Row(source, name, size, metric, value, provenance, date) ==
  [source |-> source, name |-> name, size |-> size, metric |-> metric, value |-> value, provenance |-> provenance, date |-> date]

-----------------------------------------------------------------------------
(* parseHFModel: of one repository's results, those that are merged, read, *)
(* of a publisher not excluded and of a metric of the map; for a metric a  *)
(* verified one over the maker's, then the later date.                     *)
LaterOnly(prev, row) == IF row.date > prev.date THEN row ELSE prev
VerifiedThenLater(prev, row) ==
  IF (row.provenance = "verified") # (prev.provenance = "verified")
  THEN IF row.provenance = "verified" THEN row ELSE prev
  ELSE IF row.date > prev.date THEN row ELSE prev
DateOf(item, changed) == IF item.date # 0 THEN item.date ELSE changed
Taken(item, changed) ==
  /\ item.value # {} /\ ~item.pending /\ item.host \notin Excluded
  /\ Listed("hf_evals", item.metric) /\ DateOf(item, changed) # 0
HFRow(repo, size, item, changed) ==
  Row("hf_evals", repo, size, item.metric, Max(item.value), IF item.verified THEN "verified" ELSE "maker", DateOf(item, changed))
HFModel(repo, size, items, changed) ==
  FoldLeft(LAMBDA best, item : IF Taken(item, changed) THEN Put(best, HFRow(repo, size, item, changed), VerifiedThenLater) ELSE best,
           << >>, items)

(* arenaBoard: the rows of a board by rank, those without one last; of two *)
(* of one size the better-ranked stands.                                   *)
Ahead(a, b) == a.rank # {} /\ (b.rank = {} \/ Max(a.rank) < Max(b.rank))
\* A bug: the rows in the order the board lists them.
AsListed(board) == board
ByRank(board) ==
  LET Before(i, j) == Ahead(board[i], board[j]) \/ (~Ahead(board[j], board[i]) /\ i < j)
  IN [n \in DOMAIN board |-> board[CHOOSE i \in DOMAIN board : Cardinality({j \in DOMAIN board : Before(j, i)}) = n - 1]]
First(prev, row) == prev
ArenaBoard(metric, board) ==
  FoldLeft(LAMBDA best, r : IF Alias[r.name] # 0 /\ r.value # {} /\ r.date # 0
                            THEN Put(best, Row("arena", r.name, Alias[r.name], metric, Max(r.value), "crowd", r.date), First) ELSE best,
           << >>, ByRank(board))

(* epoch: several runs of one model, the latest stands, and the later row  *)
(* of two of one day.                                                      *)
Latest(prev, row) == IF row.date >= prev.date THEN row ELSE prev
EpochFile(metric, recs, published) ==
  FoldLeft(LAMBDA best, r : IF Alias[r.name] # 0 /\ r.value # {} /\ DateOf(r, published) # 0
                            THEN Put(best, Row("epoch", r.name, Alias[r.name], metric, Max(r.value), "independent", DateOf(r, published)), Latest)
                            ELSE best,
           << >>, recs)

-----------------------------------------------------------------------------
(* ReplaceExternal: rows are stored as present, by their source, name and  *)
(* metric; the others in the scope of the read have left their source.     *)
InScope(scope, v) ==
  v.source = scope.source /\ (scope.name = 0 \/ v.name = scope.name) /\ (scope.metric = "" \/ v.metric = scope.metric)
SameKey(a, b) == a.source = b.source /\ a.name = b.name /\ a.metric = b.metric
Present(row, is) == [row |-> row, present |-> is]
\* A bug: a value that is not in the answer any more stays as it was.
UpsertExternal(stored, scope, rows) ==
  {v \in stored : \A r \in ToSet(rows) : ~SameKey(v.row, r)} \cup {Present(r, TRUE) : r \in ToSet(rows)}
ReplaceExternal(stored, scope, rows) ==
  {IF InScope(scope, v.row) THEN Present(v.row, FALSE) ELSE v : v \in {x \in stored : \A r \in ToSet(rows) : ~SameKey(x.row, r)}}
  \cup {Present(r, TRUE) : r \in ToSet(rows)}

-----------------------------------------------------------------------------
(* NewView: present values of enabled sources, of metrics on the map and   *)
(* of sizes still in the catalogue.                                        *)
View(values, enabled, sizes) ==
  {v.row : v \in {x \in values : x.present /\ x.row.source \in enabled /\ x.row.size \in sizes /\ Listed(x.row.source, x.row.metric)}}
Of(view, m) == {v \in view : v.source = m.source /\ v.metric = m.metric}
\* A percentage published as a fraction is read as one.
Comparable(m, value) == IF m.percent /\ value <= 1000 THEN 100 * value ELSE value

\* Scoring: per purpose, the metrics with values the engine may score.
\* (the last by name, were there two of a size).
LastOfEach(values, m) ==
  {<<v.size, Comparable(m, v.value)>> : v \in {x \in values : \A y \in values : y.size = x.size => y.name <= x.name}}
ScoredOfAll(view, m) == LastOfEach(Of(view, m), m)
Scored(view, m) == LastOfEach({v \in Of(view, m) : Scorable(v.provenance)}, m)
Scoring(view, purpose) ==
  [i \in {k \in DOMAIN Metrics : purpose \in ToSet(Metrics[k].purposes) /\ Scored(view, Metrics[k]) # {}} |->
     [metric |-> Metrics[i].metric, higher |-> Metrics[i].higher, values |-> Scored(view, Metrics[i])]]

Better(m, a, b) == IF m.higher THEN Comparable(m, a) > Comparable(m, b) ELSE Comparable(m, a) < Comparable(m, b)
Rank(view, m, v) == 1 + Cardinality({p \in Of(view, m) : Better(m, p.value, v.value)})
Ceiling(a, b) == (a + b - 1) \div b
Position(rank, n) ==
  CASE n <= 1 -> "alone"
    [] n > 1 /\ n < 6 -> "place"
    [] n >= 6 /\ rank <= Ceiling(n, 3) -> "strongest"
    [] n >= 6 /\ rank > Ceiling(n, 3) /\ rank <= Ceiling(2 * n, 3) -> "middle"
    [] OTHER -> "weaker"
Entry(view, m, v) ==
  LET n == Cardinality(Of(view, m)) rank == Rank(view, m, v) IN
  [metric |-> m.metric, purposes |-> m.purposes, rated |-> n, rank |-> rank, scored |-> Scorable(v.provenance), position |-> Position(rank, n), of |-> v]
\* Entries: a size's values, each at its metric's place on the map.
Entries(view, size) ==
  UNION {{<<i, Entry(view, Metrics[i], v)>> : v \in {x \in Of(view, Metrics[i]) : x.size = size}} : i \in DOMAIN Metrics}

\* Line: of the first purpose that something speaks to, what may be scored
\* before the maker's own, then what most sizes are compared on, the first
\* of equals.
LineByRated(a, b) == a.rated > b.rated
Outdoes(a, b) == (a.scored /\ ~b.scored) \/ (a.scored = b.scored /\ a.rated > b.rated)
IsBest(e, entries) == \A d \in entries : ~Outdoes(d[2], e[2]) /\ (Outdoes(e[2], d[2]) \/ e[1] <= d[1])
Best(view, size, purpose) ==
  LET entries == {e \in Entries(view, size) : purpose \in ToSet(e[2].purposes)} IN {e[2] : e \in {d \in entries : IsBest(d, entries)}}
Line(view, size, purposes) ==
  LET spoken == {i \in DOMAIN purposes : Best(view, size, purposes[i]) # {}}
  IN IF spoken = {} THEN {} ELSE Best(view, size, purposes[Min(spoken)])

-----------------------------------------------------------------------------
(* publicAdjustment: the average place of a size among those a metric      *)
(* scores, from 1 less Sway percent for the last to 1 and as many for the  *)
(* first; a tie is half a place.                                           *)
Values(pm, size) == {v[2] : v \in {w \in pm.values : w[1] = size}}
Place(pm, size) ==
  LET mine == CHOOSE x \in Values(pm, size) : TRUE
      better == Cardinality({v \in pm.values : v[1] # size /\ IF pm.higher THEN v[2] > mine ELSE v[2] < mine})
      equal == Cardinality({v \in pm.values : v[1] # size /\ v[2] = mine})
  IN Whole - ((Whole \div 2) * (2 * better + equal)) \div (Cardinality(pm.values) - 1)
Moved(average) == Whole + (Sway * (2 * average - Whole)) \div 100
Covered(pm) == Cardinality(pm.values) >= Max({MinCovered, 2})
Average(places) == SumFunction(places) \div Cardinality(DOMAIN places)
\* A bug: the sizes a metric does not compare count as its last.
MissingIsLast(scoring, size) ==
  LET rated == {i \in DOMAIN scoring : Covered(scoring[i])}
  IN IF rated = {} THEN Whole
     ELSE Moved(Average([i \in rated |-> IF Values(scoring[i], size) # {} THEN Place(scoring[i], size) ELSE 0]))
Adjustment(scoring, size) ==
  LET rated == {i \in DOMAIN scoring : Values(scoring[i], size) # {} /\ Covered(scoring[i])}
  IN IF rated = {} THEN Whole ELSE Moved(Average([i \in rated |-> Place(scoring[i], size)]))

-----------------------------------------------------------------------------
(* One answer of a source, and what is stored after several.               *)
Rows(answer) ==
  CASE answer.source = "hf_evals" -> HFModel(answer.name, answer.name, answer.items, answer.date)
    [] answer.source = "arena" -> ArenaBoard(answer.metric, answer.items)
    [] answer.source = "epoch" -> EpochFile(answer.metric, answer.items, answer.date)
\* What the configuration gives, in the scale the model counts in.
ConfigOK ==
  /\ Metrics \in Seq(ToSet(Metrics)) /\ MinCovered \in Int
  /\ Sway \in Nat /\ Whole \in Nat /\ Whole % 100 = 0
\* What an answer can be: dates are days, a value and a rank there or not.
Maybe(found, S) == \A x \in found : x \in S /\ found = {x}
AnswerOK(a) ==
  /\ Len(a.items) \in Nat /\ DOMAIN a.items = 1..Len(a.items) /\ a.date \in Nat
  /\ \A i \in DOMAIN a.items : a.items[i].date \in Nat /\ Maybe(a.items[i].value, Int)
  /\ \/ a.source = "hf_evals" /\ a.name # 0 /\ a.metric = "" /\ \A i \in DOMAIN a.items : a.items[i].verified \in BOOLEAN
     \/ a.source = "arena" /\ a.name = 0 /\ a.metric # "" /\ \A i \in DOMAIN a.items : Maybe(a.items[i].rank, Nat)
     \/ a.source = "epoch" /\ a.name = 0 /\ a.metric # ""
Stored(answers) ==
  FoldLeft(LAMBDA values, a : ReplaceExternal(values, [source |-> a.source, name |-> a.name, metric |-> a.metric], Rows(a)), {}, answers)
PresentRows(stored) == {v.row : v \in {x \in stored : x.present}}

(* Of an answer, one value per metric and size is stored, whichever the    *)
(* order of its results: no readable one of the metric and size that is    *)
(* verified where this is the maker's, later where neither or both are,    *)
(* better ranked, or later, is left for it.                                *)
Candidates(answer, row) ==
  LET of == {answer.items[i] : i \in DOMAIN answer.items} IN
  CASE answer.source = "hf_evals" ->
         {[verified |-> r.verified, date |-> DateOf(r, answer.date), rank |-> {}] : r \in {x \in of : x.metric = row.metric /\ Taken(x, answer.date)}}
    [] answer.source = "arena" ->
         {[verified |-> FALSE, date |-> r.date, rank |-> r.rank] : r \in {x \in of : Alias[x.name] = row.size /\ x.value # {} /\ x.date # 0}}
    [] answer.source = "epoch" ->
         {[verified |-> FALSE, date |-> DateOf(r, answer.date), rank |-> {}] :
            r \in {x \in of : Alias[x.name] = row.size /\ x.value # {} /\ DateOf(x, answer.date) # 0}}
Outranks(source, a, b) ==
  CASE source = "arena" -> Ahead(a, b)
    [] source # "arena" -> (a.verified /\ ~b.verified) \/ (a.verified = b.verified /\ a.date > b.date)
OfRow(answer, row) ==
  {c \in Candidates(answer, row) : c.date = row.date /\ (c.verified <=> row.provenance = "verified")}
TheBestStands(answer) ==
  \A rows \in {Rows(answer)} :
    /\ \A i, j \in DOMAIN rows : (rows[i].metric = rows[j].metric /\ rows[i].size = rows[j].size) => i = j
    /\ \A i \in DOMAIN rows : \E c \in OfRow(answer, rows[i]) :
         \A d \in Candidates(answer, rows[i]) : ~Outranks(answer.source, d, c)

(* After any answers: the last of a part is what is present of it, and the *)
(* other parts are as they were; a size has one value of a metric, from a  *)
(* source in use.                                                          *)
LastReadStands(answers) ==
  \A after \in {Stored(answers)}, before \in {Stored(Front(answers))} :
    LET last == Last(answers) IN
    /\ {v \in PresentRows(after) : InScope(last, v)} = ToSet(Rows(last))
    /\ {v \in PresentRows(after) : ~InScope(last, v)} = {v \in PresentRows(before) : ~InScope(last, v)}
    /\ \A v \in before : \E w \in after : SameKey(v.row, w.row)
OneOfEach(view) ==
  \A v, w \in view : (v.source = w.source /\ v.metric = w.metric /\ v.size = w.size) => v = w

(* Of what is shown: the places of a metric are those of its values, words *)
(* never better for a worse one; the line of a card speaks to the first    *)
(* purpose that anything of the size does, and is the maker's own only     *)
(* where nothing that may be scored speaks to it.                          *)
Words == <<"strongest", "middle", "weaker">>
WorstOf(word) == CHOOSE i \in 1..3 : Words[i] = word
PlacesFollow(view, m) ==
  \A v, w \in Of(view, m) : \A a \in {Entry(view, m, v)}, b \in {Entry(view, m, w)} :
    /\ Better(m, v.value, w.value) <=> a.rank < b.rank
    /\ a.rank \in 1..a.rated /\ (a.position \in ToSet(Words) <=> a.rated >= 6)
    /\ (a.rated >= 6 /\ a.rank <= b.rank) => WorstOf(a.position) <= WorstOf(b.position)
Speaks(view, size, p) == {v \in view : v.size = size /\ \E m \in MetricOf(v.source, v.metric) : p \in ToSet(m.purposes)}
LineIsTheFittest(view, size, purposes) ==
  \A line \in {Line(view, size, purposes)} :
    /\ line = {} <=> \A i \in DOMAIN purposes : Speaks(view, size, purposes[i]) = {}
    /\ \A e \in line : \E i \in DOMAIN purposes :
         /\ e.of \in Speaks(view, size, purposes[i])
         /\ \A j \in 1..(i - 1) : Speaks(view, size, purposes[j]) = {}
         /\ e.scored \/ \A v \in Speaks(view, size, purposes[i]) : ~Scorable(v.provenance)

(* What the engine makes of it: nothing of what makers report themselves;  *)
(* a size moves by at most the weight and only where it is compared, the   *)
(* sizes a metric compares as much up as down, and a size at least as good *)
(* wherever both are compared, and nowhere alone, is not moved further     *)
(* down.                                                                   *)
Compared(scoring, size) == {i \in DOMAIN scoring : Covered(scoring[i]) /\ \E v \in scoring[i].values : v[1] = size}
AsGood(pm, a, b) == \A x \in Values(pm, a), y \in Values(pm, b) : IF pm.higher THEN x >= y ELSE x <= y
AdjustmentIsFair(scoring, sizes) ==
  \A adj \in {[s \in sizes |-> Adjustment(scoring, s)]} :
    /\ \A s \in sizes : 100 * adj[s] \in ((100 - Sway) * Whole)..((100 + Sway) * Whole) /\ (Compared(scoring, s) = {} => adj[s] = Whole)
    /\ \A a, b \in sizes :
         (Compared(scoring, a) = Compared(scoring, b) /\ \A i \in Compared(scoring, a) : AsGood(scoring[i], a, b)) => adj[a] >= adj[b]
UpAsMuchAsDown(scoring, sizes) ==
  Cardinality(DOMAIN scoring) = 1 => SumFunction([s \in sizes |-> Adjustment(scoring, s)]) = Whole * Cardinality(sizes)
MakersOwnIsNotScored(view, purpose) == Scoring(view, purpose) = Scoring({v \in view : v.provenance # "maker"}, purpose)

StoryHolds(answers, enabled, sizes, purposes) ==
  /\ LastReadStands(answers)
  /\ \A view \in {View(Stored(answers), enabled, sizes)} :
       /\ OneOfEach(view)
       /\ \A i \in DOMAIN Metrics : PlacesFollow(view, Metrics[i])
       /\ \A s \in sizes : LineIsTheFittest(view, s, purposes)
       /\ \A i \in DOMAIN purposes :
            /\ MakersOwnIsNotScored(view, purposes[i])
            /\ AdjustmentIsFair(Scoring(view, purposes[i]), sizes) /\ UpAsMuchAsDown(Scoring(view, purposes[i]), sizes)
=============================================================================
