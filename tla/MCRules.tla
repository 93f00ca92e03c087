------------------------------ MODULE MCRules ------------------------------
(***************************************************************************)
(* The program's calculations, each over all inputs of a small space.  A   *)
(* behaviour picks a calculation and an input of it; what is claimed of    *)
(* the calculation is an invariant of the input picked.                    *)
(***************************************************************************)
EXTENDS Naturals, Sequences, FiniteSets, SequencesExt, RuleInputs

VARIABLES
  kind,   \* the calculation
  input   \* what it is given: << >>, then the one input picked

vars == <<kind, input>>

Kinds == {"window", "state", "listing", "file", "list", "machine", "mac", "names", "folders",
          "speed", "grade", "test", "sampling", "timings", "suite", "plan", "runs", "loads",
          "table", "footer", "answer", "story", "places"}
Init == kind \in Kinds /\ input = << >>
Pick(k, S) == kind = k /\ input = << >> /\ kind' = kind /\ \E x \in S : input' = <<x>>
Holds(k, Claim(_)) == kind = k => \A i \in DOMAIN input : Claim(input[i])

-----------------------------------------------------------------------------
(* Headers: five layers or one, which attend over windows, or keep a state *)
(* or caches of their own.                                                 *)
MCPatterns == [a \in {"gemma", "cohere"} |->
                 IF a = "gemma" THEN [period |-> 2, denseFirst |-> FALSE] ELSE [period |-> 3, denseFirst |-> TRUE]]
F == INSTANCE ModelFiles WITH ProjectorRank <- <<"f16", "bf16">>,
       SlidingPatterns <- MCPatterns, RecurrentByInterval <- {"qwen"}, DefaultInterval <- 4

PlainHead == [blocks |-> 5, arch |-> "llama", heads |-> 2, kvHeads |-> 2, key |-> 0, value |-> 0, embedding |-> 8,
              window |-> 0, interval |-> 0]
PlainMeta == [nextn |-> 0, mla |-> FALSE, kvHeads |-> << >>, recurrent |-> << >>, slidingList |-> << >>,
              feedForward |-> << >>, ssm |-> FALSE, conv |-> FALSE, convKernel |-> 2, inner |-> 1, groups |-> 1,
              state |-> 1, shared |-> 0, hasPeriod |-> FALSE, period |-> 0, keySliding |-> 0, valueSliding |-> 0]
Uneven == <<2, 0, 1, 0, 2>>
Windowed ==
  {[h |-> [PlainHead EXCEPT !.blocks = blocks, !.arch = arch, !.window = window, !.key = key],
    m |-> [PlainMeta EXCEPT !.nextn = nextn, !.shared = shared, !.hasPeriod = period # 9,
             !.period = IF period = 9 THEN 0 ELSE period, !.slidingList = list, !.keySliding = swa, !.mla = mla]] :
     blocks \in {1, 5}, arch \in {"llama", "gemma", "cohere"}, window \in {0, 2}, key \in {0, 3}, nextn \in {0, 2},
     shared \in {0, 2}, period \in {0, 3, 9}, list \in {<< >>, <<TRUE>>, <<TRUE, TRUE, FALSE, TRUE, FALSE>>},
     swa \in {0, 5}, mla \in BOOLEAN}
Stateful ==
  {[h |-> [PlainHead EXCEPT !.blocks = blocks, !.arch = arch, !.interval = interval, !.kvHeads = heads, !.heads = heads],
    m |-> [PlainMeta EXCEPT !.nextn = nextn, !.ssm = ssm, !.conv = conv, !.recurrent = recurrent, !.kvHeads = perLayer,
             !.feedForward = ff]] :
     blocks \in {0, 5}, arch \in {"llama", "qwen"}, interval \in {0, 2}, heads \in {0, 2}, nextn \in {0, 2},
     ssm \in BOOLEAN, conv \in BOOLEAN, recurrent \in {<< >>, <<TRUE, FALSE, TRUE, TRUE, FALSE>>},
     perLayer \in {<< >>, <<1>>, Uneven}, ff \in {<< >>, <<0, 0, 0, 6, 0>>}}
ASSUME LayoutsAssumption == \A i \in Windowed \cup Stateful : F!HeaderOK(i.h, i.m)
LayoutHolds(i) == LET h == i.h m == i.m IN
  /\ F!EveryLayerOnce(h, m) /\ F!PlainIsOneGroup(h, m) /\ F!OneOfAPeriod(h, m)
  /\ F!CacheGrows(h, m, 2, 5, 1, 2)

-----------------------------------------------------------------------------
(* Listings of up to four files.                                           *)

Listed(path, stem, n, of, role, quant) ==
  [path |-> path, stem |-> stem, part |-> n, of |-> of, bytes |-> 10 ^ path, sha |-> path, gguf |-> role # "text",
   role |-> role, quant |-> quant]
Repository == {Listed(0, "readme", 0, 0, "text", ""), Listed(1, "a", 1, 2, "model", "q4"), Listed(2, "a", 2, 2, "model", "q4"),
               Listed(3, "a", 2, 3, "model", "q4"), Listed(4, "b", 0, 0, "model", "q4"),
               Listed(5, "c", 0, 0, "model", "q8"), Listed(6, "m", 0, 0, "projector", "bf16"),
               Listed(7, "n", 0, 0, "projector", "f16"), Listed(8, "i", 0, 0, "none", "q4")}
Listings == {[files |-> files, quants |-> quants] :
               files \in UNION {SetToSeqs(S) : S \in {T \in SUBSET Repository : Cardinality(T) <= 4}},
               quants \in {<<"q4", "q8">>, <<"q8">>}}
ListingHolds(i) == F!SelectionIsWhole(i.files, i.quants)

-----------------------------------------------------------------------------
(* Files of up to four pairs.                                              *)
G == INSTANCE GGUF WITH Tokenizer <- {"tok", "tok2"}, Architecture <- "arch", Required <- {"blocks"}, Projectors <- {"clip"}

Entry(name) == [name |-> name, nameBytes |-> 2, lengthBytes |-> 1, bodyBytes |-> 2, bad |-> "no", long |-> FALSE]
PairKinds == {Entry("arch"), Entry("blocks"), [Entry("tok") EXCEPT !.bodyBytes = 9], [Entry("tok2") EXCEPT !.bodyBytes = 3],
              [Entry("other") EXCEPT !.long = TRUE], [Entry("x") EXCEPT !.bad = "value"], [Entry("y") EXCEPT !.bad = "name"]}
Files == {[start |-> 3, bad |-> bad, arch |-> arch, pairs |-> pairs] :
            bad \in {FALSE}, arch \in {"llama", "clip"}, pairs \in UNION {[1..n -> PairKinds] : n \in 0..4}}
         \cup {[start |-> 3, bad |-> TRUE, arch |-> "llama", pairs |-> <<Entry("arch")>>]}
ASSUME FilesAssumption == \A h \in Files : G!HeaderOK(h)
SizeOf(h) == FoldLeft(LAMBDA n, p : n + p.nameBytes + p.bodyBytes, h.start + 2, h.pairs)
HeaderHolds(h) ==
  /\ G!CutNeverChanges(h, SizeOf(h)) /\ G!EarlyStopReadsTheSame(h, SizeOf(h))
  /\ G!TransferEndsWithTheParse(h, SizeOf(h), 1, 8)

-----------------------------------------------------------------------------
(* Two editions of the curated list, of valid and nearly valid sizes.      *)
C == INSTANCE Curated WITH Purposes <- {"chat", "code"}

Size(params, base, tag) ==
  [params |-> params, active |-> 0, ctx |-> 8, base |-> base, tag |-> tag, repo |-> "r", hfBase |-> "h", sameAs |-> {}, quant |-> ""]
SizeKinds == {Size(10, "a", "1b"), Size(11, "a", "2b"), Size(10, "b", "1b"), [Size(10, "a", "3b") EXCEPT !.quant = "q8"],
              [Size(40, "a", "4b") EXCEPT !.active = 40], [Size(40, "a", "4b") EXCEPT !.hfBase = "r"]}
Family(id, sizes) ==
  [id |-> id, named |-> TRUE, dated |-> TRUE, sourced |-> TRUE, licence |-> [spdx |-> "mit", name |-> FALSE, url |-> ""],
   purposes |-> <<"chat">>, sizes |-> sizes]
Sizes == {<<s>> : s \in SizeKinds} \cup {<<s, r>> : s \in SizeKinds, r \in SizeKinds}
Editions == {[quants |-> <<"q4">>, families |-> f] :
               f \in {<<Family("f", s)>> : s \in Sizes}
                 \cup {<<Family("f", <<s>>), Family(id, <<r>>)>> : s \in SizeKinds, r \in SizeKinds, id \in {"f", "g"}}}
Rounded == [p \in {10, 11, 40} |-> IF p = 11 THEN 12 ELSE p]
Lists == {[old |-> old, new |-> new] :
            old \in {e \in Editions : Len(e.families) = 1 /\ Len(e.families[1].sizes) = 1}, new \in Editions}
ASSUME ListsAssumption == \A i \in Lists : C!ListOK(i.old) /\ C!ListOK(i.new) /\ C!OrderOK([f |-> 2, g |-> 1], i.new)
ListsHold(i) == C!ListIsUsable(i.old, i.new, [f |-> 2, g |-> 1], Rounded)

-----------------------------------------------------------------------------
(* Tables of a column of texts and one of numbers, in up to nine rows, and *)
(* structures of up to three fields.                                       *)
T == INSTANCE Parquet WITH Width <- [text |-> 0, number |-> 2], WordBytes <- 1, NotText <- {255}, MaxDepth <- 3, MaxItems <- 16

CellTexts == {{}, {<<65>>}, {<<66, 66, 66>>}}
Written == UNION {[1..n -> CellTexts] : n \in {1, 3}} \cup {[i \in 1..9 |-> IF i % 4 = 0 THEN {} ELSE {<<65 + (i % k)>>}] : k \in {1, 3}}
Writers == {[version |-> how[1], codec |-> how[2], flagged |-> how[3], dictionary |-> d, runs |-> r, perPage |-> per[1], perGroup |-> per[2]] :
              how \in {<<1, "none", TRUE>>, <<1, "snappy", TRUE>>, <<2, "none", TRUE>>, <<2, "snappy", TRUE>>, <<2, "snappy", FALSE>>},
              d \in BOOLEAN, r \in {"runs", "packed", "both"}, per \in {<<2, 9>>, <<9, 9>>, <<9, 2>>}}
NumbersBeside(cells) == [i \in DOMAIN cells |-> {<<i, i % 2>>}]
ParquetTables ==
  {[columns |-> <<[name |-> "name", type |-> "text", optional |-> y[1]], [name |-> "score", type |-> "number", optional |-> ~y[1]]>>,
    table |-> <<y[2], NumbersBeside(y[2])>>, writer |-> y[3]] :
     y \in {z \in BOOLEAN \X Written \X Writers : z[1] \/ {} \notin ToSet(z[2])}}
Leaves == {T!Integer(0), T!Integer(-65), T!Integer(300), T!Bool(TRUE), T!Bool(FALSE), T!Bytes(<<>>), T!Bytes(<<7, 0>>)}
Deeper == {T!Struct({}), T!Struct({<<3, T!Integer(5)>>, <<4, T!Bool(FALSE)>>}), T!List(<<>>), T!List(<<T!Bool(TRUE), T!Bool(FALSE)>>),
           T!List([i \in 1..15 |-> T!Integer(i)]), T!List([i \in 1..14 |-> T!Integer(-i)]),
           T!List(<<T!Struct({<<20, T!Bytes(<<1>>)>>}), T!Struct({})>>)}
Footers == {[value |-> T!Struct({<<1, a>>, <<x, b>>, <<18, c>>}), steps |-> steps] :
              a \in Leaves \cup Deeper, b \in Leaves \cup Deeper, c \in {T!Integer(1), T!Bool(TRUE)}, x \in {2, 16, 17}, steps \in BOOLEAN}

-----------------------------------------------------------------------------
(* Answers of up to three results, of each source, and what is stored of   *)
(* up to three answers.                                                    *)
Metric(source, metric, purposes, higher, percent) ==
  [source |-> source, metric |-> metric, purposes |-> purposes, higher |-> higher, percent |-> percent]
V == INSTANCE PublicValues WITH
  Metrics <- <<Metric("hf_evals", "gpqa", <<"reasoning", "chat">>, TRUE, TRUE), Metric("arena", "text", <<"chat">>, TRUE, FALSE),
               Metric("epoch", "errors", <<"reasoning">>, FALSE, TRUE)>>,
  Excluded <- {"board"}, Alias <- <<1, 2, 3, 1, 0>>, MinCovered <- 2, Sway <- 15, Whole <- 1200
ASSUME ConfigAssumption == V!ConfigOK

OwnReport == [metric |-> "gpqa", value |-> {817}, verified |-> FALSE, pending |-> FALSE, host |-> "own", date |-> 1]
Reports == {OwnReport, [OwnReport EXCEPT !.value = {82000}, !.date = 2], [OwnReport EXCEPT !.verified = TRUE], [OwnReport EXCEPT !.pending = TRUE, !.date = 4],
            [OwnReport EXCEPT !.host = "board", !.date = 4], [OwnReport EXCEPT !.metric = "other"], [OwnReport EXCEPT !.date = 0], [OwnReport EXCEPT !.value = {}]}
BoardRow(name, rank, value) == [name |-> name, rank |-> rank, value |-> value, date |-> IF rank = {} THEN 9 ELSE V!Max(rank)]
BoardRows == {BoardRow(1, {3}, {1200}), BoardRow(4, {1}, {1300}), BoardRow(4, {}, {1250}), BoardRow(2, {2}, {1250}), BoardRow(2, {1}, {}), BoardRow(5, {2}, {1})}
EpochRow(name, value, date) == [name |-> name, value |-> value, date |-> date]
EpochRows == {EpochRow(1, {300}, 1), EpochRow(4, {20000}, 2), EpochRow(4, {}, 3), EpochRow(2, {200}, 0), EpochRow(2, {300}, 2), EpochRow(5, {1}, 1)}
UpTo(n, S) == UNION {[1..k -> S] : k \in 0..n}
AnswerOf(source, name, metric, items, date) == [source |-> source, name |-> name, metric |-> metric, items |-> items, date |-> date]
Answers ==
  {AnswerOf("hf_evals", 1, "", items, date) : items \in UpTo(3, Reports), date \in {0, 3}}
  \cup {AnswerOf("arena", 0, "text", items, 0) : items \in UpTo(3, BoardRows)}
  \cup {AnswerOf("epoch", 0, "errors", items, date) : items \in UpTo(3, EpochRows), date \in {0, 3}}
AnswersKept ==
  {AnswerOf("hf_evals", n, "", items, 3) : n \in 1..2, items \in {<<>>, <<OwnReport>>, <<[OwnReport EXCEPT !.verified = TRUE]>>, <<[OwnReport EXCEPT !.value = {82000}]>>}}
  \cup {AnswerOf("arena", 0, "text", items, 0) : items \in {<<BoardRow(1, {3}, {1200}), BoardRow(2, {2}, {1250}), BoardRow(3, {5}, {1100})>>,
                                                     <<BoardRow(4, {1}, {1300}), BoardRow(1, {3}, {1200})>>, <<BoardRow(2, {2}, {1200}), BoardRow(4, {2}, {1200})>>}}
  \cup {AnswerOf("epoch", 0, "errors", items, 3) : items \in {<<EpochRow(4, {300}, 1), EpochRow(2, {20000}, 1)>>, <<EpochRow(1, {20000}, 2), EpochRow(3, {200}, 0), EpochRow(2, {300}, 1)>>}}
ASSUME AnswersAssumption == \A a \in Answers \cup AnswersKept : V!AnswerOK(a)
Stories ==
  {[answers |-> answers, enabled |-> enabled, sizes |-> sizes, purposes |-> purposes] :
     answers \in UpTo(3, AnswersKept) \ {<<>>}, enabled \in {{"hf_evals", "arena", "epoch"}, {"hf_evals", "epoch"}},
     sizes \in {1..3}, purposes \in {<<"chat", "reasoning">>, <<"reasoning", "chat">>}}
Standings ==
  {[values |-> values, sizes |-> sizes] : values \in UNION {[1..n -> {817, 81700, 82000}] : n \in 4..6} \cup [1..7 -> {817, 900}], sizes \in {1..7, 2..7}}
StandingOf(i) ==
  {V!Present(V!Row("hf_evals", s, s, "gpqa", i.values[s], "maker", 1), TRUE) : s \in DOMAIN i.values}
PlacesHold(i) ==
  \A view \in {V!View(StandingOf(i), {"hf_evals"}, i.sizes)} : V!PlacesFollow(view, Metric("hf_evals", "gpqa", <<"chat">>, TRUE, TRUE))
StoryIsTold(i) == V!StoryHolds(i.answers, i.enabled, i.sizes, i.purposes)

-----------------------------------------------------------------------------
Layouts == Pick("window", Windowed) \/ Pick("state", Stateful)
Repositories == Pick("listing", Listings) \/ Pick("file", Files) \/ Pick("list", Lists)
Detections == Pick("machine", Machines) \/ Pick("mac", Macs) \/ Pick("names", NameLists) \/ Pick("folders", Folders)
Figuring == Pick("speed", Speeds) \/ Pick("grade", Graded) \/ Pick("test", Tested)
Benchmarking ==
  Pick("sampling", Sampling) \/ Pick("timings", TimedAnswers) \/ Pick("suite", BenchSuites) \/ Pick("plan", Plannings)
  \/ Pick("runs", Histories) \/ Pick("loads", LoadWorlds)
TableFiles == Pick("table", ParquetTables) \/ Pick("footer", Footers)
PublicSources == Pick("answer", Answers) \/ Pick("story", Stories) \/ Pick("places", Standings)
Next == Layouts \/ TableFiles \/ PublicSources \/ Repositories \/ Detections \/ Figuring \/ Benchmarking
Spec == Init /\ [][Next]_vars

(* Whatever a repository and its files hold and whichever edition of the   *)
(* list is read: a layout counts every layer once and never keeps less for *)
(* a longer conversation, the files of a size are whole and one of each    *)
(* quant, a header read by ranges says what the whole file says, and each  *)
(* size of a valid list has a row and the installed models of its tag.     *)
CatalogueRules ==
  /\ Holds("window", LayoutHolds) /\ Holds("state", LayoutHolds)
  /\ Holds("listing", ListingHolds) /\ Holds("file", HeaderHolds) /\ Holds("list", ListsHold)

(* Whatever table was written, in whichever way a writer may: it is read   *)
(* as it was written, in the columns asked for, and a file that lost part  *)
(* of a page, or a page, is refused.                                       *)
TableRules == Holds("table", T!TableReadsBack) /\ Holds("footer", T!ThriftReadsBack)

(* Whatever the tools answer and in whichever order the cards are found:   *)
(* each card is read once and nothing untrue is said of it, it is expected *)
(* to run with some backend, and the class of the machine and its budget   *)
(* are those of the best card there is.                                    *)
HardwareRules ==
  /\ Holds("machine", MachineHolds) /\ Holds("mac", MacHolds)
  /\ Holds("names", P!NamesAreOfTheirSection) /\ Holds("folders", FolderHolds)

(* Whatever is in the tables that were accepted, and whatever was measured *)
(* on the machine: a speed is a range of rates, never faster than the      *)
(* slowest card a name may stand for, never wider for a measurement and    *)
(* never without it; a grade is earned at both bars, says measured only of *)
(* what was, and rests on a prompt long enough for the purpose.            *)
FigureRules ==
  /\ Holds("speed", Sp!SpeedHolds) /\ Holds("grade", GradedHolds) /\ Holds("test", TestedHolds)

(* Whatever a benchmark's tools and its runtime answer: its speeds are of   *)
(* the work that was done and of no odd run, what it took is what the      *)
(* card's own counter rose by, another model is noticed, and every doubt   *)
(* is said; its prompts fit, its length is within the plan's, what it      *)
(* records of its load is true of that load and of no earlier one, and its *)
(* row reads back as it was, is compared with runs of the same             *)
(* configuration, and counts until a later one of it.                      *)
BenchRules ==
  /\ Holds("sampling", SamplingHolds) /\ Holds("timings", TimedHold) /\ Holds("suite", Be!SuiteHolds)
  /\ Holds("plan", PlanningHolds) /\ Holds("runs", Re!RecordsHold)
  /\ Holds("loads", Lo!RecordedIsTrue)

(* plan.go:198: a larger context is the user's to pick, the model's own is *)
(* not, so a prompt is said to need a larger context when one would do.    *)
HintIsOfUse == Holds("plan", Be!HintHelps)

(* derive.go:386: the drivers are left out of the fingerprint, for they    *)
(* change without the hardware changing.                                   *)
FingerprintIsOfTheMachine == Holds("machine", SamePrint)

(* Whichever answers the sources of public values give, in whichever order *)
(* and part by part: the best result of a model stands for it, what left a *)
(* source is not shown, a card's line is the fittest there is, and what    *)
(* makers say of themselves, or nobody says, moves no recommendation.      *)
PublicRules ==
  Holds("answer", V!TheBestStands) /\ Holds("story", StoryIsTold) /\ Holds("places", PlacesHold)
=============================================================================
