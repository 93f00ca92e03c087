------------------------------ MODULE Recommend ------------------------------
(***************************************************************************)
(* The recommendation engine (internal/recommend) behind                  *)
(* GET /api/recommend: at most MaxRecommendations cards for a machine, the *)
(* purposes asked, what is installed and the user's preferences.           *)
(*                                                                         *)
(* A catalogue entry is a size: its family, its purposes with the most     *)
(* credible first, its effective parameters and its weights files.  Scores *)
(* are squares of the code's, in whole numbers.  The sentences, the        *)
(* confidence and the public signals are left out, an estimated speed is   *)
(* the middle of its range, and the speed a purpose needs is the stricter  *)
(* of its two bars (the stream's and the wait's).                          *)
(***************************************************************************)
EXTENDS Fit, FiniteSets, FiniteSetsExt, SequencesExt

CONSTANTS
    Machines, Catalogues, Inventories, Measurements, Requests,
    MaxRecommendations,
    PurposeContext,     \* of each purpose
    LongContextMin,
    PurposeFactor,      \* of a purpose's position in a family's list
    FitFactor,          \* of each category that can be a card
    SpeedFactorTop, SpeedFloor, UnknownSpeedFactor,
    NeededRate,         \* the speed at which a purpose's factor is the top
    SizeFactor,         \* of effective parameters
    NoticeableSize, NoticeableSpeed, NoticeableContext  \* tenths

ASSUME MachinesAssumption ==
    Machines \subseteq MachineType /\ \A m \in Machines : InOrder(m.gpus)

\* The factors of DefaultConfig are numbers from 0, a purpose's at least
\* PurposeFloor; what is asked for is a purpose (cleanPurposes); and a size's
\* id is its row's key.
ASSUME PurposesAssumption ==
    /\ IsFiniteSet(DOMAIN PurposeContext) /\ "chat" \in DOMAIN PurposeContext
    /\ PurposeContext \in [DOMAIN PurposeContext -> Nat]
    /\ NeededRate \in [DOMAIN PurposeContext -> Nat \ {0}]
    /\ \A i \in DOMAIN PurposeFactor : PurposeFactor[i] \in Nat \ {0}
ASSUME FactorsAssumption ==
    /\ FitFactor \in [DOMAIN FitFactor -> Nat]
    /\ {"fits_with_headroom", "fits", "needs_cpu_offload"} \subseteq DOMAIN FitFactor
    /\ SizeFactor \in [DOMAIN SizeFactor -> Nat]
    /\ SpeedFactorTop \in Nat /\ SpeedFloor \in Nat /\ UnknownSpeedFactor \in Nat
    /\ MaxRecommendations \in Nat /\ LongContextMin \in Nat
ASSUME CataloguesAssumption ==
    \A cat \in Catalogues :
        /\ IsFiniteSet(DOMAIN cat)
        /\ \A i, j \in DOMAIN cat : cat[i].id = cat[j].id => i = j
        /\ \A entry \in Range(cat) :
              /\ entry.id \in Nat /\ Range(entry.files) \subseteq FileType
              /\ DOMAIN entry.purposes \subseteq DOMAIN PurposeFactor
              /\ entry.billions \in DOMAIN SizeFactor
ASSUME MeasurementsAssumption ==
    \A known \in Measurements : \A ms \in known : ms.rate \in Nat
ASSUME RequestsAssumption ==
    \A r \in Requests : r.purposes \subseteq DOMAIN PurposeContext /\ r.minContext \in Nat

NoRequest == [purposes |-> {}, current |-> 0, minContext |-> 0,
              gpuOnly |-> FALSE, allowSplit |-> FALSE]
Empty(code) == [cards |-> << >>, considered |-> {}, current |-> << >>, empty |-> code]
Waiting == Empty("waiting")

VARIABLES machine, catalogue, installed, measured, asked, answer

vars == <<machine, catalogue, installed, measured, asked, answer>>

plan == Place(machine)

(* cleanPurposes: nothing asked for means chat.                            *)
Purposes == IF asked.purposes = {} THEN {"chat"} ELSE asked.purposes

Entries == Range(catalogue)
Files == UNION {Range(entry.files) : entry \in Entries}

(* defaultFile: the file whose quant comes first, if there is one.         *)
HasFile(entry) == \E file \in Range(entry.files) : file.quant > 0
DefaultFile(entry) ==
    CHOOSE file \in Range(entry.files) : file.quant > 0 /\
        \A other \in Range(entry.files) : other.quant > 0 => file.quant <= other.quant
-----------------------------------------------------------------------------
(* speed: the bytes read for a word over the memory they are read from, of *)
(* the device for its layers and of the system for the rest; 0 when a part *)
(* the model would run on is not in the table.  A measurement of the same  *)
(* file at the same context replaces it (fit, WithMeasurement).            *)
OnGPU == plan.device /\ ~plan.shared
DeviceSpeed == IF OnGPU THEN machine.gpus[1].speed ELSE 0
SystemSpeed == IF ~machine.unified THEN machine.ramSpeed
               ELSE IF HasGPU(machine) THEN machine.gpus[1].speed ELSE 0
EstimatedRate(file, est) ==
    LET on == est.layersOn
        off == file.layers - on
        read == Max({1, (file.bytes * file.active) \div 100})
        split == est.category = "needs_cpu_offload"
        inSystem == ~OnGPU \/ ~OnDevice(plan)
        known == /\ est.category \notin {"unknown", "not_recommended"}
                 /\ OnGPU => DeviceSpeed > 0
                 /\ split \/ inSystem => SystemSpeed > 0
    IN  IF ~known THEN 0
        ELSE IF inSystem THEN (10 * SystemSpeed) \div read
        ELSE IF ~split THEN (10 * DeviceSpeed) \div read
        ELSE (10 * file.layers * DeviceSpeed * SystemSpeed)
             \div (read * (on * SystemSpeed + off * DeviceSpeed))
Rate(file, est, numCtx) ==
    LET same == {ms \in measured : ms.file = file.id /\ ms.ctx = numCtx}
    IN  IF same # {} THEN (CHOOSE ms \in same : TRUE).rate ELSE EstimatedRate(file, est)

(* speedFactor: of each purpose by the speed it needs, averaged.           *)
SpeedFactor(rate) ==
    LET of == [p \in Purposes |->
                  Max({SpeedFloor, Least(SpeedFactorTop, (SpeedFactorTop * rate) \div NeededRate[p])})]
    IN  IF rate = 0 THEN UnknownSpeedFactor
        ELSE SumFunctionOnSet(of, Purposes) \div Cardinality(Purposes)

(* purposeFit: the purposes asked that the entry serves at a context.      *)
Serves(entry, file, ctx, p) ==
    /\ p \in Range(entry.purposes)
    /\ p = "long_context" => ctx >= LongContextMin
    /\ p = "vision" => file.projector > 0
PurposeFit(entry, file, ctx) ==
    LET served == {p \in Purposes : Serves(entry, file, ctx, p)}
        position(p) == CHOOSE i \in DOMAIN entry.purposes : entry.purposes[i] = p
    IN  SumFunctionOnSet([p \in served |-> PurposeFactor[position(p)]], served)
-----------------------------------------------------------------------------
(* consider: the longest context up to the one wanted that fits whole is   *)
(* the one to run at, else the shortest that is useful.                    *)
Wanted(prefs) == Max({PurposeContext[p] : p \in Purposes} \cup {prefs.minContext})
Tried(file, wanted) ==
    {c \in Contexts : /\ MinUsefulContext <= c /\ c <= wanted
                      /\ file.trained > 0 => c <= file.trained}
Fitting(file, wanted) ==
    {c \in Tried(file, wanted) : FitsOnDevice(FitPlaced(plan, file, c))}
RunAt(file, ctx, whole) == [ctx |-> ctx, whole |-> whole, est |-> FitPlaced(plan, file, ctx)]
RunOf(file, runs) ==
    IF runs # {} THEN RunAt(file, Longest(runs), TRUE) ELSE RunAt(file, MinUsefulContext, FALSE)

(* A model that only runs split, or short of what the user needs, is       *)
(* admitted when relaxed; a split one also when allowed.                   *)
Admitted(entry, file, prefs, relaxed, run) ==
    /\ \/ run.whole
       \/ /\ run.est.category = "needs_cpu_offload"
          /\ ~prefs.gpuOnly /\ (relaxed \/ prefs.allowSplit)
    /\ relaxed \/ run.ctx >= prefs.minContext
    /\ PurposeFit(entry, file, run.ctx) > 0
Score(entry, file, prefs, run, rate) ==
    LET purpose == PurposeFit(entry, file, run.ctx)
        fit == FitFactor[run.est.category]
        speed == SpeedFactor(rate)
        size == SizeFactor[entry.billions]
    IN  purpose * purpose * Least(run.ctx, Wanted(prefs)) * fit * fit
        * speed * speed * speed * size * size
Candidate(entry, file, prefs, admitted, run, rate) ==
    [entry |-> entry, file |-> file, ctx |-> run.ctx, est |-> run.est, rate |-> rate,
     ok |-> admitted,
     score |-> IF admitted THEN Score(entry, file, prefs, run, rate) ELSE 0]
Judge(entry, file, prefs, relaxed, run) ==
    Candidate(entry, file, prefs, Admitted(entry, file, prefs, relaxed, run), run,
              Rate(file, run.est, run.ctx))
Consider(entry, file, prefs, relaxed) ==
    Judge(entry, file, prefs, relaxed, RunOf(file, Fitting(file, Wanted(prefs))))

Pass(relaxed) ==
    {c \in {Consider(entry, DefaultFile(entry), asked, relaxed) :
                entry \in {e \in Entries : HasFile(e)}} : c.ok}
\* Mutant: what runs split or short always competes.
CandidatesRelaxed == Pass(TRUE)
Candidates ==
    LET first == Pass(FALSE) IN IF first # {} THEN first ELSE Pass(TRUE)

(* The best score first; a tie goes to the smaller download, then to the   *)
(* catalogue's order.                                                      *)
RanksBefore(a, b) ==
    \/ a.score > b.score
    \/ a.score = b.score /\ a.file.bytes < b.file.bytes
    \/ a.score = b.score /\ a.file.bytes = b.file.bytes /\ a.entry.id < b.entry.id
Ahead(considered, c) == {d \in considered : RanksBefore(d, c)}
Ranking(considered) ==
    [i \in 1..Cardinality(considered) |->
        CHOOSE c \in considered : Cardinality(Ahead(considered, c)) = i - 1]
-----------------------------------------------------------------------------
(* current: the installed model the user named, else the one that scores   *)
(* best, else the largest; the first of equals.                            *)
Assess(in) ==
    LET entries == {e \in Entries : e.id = in.entry}
        entry == CHOOSE e \in entries : TRUE
        exact == {f \in Range(entry.files) : f.id = in.file}
        file == IF exact # {} THEN CHOOSE f \in exact : TRUE ELSE DefaultFile(entry)
    IN  IF entries # {} /\ (exact # {} \/ HasFile(entry))
        THEN [in |-> in, known |-> TRUE, cand |-> Consider(entry, file, NoRequest, TRUE)]
        ELSE [in |-> in, known |-> FALSE, cand |-> << >>]
StandsOut(a, b) ==
    IF a.known /\ b.known THEN a.cand.score > b.cand.score
    ELSE IF ~a.known /\ ~b.known THEN a.in.bytes > b.in.bytes
    ELSE a.known
Current ==
    LET named == {i \in DOMAIN installed : installed[i].name = asked.current}
        keep(best, a) == IF best = << >> \/ StandsOut(a, best[1]) THEN <<a>> ELSE best
    IN  IF named # {} THEN <<Assess(installed[Max(named)])>>
        ELSE FoldLeft(keep, << >>, [i \in DOMAIN installed |-> Assess(installed[i])])

Noticeable(a, b, tenths) == 10 * a >= tenths * b \/ tenths * a <= 10 * b

(* versus: whether a candidate changes anything against the current model. *)
Changes(c, cur) ==
    IF ~cur.known THEN TRUE
    ELSE LET cc == cur.cand IN
         /\ c.entry.id # cc.entry.id
         /\ \/ \E p \in Purposes : p \in Range(c.entry.purposes) \ Range(cc.entry.purposes)
            \/ Noticeable(c.entry.billions, cc.entry.billions, NoticeableSize)
            \/ c.rate > 0 /\ cc.rate > 0 /\ Noticeable(c.rate, cc.rate, NoticeableSpeed)
            \/ FitsOnDevice(c.est) /\ ~FitsOnDevice(cc.est)
            \/ 10 * c.ctx >= NoticeableContext * cc.ctx
IsNews(c, cur) == cur = << >> \/ Changes(c, cur[1])

\* Mutant: the families already shown are forgotten.
KeepOfAnyFamily(cur, cards, c) ==
    IF Len(cards) >= MaxRecommendations \/ ~IsNews(c, cur) THEN cards ELSE Append(cards, c)

(* Recommend: one card per family, in the order of the ranking, without    *)
(* what would change nothing.                                              *)
Keep(cur, cards, c) ==
    IF \/ Len(cards) >= MaxRecommendations
       \/ \E i \in DOMAIN cards : cards[i].entry.family = c.entry.family
       \/ ~IsNews(c, cur)
    THEN cards ELSE Append(cards, c)
Cards(considered, cur) ==
    LET keep(cards, c) == Keep(cur, cards, c)
    IN  FoldLeft(keep, << >>, Ranking(considered))
Result(considered, cur, cards) ==
    [cards |-> cards, considered |-> considered, current |-> cur,
     empty |-> IF cards # << >> THEN "none"
               ELSE IF cur # << >> /\ considered # {} THEN "nothing_changes"
               ELSE "nothing_fits"]
Choose(considered, cur) == Result(considered, cur, Cards(considered, cur))
Advice ==
    IF Blocked(machine) THEN Empty("blocked")
    ELSE IF ~plan.known THEN Empty("budget_unknown")
    ELSE IF \A entry \in Entries : ~HasFile(entry) THEN Empty("catalogue_empty")
    ELSE Choose(Candidates, Current)

Init ==
    /\ machine \in Machines /\ catalogue \in Catalogues
    /\ installed \in Inventories /\ measured \in Measurements
    /\ asked = NoRequest /\ answer = Empty("not_asked")

(* A request arrives.                                                      *)
Ask == /\ asked' \in Requests /\ answer' = Waiting
       /\ UNCHANGED <<machine, catalogue, installed, measured>>

(* handleRecommend answers it.                                             *)
Answer == /\ answer = Waiting
          /\ answer' = Advice
          /\ UNCHANGED <<machine, catalogue, installed, measured, asked>>

Next == Ask \/ Answer
Spec == Init /\ [][Next]_vars
-----------------------------------------------------------------------------
(* Whatever the machine, the category of every file at every context does  *)
(* what its name says (KeepsItsWord of Fit): what is called a fit is under *)
(* the limit where it runs and has room for what stays in system memory, a *)
(* split's parts each have room, a suggested context fits and is the       *)
(* longest that does.                                                      *)
CategoryKeepsItsWord ==
    \A file \in Files : \A ctx \in Contexts :
        KeepsItsWord(plan, file, FitPlaced(plan, file, ctx))

(* The fit screen and the engine look for a shorter context each in their  *)
(* own way (categorise, consider), and never disagree about a file: where  *)
(* one finds it fits, shortened to a context or not at all, so does the    *)
(* other.                                                                  *)
SuggestionsAgree ==
    \A file \in Files : \A wanted \in Contexts :
        LET est == FitPlaced(plan, file, wanted)
            runs == Fitting(file, wanted)
        IN  /\ FitsOnDevice(est) => runs = Tried(file, wanted)
                                     \/ Longest(runs) = Longest(Tried(file, wanted))
            /\ est.category = "reduced_context_only" => Longest(runs) = est.suggested
            /\ est.category \in {"needs_cpu_offload", "not_recommended"} => runs = {}

(* A machine with more memory of any kind, and otherwise the same, never   *)
(* gets a worse category for a file nor a shorter context to run it at.    *)
MoreMemory(big) ==
    /\ big.ram >= machine.ram /\ big.wired >= machine.wired
    /\ DOMAIN big.gpus = DOMAIN machine.gpus
    /\ \A i \in DOMAIN big.gpus : big.gpus[i].vram >= machine.gpus[i].vram
    /\ machine = [big EXCEPT !.ram = machine.ram, !.wired = machine.wired,
           !.gpus = [i \in DOMAIN @ |-> [@[i] EXCEPT !.vram = machine.gpus[i].vram]]]
Grade(est) == CASE est.category = "fits_with_headroom" -> 5
                [] est.category = "fits" -> 4
                [] est.category = "reduced_context_only" -> 3
                [] est.category = "needs_cpu_offload" -> 2
                [] est.category = "not_recommended" -> 1
                [] est.category = "unknown" -> 0
MoreMemoryNeverWorse ==
    \A big \in {m \in Machines : MoreMemory(m)} : \A file \in Files, ctx \in Contexts :
        LET before == FitPlaced(plan, file, ctx)
            after == FitPlaced(Place(big), file, ctx)
        IN  \/ Grade(after) > Grade(before)
            \/ Grade(after) = Grade(before) /\ after.suggested >= before.suggested

(* A file that runs whole, for a purpose asked, at the context needed.     *)
RunsWhole(entry) ==
    /\ HasFile(entry)
    /\ LET file == DefaultFile(entry)
       IN  \E ctx \in Tried(file, Wanted(asked)) :
               /\ ctx >= asked.minContext
               /\ FitsOnDevice(FitPlaced(plan, file, ctx))
               /\ \E p \in Purposes : Serves(entry, file, ctx, p)

(* A model that spills onto the processor is on a card only where the user *)
(* has not ruled it out, and either allowed it or nothing fits: no size of *)
(* the catalogue runs whole for any purpose asked.                         *)
SplitOnlyWhenNothingFits ==
    \A i \in DOMAIN answer.cards :
        answer.cards[i].est.category = "needs_cpu_offload" =>
            ~asked.gpuOnly /\ (asked.allowSplit \/ \A entry \in Entries : ~RunsWhole(entry))

(* Of what was considered, what is on no card is no loss: it changes       *)
(* nothing for the user, or a card of its family or three cards are before *)
(* it.  The cards are in the order of the ranking, of different families,  *)
(* and each changes something.                                             *)
NothingBetterLeftOut ==
    LET cards == answer.cards
        before(c) == {i \in DOMAIN cards : RanksBefore(cards[i], c)}
    IN  /\ Len(cards) <= MaxRecommendations
        /\ \A i, j \in DOMAIN cards : i < j =>
               /\ RanksBefore(cards[i], cards[j])
               /\ cards[i].entry.family # cards[j].entry.family
        /\ \A i \in DOMAIN cards : IsNews(cards[i], answer.current)
        /\ \A c \in answer.considered \ Range(cards) :
               \/ ~IsNews(c, answer.current)
               \/ Cardinality(before(c)) = MaxRecommendations
               \/ \E i \in before(c) : cards[i].entry.family = c.entry.family

(* What is recommended is the best there is: cards that spill only where   *)
(* nothing fits or the user allows it, and none that ranks before them     *)
(* left out (recommend.go, Recommend).                                     *)
CardsAreTheBest == SplitOnlyWhenNothingFits /\ NothingBetterLeftOut

(* Preferences.MinContext is "the smallest context the user needs": a card *)
(* shorter than that is for when nothing runs whole at that context.       *)
ShortOnlyWhenNothingIsLongEnough ==
    (\E i \in DOMAIN answer.cards : answer.cards[i].ctx < asked.minContext) =>
        \A entry \in Entries : HasFile(entry) =>
            \A ctx \in Contexts : ctx >= asked.minContext =>
                LET file == DefaultFile(entry)
                IN  \/ ~FitsOnDevice(FitPlaced(plan, file, ctx))
                    \/ file.trained \in 1..(ctx - 1)
                    \/ \A p \in Purposes : ~Serves(entry, file, ctx, p)
=============================================================================
