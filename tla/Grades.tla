------------------------------- MODULE Grades -------------------------------
(***************************************************************************)
(* How well a speed suits a purpose: the table of what each purpose needs  *)
(* (speedneeds.go), the grade (grade.go) and the verdict a screen shows    *)
(* beside a speed (verdict.go), in internal/recommend.                     *)
(*                                                                         *)
(* A grade is its rank: 0 excellent, 1 good, 2 usable, 3 too slow.  A rate *)
(* is a range with its source; what may be missing is a set, empty or of   *)
(* one value; a wait is a fraction, <<n, d>> seconds.  Of the sentences    *)
(* only those that tell what a grade rests on are kept, as codes.          *)
(***************************************************************************)
EXTENDS Integers, Sequences, FiniteSets, FiniteSetsExt, SequencesExt

CONSTANT Purposes

Anchors == <<"listening", "reading", "skimming">>
TooSlow == 3

-----------------------------------------------------------------------------
(* The table.  Every number says where it is from: a source the file       *)
(* cites, the trial that settled it, or what would settle it.              *)
ValidBasis(p, sources) ==
  CASE p.basis = "public" -> p.source \in sources /\ ~p.trial /\ ~p.settle
    [] p.basis = "trial"  -> p.trial /\ p.source = "" /\ ~p.settle
    [] p.basis = "chosen" -> p.settle /\ p.source = "" /\ ~p.trial
    [] OTHER -> FALSE

Rising(v) == \A i, j \in DOMAIN v : i < j => v[i] < v[j]
RankOf(anchor) == CHOOSE i \in DOMAIN Anchors : Anchors[i] = anchor
ValidBars(t) ==
  /\ Rising(t.reading)
  /\ \A g \in 1..3 : t.bars[g] \in Range(Anchors)
  /\ \A g \in 1..2 : RankOf(t.bars[g]) >= RankOf(t.bars[g + 1])

\* Mutant: the waits are not compared.
ValidNeedAnyWait(need) == need.mode \in {"read_along", "per_step"}

ValidNeed(need) ==
  /\ \/ need.mode = "read_along" /\ need.prompt # {} /\ need.stepPrompt \cup need.stepOutput = {}
     \/ need.mode = "per_step" /\ need.stepPrompt # {} /\ need.stepOutput # {} /\ need.prompt \cup need.thinking = {}
  /\ Rising(need.wait)
ValidNeeds(t) ==
  /\ t.words \in 1..20 /\ t.sources # {} /\ \A p \in t.entries : ValidBasis(p, t.sources)
  /\ ValidBars(t)
  /\ {t.purposes[i].purpose : i \in DOMAIN t.purposes} = Purposes /\ Len(t.purposes) = Cardinality(Purposes)
  /\ \A i \in DOMAIN t.purposes : ValidNeed(t.purposes[i])

Need(t, p) == {t.purposes[i] : i \in {k \in DOMAIN t.purposes : t.purposes[k].purpose = p}}

-----------------------------------------------------------------------------
(* What is graded: the table as its file's types give it, and rates above  *)
(* none (at none there is no wait, and the two ends do not compare).       *)
AtMostOne(S) == \A x, y \in S : x = y
Optional(S) == S \subseteq Nat /\ AtMostOne(S)
NeedOK(need) ==
  /\ Optional(need.prompt) /\ Optional(need.thinking) /\ Optional(need.stepPrompt) /\ Optional(need.stepOutput)
  /\ need.wait \in [1..3 -> Nat]
TableOK(t) ==
  /\ t.words \in Nat /\ t.reading \in [1..3 -> Nat] /\ t.bars \in [1..3 -> STRING]
  /\ t.purposes \in Seq(Range(t.purposes))
  /\ \A i \in DOMAIN t.purposes : NeedOK(t.purposes[i])
RateOK(r) ==
  /\ r.low \in Nat \ {0} /\ r.high \in Nat \ {0} /\ r.low <= r.high
  /\ r.source \in {"measured", "estimated"}
GradedOK(t, gen, prompt) ==
  /\ TableOK(t) /\ RateOK(gen)
  /\ AtMostOne(prompt) /\ \A p \in prompt : RateOK(p)

-----------------------------------------------------------------------------
(* One end of a range.  The first bar that is met is the grade.            *)
FirstMet(Met(_)) == CHOOSE g \in 0..TooSlow : (g = TooSlow \/ Met(g)) /\ \A b \in 0..(g - 1) : ~Met(b)

(* Words a minute over sixty and over the tenths of a word in a token.     *)
MeetsStream(t, rate, g) == 6 * t.words * rate >= t.reading[RankOf(t.bars[g + 1])]
MeetsWait(need, w, g) == w[1] <= need.wait[g + 1] * w[2]
StreamGrade(t, rate) == LET met(g) == MeetsStream(t, rate, g) IN FirstMet(met)
WaitGrade(need, w) == LET met(g) == MeetsWait(need, w, g) IN FirstMet(met)

(* The wait before the first word, or for a step; none without the rates   *)
(* it takes.                                                               *)
Wait(need, prompt, gen) ==
  LET step == need.mode = "per_step"
      read == IF step THEN need.stepPrompt ELSE need.prompt
      write == IF step THEN need.stepOutput ELSE need.thinking
  IN IF read = {} \/ prompt <= 0 \/ (write # {} /\ gen <= 0) \/ (step /\ write = {}) THEN {}
     ELSE {<<r * gen + w * prompt, prompt * gen>> : r \in read, w \in IF write = {} THEN {0} ELSE write}

\* Mutant: the better of the two.
WorseBest(a, b) == Min({a, b})

Worse(a, b) == Max({a, b})

(* gradeOneEnd: the worse of the two bars; a wait that is not known leaves *)
(* the stream's, which a step does not have.                               *)
OneEnd(t, need, gen, prompt) ==
  LET stream == IF need.mode = "read_along" THEN {StreamGrade(t, gen)} ELSE {}
      waits == UNION {Wait(need, p, gen) : p \in prompt}
      of(w) == LET g == WaitGrade(need, w) IN
        [grade |-> Worse(g, IF stream = {} THEN 0 ELSE Max(stream)), wait |-> {w}, limits |-> \A s \in stream : g >= s]
  IN IF waits # {} THEN {of(w) : w \in waits}
     ELSE {[grade |-> s, wait |-> {}, limits |-> FALSE] : s \in stream}

\* Mutant: a prompt's estimate does not make the grade one.
SourceOfAnswer(gen, prompt) == gen.source

SourceOf(gen, prompt) ==
  IF gen.source = "measured" /\ \A p \in prompt : p.source = "measured" THEN "measured" ELSE "estimated"

(* GradeSpeed.                                                             *)
GradeSpeed(t, purpose, gen, prompt) ==
  LET of(low, high) ==
        [low |-> low.grade, high |-> high.grade, slow |-> low.wait, fast |-> high.wait,
         waitLimits |-> low.wait # {} /\ (low.limits \/ high.limits),
         limit |-> IF low.wait # {} /\ low.limits THEN "wait" ELSE "answer_speed",
         source |-> SourceOf(gen, prompt)]
  IN {of(low, high) : low \in UNION {OneEnd(t, n, gen.low, {p.low : p \in prompt}) : n \in Need(t, purpose)},
                      high \in UNION {OneEnd(t, n, gen.high, {p.high : p \in prompt}) : n \in Need(t, purpose)}}

-----------------------------------------------------------------------------
(* verdict: the grade, its wait (fast to slow), whether the wait is what   *)
(* to say, and why a grade is less than both bars.                         *)
Verdict(purpose, grades, gen, why) ==
  IF grades = {}
  THEN [purpose |-> purpose, known |-> FALSE, low |-> TooSlow, high |-> TooSlow, wait |-> {}, waitSaid |-> FALSE,
        source |-> gen.source, note |-> IF why = "" THEN "nothing" ELSE why]
  ELSE LET g == CHOOSE g \in grades : TRUE IN
       [purpose |-> purpose, known |-> TRUE, low |-> g.low, high |-> g.high, wait |-> g.slow,
        waitSaid |-> g.slow # {} /\ g.limit = "wait" /\ g.low # 0, source |-> g.source,
        note |-> IF g.slow = {} THEN why ELSE ""]

(* Verdicts, of a speed with the prompt speed that goes with it.           *)
VerdictFor(t, purpose, gen, prompt) ==
  Verdict(purpose, GradeSpeed(t, purpose, gen, prompt), gen, IF prompt = {} THEN "not_known" ELSE "")

(* typicalPromptTokens.                                                    *)
Typical(need) ==
  LET read == IF need.mode = "per_step" /\ need.stepPrompt # {} THEN need.stepPrompt ELSE need.prompt
  IN IF read = {} THEN 0 ELSE Max(read)

\* Mutant: a shorter prompt stands for one that the test has not.
ChosenNearest(suite, typical) ==
  {suite[i] : i \in {j \in DOMAIN suite : \A k \in DOMAIN suite : suite[k].tokens <= suite[j].tokens}}

(* The shortest prompt of the test that is no shorter than the purpose's.  *)
Chosen(suite, typical) ==
  LET long == {i \in DOMAIN suite : suite[i].tokens >= typical}
      before(i, j) == suite[i].tokens < suite[j].tokens \/ (suite[i].tokens = suite[j].tokens /\ i <= j)
  IN {suite[i] : i \in {j \in long : \A k \in long : before(j, k)}}
MeasuredVerdict(t, need, gen, suite) ==
  LET chosen == Chosen(suite, Typical(need))
      prompt == UNION {c.rate : c \in chosen}
      why == IF chosen = {} THEN "none_as_long" ELSE IF prompt = {} THEN "not_timed" ELSE ""
  IN Verdict(need.purpose, GradeSpeed(t, need.purpose, gen, prompt), gen, why)
MeasuredVerdicts(t, gen, suite, purposes) ==
  [i \in DOMAIN purposes |-> MeasuredVerdict(t, CHOOSE n \in Need(t, purposes[i]) : TRUE, gen, suite)]

(* VerdictLine: a line of what was measured, and one of what was not.      *)
VerdictLine(verdicts) ==
  LET of(source) == LET Is(v) == v.source = source IN SelectSeq(verdicts, Is)
      Some(line) == line # << >>
  IN SelectSeq(<<of("measured"), of("estimated")>>, Some)

(* A test as its suite gives it: one prompt of a size, which was timed or  *)
(* was not.                                                                *)
SuiteOK(suite) ==
  /\ suite \in Seq(Range(suite))
  /\ \A i, j \in DOMAIN suite : suite[i].tokens = suite[j].tokens => i = j
  /\ \A i \in DOMAIN suite :
       suite[i].tokens \in Nat /\ AtMostOne(suite[i].rate) /\ \A r \in suite[i].rate : RateOK(r)

-----------------------------------------------------------------------------
(* What is claimed of a grade.                                             *)

(* The faster end is graded no worse, where both ends have a wait or none. *)
FasterIsNoWorse(t, purpose, gen, prompt) == \A g \in GradeSpeed(t, purpose, gen, prompt) : g.high <= g.low

(* A grade is earned: every bar up to it is met, by the answer's speed and *)
(* by the wait.                                                            *)
GradeIsEarned(t, purpose, gen, prompt) ==
  \A need \in Need(t, purpose), g \in GradeSpeed(t, purpose, gen, prompt) : \A b \in g.low..2 :
    /\ need.mode = "read_along" => MeetsStream(t, gen.low, b)
    /\ \A w \in g.slow : MeetsWait(need, w, b)

(* A step's grade is a wait's, and what was not measured is not said to    *)
(* have been.                                                              *)
NothingMadeUp(t, purpose, gen, prompt) ==
  /\ \A need \in Need(t, purpose) :
       GradeSpeed(t, purpose, gen, prompt) = {} <=> need.mode = "per_step" /\ prompt = {}
  /\ \A g \in GradeSpeed(t, purpose, gen, prompt) :
       g.source = "measured" => gen.source = "measured" /\ \A p \in prompt : p.source = "measured"

(* A benchmark's verdict rests on a prompt at least as long as the         *)
(* purpose's, the same whatever the order of the tests; without one it     *)
(* says so, and a wait it gives is one that was timed.                     *)
PromptIsLongEnough(t, purpose, gen, suite) ==
  \A need \in Need(t, purpose) :
    LET v == MeasuredVerdict(t, need, gen, suite)
        timed == {c.tokens : c \in {x \in Range(suite) : x.rate # {}}}
    IN /\ v = MeasuredVerdict(t, need, gen, Reverse(suite))
       /\ v.wait # {} => \E n \in timed : n >= Typical(need)
       /\ v.wait = {} <=> v.note # ""

(* A wait is mentioned only where it is what holds the grade back: it is   *)
(* graded no better than the answer's speed.                               *)
WaitIsTheReason(t, purpose, gen, prompt) ==
  \A need \in Need(t, purpose) : LET v == VerdictFor(t, purpose, gen, prompt) IN
    v.waitSaid => /\ v.low > 0 /\ \A w \in v.wait : WaitGrade(need, w) = v.low
                  /\ need.mode = "read_along" => StreamGrade(t, gen.low) <= v.low

(* Each verdict is on one line, and a line is of one source.               *)
LinesHold(t, gen, suite, purposes) ==
  LET verdicts == MeasuredVerdicts(t, gen, suite, purposes)
      lines == VerdictLine(verdicts)
  IN /\ Len(FlattenSeq(lines)) = Len(verdicts) /\ Range(FlattenSeq(lines)) = Range(verdicts)
     /\ \A i \in DOMAIN lines : \A v, w \in Range(lines[i]) : v.source = w.source

GradeHolds(t, purpose, gen, prompt) ==
  ValidNeeds(t) =>
    /\ FasterIsNoWorse(t, purpose, gen, prompt) /\ GradeIsEarned(t, purpose, gen, prompt)
    /\ NothingMadeUp(t, purpose, gen, prompt) /\ WaitIsTheReason(t, purpose, gen, prompt)
VerdictHolds(t, purpose, gen, suite) ==
  ValidNeeds(t) => PromptIsLongEnough(t, purpose, gen, suite) /\ LinesHold(t, gen, suite, <<purpose, "chat", "coding">>)
=============================================================================
