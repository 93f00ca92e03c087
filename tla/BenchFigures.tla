---------------------------- MODULE BenchFigures ----------------------------
(***************************************************************************)
(* What a benchmark sends and what it makes of the answers: the suite, its *)
(* validation and its requests (internal/bench/suite.go), the medians, the *)
(* spread and the doubts of a prompt's timed requests (stats.go), and what *)
(* a benchmark would do, worked out before any of it is done: what is      *)
(* known of the model, which prompts fit, what is refused, how many        *)
(* requests and how long (plan.go).                                        *)
(*                                                                         *)
(* A figure that may be missing is a set, empty or of one value.  Rates    *)
(* are whole tokens a second; rounding for display is left out.  A plan's  *)
(* estimate is an input: its category and its speeds, as ranges.           *)
(***************************************************************************)
EXTENDS Naturals, Sequences, FiniteSets, SequencesExt, FiniteSetsExt

CONSTANTS
  MinAnswer,       \* the shortest answer whose speed is kept
  SpreadNote,      \* percent by which the runs may disagree
  ShortShare,      \* percent of the answer's budget below which it is short
  MaxCachedShare,  \* percent of a prompt that may be reused
  Prompts,         \* the built-in suite's, shortest first
  Completion,      \* its answer's budget
  Margin,          \* tokens kept free beside a prompt and its answer
  Warmups, Repeats,
  Unit,            \* what a second is counted in
  LoadFast, LoadSlow, Settle   \* units to load a byte, at best and at worst, and to settle

Value(x) == CHOOSE v \in x : TRUE
Sorted(vs) == SortSeq(vs, <)

\* The middle value, or the mean of the two in the middle.
MedianAsGiven(vs) == IF vs = << >> THEN 0 ELSE vs[Len(vs) \div 2 + 1]
Median(vs) ==
  IF vs = << >> THEN 0
  ELSE LET s == Sorted(vs)
           n == Len(s)
       IN IF n % 2 = 1 THEN s[n \div 2 + 1] ELSE (s[n \div 2] + s[n \div 2 + 1]) \div 2
MedianCount(vs) ==
  IF Len(vs) % 2 = 1 THEN Median(vs)
  ELSE LET s == Sorted(vs) n == Len(s) IN IF vs = << >> THEN 0 ELSE (s[n \div 2] + s[n \div 2 + 1] + 1) \div 2

\* Whether the runs lie further apart than a share of their median.
Disagree(vs) ==
  Len(vs) > 1 /\ Median(vs) > 0 /\ 100 * (Max(ToSet(vs)) - Min(ToSet(vs))) > SpreadNote * Median(vs)

\* Tokens a second: of the prompt, those the runtime processed.
Rate(tokens, ms) == IF ms = 0 \/ tokens = 0 THEN {} ELSE {(1000 * tokens) \div ms}
PromptRateOfAll(t) == Rate(t.promptTokens, t.promptMs)
PromptRate(t) == Rate(IF SumSet(t.cached) > t.promptTokens THEN 0 ELSE t.promptTokens - SumSet(t.cached), t.promptMs)
GenRate(t) == Rate(t.genTokens, t.genMs)

Given(ts, Of(_)) ==
  LET found == SelectSeq(ts, LAMBDA t : Of(t) # {}) IN [i \in DOMAIN found |-> Value(Of(found[i]))]
FigureOf(vs) == IF vs = << >> THEN {} ELSE {Median(vs)}
Short(t) == t.genTokens < MinAnswer

Doubts(ts, completion, gen, short, genTokens, promptTokens) ==
  LET cached == Max({0} \cup UNION {ts[i].cached : i \in DOMAIN ts}) IN
  {n \in {"disagreed"} : Disagree(gen)}
  \cup {n \in {"some left out"} : gen # << >> /\ short}
  \cup {n \in {"stopped early"} : gen # << >> /\ ~short /\ completion > 0 /\ 100 * genTokens < ShortShare * completion}
  \cup {n \in {"reused"} : promptTokens > 0 /\ 100 * cached > MaxCachedShare * promptTokens}
  \cup {n \in {"no reading time"} : Given(ts, PromptRate) = << >>}

\* An answer too short to time counts for nothing but its reading.
CountedRateOfAny(t) == GenRate(t)
CountedRate(t) == IF Short(t) THEN {} ELSE GenRate(t)

Summarise(prompt, ts, completion) ==
  LET gen == Given(ts, CountedRate)
      short == \E i \in DOMAIN ts : Short(ts[i])
      genTokens == MedianCount([i \in DOMAIN ts |-> ts[i].genTokens])
      promptTokens == MedianCount([i \in DOMAIN ts |-> ts[i].promptTokens])
  IN [prompt |-> prompt, promptTokens |-> promptTokens, genTokens |-> genTokens, runs |-> Len(ts),
      gen |-> FigureOf(gen), read |-> FigureOf(Given(ts, PromptRate)),
      ttft |-> FigureOf(Given(ts, LAMBDA t : t.ttft)),
      unknown |-> IF gen # << >> THEN {} ELSE IF short THEN {"too short"} ELSE {"no time"},
      notes |-> Doubts(ts, completion, gen, short, genTokens, promptTokens)]

-----------------------------------------------------------------------------
(* The suite: a text of paragraphs, each the words it is of, and prompts   *)
(* that are its first words.  A word is open when nothing closes a clause  *)
(* after it.                                                               *)
Paragraphs(s) == SelectSeq(s.text, LAMBDA p : p # << >>)
Words(s) == Len(FlattenSeq(Paragraphs(s)))
Break == [id |-> 0, open |-> FALSE]

\* The paragraphs' first words, a break between two.
Body(s, p) ==
  LET Step(b, i) ==
        LET para == Paragraphs(s)[i]
            n == Min({b.left, Len(para)})
        IN IF b.left = 0 THEN b
           ELSE [left |-> b.left - n, text |-> b.text \o (IF i > 1 THEN <<Break>> ELSE << >>) \o SubSeq(para, 1, n)]
  IN FoldLeftDomain(Step, [left |-> p.words, text |-> << >>], Paragraphs(s)).text
LastWord(s, p) ==
  LET Step(b, i) ==
        LET para == Paragraphs(s)[i] IN
        IF b.done THEN b
        ELSE IF b.left <= Len(para) THEN [b EXCEPT !.done = TRUE, !.word = IF b.left = 0 THEN {} ELSE {para[b.left]}]
        ELSE [b EXCEPT !.left = @ - Len(para)]
  IN FoldLeftDomain(Step, [left |-> p.words, done |-> FALSE, word |-> {}], Paragraphs(s)).word
MidSentence(word) == \E w \in word : w.open

\* As if a prompt might end anywhere in the text.
ValidPromptAnywhere(s, i) ==
  LET p == s.prompts[i] IN
  /\ p.id # "" /\ \A j \in 1..(i - 1) : s.prompts[j].id # p.id
  /\ p.words >= 1 /\ p.words <= Words(s)
  /\ p.tokens > (IF i = 1 THEN 0 ELSE s.prompts[i - 1].tokens)
ValidPrompt(s, i) ==
  LET p == s.prompts[i] IN
  /\ p.id # "" /\ \A j \in 1..(i - 1) : s.prompts[j].id # p.id
  /\ p.words >= 1 /\ p.words < Words(s)
  /\ MidSentence(LastWord(s, p))
  /\ p.tokens > (IF i = 1 THEN 0 ELSE s.prompts[i - 1].tokens)
ValidSuite(s) ==
  /\ s.version # "" /\ s.numbered /\ s.completion > 0 /\ s.repeats >= 1
  /\ s.prompts # << >>
  /\ \A i \in DOMAIN s.prompts : ValidPrompt(s, i)

\* A request is its number in the lead, then the prompt's text.
Request(s, p, n) == [lead |-> IF s.numbered THEN <<n>> ELSE << >>, body |-> Body(s, p)]

\* The requests of a run: the warm-ups of its first prompt, then each
\* prompt's repeats, numbered as they are sent.
Requests(s, prompts) ==
  LET of == [i \in 1..s.warmups |-> prompts[1]] \o FlattenSeq([i \in DOMAIN prompts |-> [r \in 1..s.repeats |-> prompts[i]]])
  IN [n \in DOMAIN of |-> Request(s, of[n], n - 1)]

-----------------------------------------------------------------------------
(* The plan.                                                               *)

\* The curated list's file the installed model was matched to, if it is
\* still there, else what the runtime says; a vision encoder is loaded beside
\* the weights when the runtime's copy has one.
ModelFacts(file, list, vision, told) ==
  LET found == {i \in DOMAIN list : list[i].id = file} IN
  IF file = 0 \/ found = {}
  THEN [source |-> "runtime", weights |-> told.size, projector |-> 0, ctx |-> told.ctx,
        params |-> IF told.counted > 0 THEN told.counted ELSE told.named]
  ELSE LET f == list[Value(found)]
           encoders == SelectSeq(list, LAMBDA p : p.size = f.size /\ p.role = "projector" /\ p.present)
       IN [source |-> "catalogue", weights |-> f.bytes, params |-> f.params,
           projector |-> IF vision /\ encoders # << >> THEN encoders[1].bytes ELSE 0,
           ctx |-> IF f.headerCtx > 0 THEN f.headerCtx ELSE f.sizeCtx]

Selected(ids) == IF ids = {} THEN Prompts ELSE SelectSeq(Prompts, LAMBDA p : p.id \in ids)
Need(p) == p.tokens + Completion + Margin
LimitedByModel(ctx, facts) == facts.ctx > 0 /\ facts.ctx < ctx
\* As if the runtime ran any context it is asked for.
EffectiveAsAsked(ctx, facts) == ctx
Effective(ctx, facts) == IF LimitedByModel(ctx, facts) THEN facts.ctx ELSE ctx
Fitting(ids, ctx, facts) == SelectSeq(Selected(ids), LAMBDA p : Need(p) <= Effective(ctx, facts))
Planned(ids, ctx, facts) ==
  LET s == Selected(ids)
      Skip(p) == IF Need(p) <= Effective(ctx, facts) THEN {}
                 ELSE IF LimitedByModel(ctx, facts) THEN {"the model's maximum"} ELSE {"pick a larger context"}
  IN [i \in DOMAIN s |-> [id |-> s[i].id, runs |-> IF Skip(s[i]) = {} THEN Repeats ELSE 0, skip |-> Skip(s[i])]]

Refusal(category) ==
  CASE category \in {"needs_cpu_offload", "reduced_context_only"} -> {"would_spill"}
    [] category = "not_recommended" -> {"not_recommended"}
    [] OTHER -> {}

\* Each request reads its prompt and writes its answer; the first loads the
\* model, once the machine is at rest.
SecondsAt(prompts, read, write, load, facts) ==
  LET sent == [i \in 1..Warmups |-> prompts[1]] \o FlattenSeq([i \in DOMAIN prompts |-> [r \in 1..Repeats |-> prompts[i]]])
      units == FoldLeft(LAMBDA n, p : n + (Unit * p.tokens) \div read + (Unit * Completion) \div write,
                        Settle + load * (facts.weights + facts.projector), sent)
  IN (2 * units + Unit) \div (2 * Unit)
\* As if the answers were written at the same end of their range either way.
DurationOneEnded(speed, prompts, facts) ==
  {[low |-> SecondsAt(prompts, r.high, w.low, LoadFast, facts), high |-> SecondsAt(prompts, r.low, w.low, LoadSlow, facts)] :
     r \in {x \in speed.prompt : x.low > 0}, w \in {x \in speed.gen : x.low > 0}}
Duration(speed, prompts, facts) ==
  {[low |-> SecondsAt(prompts, r.high, w.high, LoadFast, facts), high |-> SecondsAt(prompts, r.low, w.low, LoadSlow, facts)] :
     r \in {x \in speed.prompt : x.low > 0}, w \in {x \in speed.gen : x.low > 0}}

Plan(ids, ctx, facts, category, speed) ==
  LET fit == Fitting(ids, ctx, facts) IN
  [prompts |-> Planned(ids, ctx, facts), run |-> fit,
   refusal |-> IF fit = << >> THEN {"nothing_fits"} ELSE Refusal(category),
   requests |-> IF fit = << >> THEN 0 ELSE Warmups + Len(fit) * Repeats,
   duration |-> IF fit = << >> THEN {} ELSE Duration(speed, fit, facts)]

-----------------------------------------------------------------------------
(* Claims.                                                                 *)

\* What a runtime reused, an answer that stopped early, and the order of the
\* requests change no speed that is reported.
OnlyWorkIsTimed(prompt, ts, completion) ==
  LET r == Summarise(prompt, ts, completion)
      long == SelectSeq(ts, LAMBDA t : ~Short(t))
      unused == [i \in DOMAIN ts |-> [ts[i] EXCEPT !.cached = {}, !.promptTokens = @ - SumSet(ts[i].cached)]]
      back == Summarise(prompt, Reverse(ts), completion)
  IN /\ r.gen = (IF long = << >> THEN {} ELSE Summarise(prompt, long, completion).gen)
     /\ r.read = Summarise(prompt, unused, completion).read
     /\ back.gen = r.gen /\ back.read = r.read /\ back.notes = r.notes

\* Of three answers or more, one odd one does not carry the figure.
OddOneIsOutvoted(prompt, ts, completion) ==
  LET rates == Given(SelectSeq(ts, LAMBDA t : ~Short(t)), GenRate)
      s == Sorted(rates)
  IN Len(rates) > 2 => \A v \in Summarise(prompt, ts, completion).gen : s[2] <= v /\ v <= s[Len(s) - 1]

\* A result with nothing said of it is of answers that were all timed, agreed
\* and were as long as planned, to a prompt that was read as a whole.
DoubtIsSaid(prompt, ts, completion) ==
  LET r == Summarise(prompt, ts, completion) IN
  /\ r.gen = {} <=> r.unknown # {}
  /\ r.notes = {} /\ r.unknown = {} =>
       /\ \A i \in DOMAIN ts : ~Short(ts[i])
       /\ \A i, j \in DOMAIN ts : \A v \in GenRate(ts[i]), w \in GenRate(ts[j]), m \in r.gen : 100 * v <= 100 * w + SpreadNote * m
       /\ \A i \in DOMAIN ts : \A c \in ts[i].cached : 100 * c <= MaxCachedShare * r.promptTokens
       /\ 100 * r.genTokens >= ShortShare * completion /\ r.read # {}

TimingsHold(ts, completion) ==
  ts # << >> => /\ OnlyWorkIsTimed("p", ts, completion) /\ OddOneIsOutvoted("p", ts, completion)
                /\ DoubtIsSaid("p", ts, completion)

\* A prompt of a valid suite is as many of the text's words as it says, stops
\* in the middle of a sentence, and leaves some of the text unsaid; and no
\* two requests of a run begin alike, so none is answered from another's.
SuiteHolds(s) ==
  ValidSuite(s) =>
    /\ \A i \in DOMAIN s.prompts :
         LET body == Body(s, s.prompts[i])
             said == SelectSeq(body, LAMBDA w : w # Break)
         IN /\ Len(said) = s.prompts[i].words /\ IsStrictPrefix(said, FlattenSeq(Paragraphs(s)))
            /\ {Last(body)} = LastWord(s, s.prompts[i]) /\ Last(body).open
    /\ LET sent == Requests(s, s.prompts)
       IN \A m, n \in DOMAIN sent : m # n => ~IsPrefix(sent[m].lead, sent[n].lead)

\* A prompt is planned when it and its answer fit the context the runtime
\* will run, which is never more than the model's own; one that is left out
\* is longer than all that are planned; and more context leaves none out.
PromptsFit(ids, ctx, facts) ==
  LET plan == Planned(ids, ctx, facts)
      Tokens(i) == (CHOOSE p \in ToSet(Prompts) : p.id = plan[i].id).tokens
      Runs(c) == {p.id : p \in ToSet(Fitting(ids, c, facts))}
  IN /\ \A i, j \in DOMAIN plan : plan[i].runs > 0 /\ plan[j].runs = 0 => Tokens(i) < Tokens(j)
     /\ \A i \in DOMAIN plan : plan[i].runs > 0 =>
          Tokens(i) + Completion + Margin <= ctx /\ (facts.ctx > 0 => Tokens(i) + Completion + Margin <= facts.ctx)
     /\ Runs(ctx) \subseteq Runs(ctx + 1)
     /\ Runs(ctx) = {plan[i].id : i \in {j \in DOMAIN plan : plan[j].skip = {}}}

\* Whatever the speeds are within their ranges, the run takes no less and no
\* more than the plan says, and a plan of more prompts no less than one of fewer.
DurationBrackets(ids, ctx, facts, speed) ==
  LET fit == Fitting(ids, ctx, facts) IN
  fit # << >> => \A d \in Duration(speed, fit, facts) :
    /\ \A r \in speed.prompt, w \in speed.gen : \A read \in r.low..r.high, write \in w.low..w.high :
         d.low <= SecondsAt(fit, read, write, LoadFast, facts) /\ SecondsAt(fit, read, write, LoadSlow, facts) <= d.high
    /\ Len(fit) > 1 => \A e \in Duration(speed, Front(fit), facts) : e.low <= d.low /\ e.high <= d.high

\* The model is described by one source, by the file it was matched to while
\* the list has it, and nothing is loaded beside it that it cannot use.
FactsAreOfOneSource(file, list, vision, told) ==
  LET facts == ModelFacts(file, list, vision, told) IN
  /\ facts.source = "catalogue" => \E i \in DOMAIN list : list[i].id = file /\ list[i].bytes = facts.weights
  /\ facts.source = "runtime" => facts.weights = told.size /\ \A i \in DOMAIN list : file # 0 => list[i].id # file
  /\ facts.projector > 0 => vision /\ \E i, j \in DOMAIN list : list[i].id = file /\ list[j].size = list[i].size
                                        /\ list[j].role = "projector" /\ list[j].present /\ list[j].bytes = facts.projector

PlanHolds(i) ==
  LET facts == ModelFacts(i.file, i.list, i.vision, i.told)
      plan == Plan(i.ids, i.ctx, facts, i.category, i.speed)
  IN /\ FactsAreOfOneSource(i.file, i.list, i.vision, i.told)
     /\ PromptsFit(i.ids, i.ctx, facts)
     /\ DurationBrackets(i.ids, i.ctx, facts, i.speed)
     /\ plan.refusal = {"nothing_fits"} <=> plan.run = << >>

\* plan.go:198 and the screen: a prompt left out for the context this test is
\* set to is one that some larger context includes.
HintHelps(i) ==
  LET facts == ModelFacts(i.file, i.list, i.vision, i.told)
      plan == Planned(i.ids, i.ctx, facts)
  IN \A n \in DOMAIN plan : plan[n].skip = {"pick a larger context"} =>
       \E c \in i.ctx..(i.ctx + 40) : plan[n].id \in {p.id : p \in ToSet(Fitting(i.ids, c, facts))}
=============================================================================
