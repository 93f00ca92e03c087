-------------------------------- MODULE GGUF --------------------------------
(***************************************************************************)
(* Reading a model file's header (internal/catalog/gguf: Parse, Missing)   *)
(* through ranges of the remote file (internal/catalog/hf/hf.go:           *)
(* rangeReader), which are asked for only as the parse goes on.            *)
(*                                                                         *)
(* A header is its fixed start (start bytes) and the sequence of its       *)
(* pairs.  A pair has a name, the bytes of its name (name) and of its type *)
(* and value (body), and says what the parser would find wrong with it:    *)
(* its name, or its value once the type and length are read.  long says    *)
(* that the value is read past, not kept.                                  *)
(***************************************************************************)
EXTENDS Naturals, Sequences, FiniteSets, Folds, SequencesExt

CONSTANTS
  Tokenizer,     \* names of the tokenizer's pairs
  Architecture,  \* the name "general.architecture"
  Required,      \* the other names a language model's file must state
  Projectors     \* the architectures of vision encoders

Need(h) == {Architecture} \cup IF h.arch \in Projectors THEN {} ELSE Required
(* haveRequired, and Missing.                                              *)
HaveRequired(h, kept) == Need(h) \subseteq kept
Missing(h, kept) == IF Architecture \notin kept THEN {Architecture} ELSE Need(h) \ kept

Begun(h) == [at |-> h.start, kept |-> {}, skipped |-> {}, end |-> "none"]
Ended(s, end) == [s EXCEPT !.end = end]
Keeps(pair) == pair.name \notin Tokenizer /\ ~pair.long

(* A bug: the parse stops at the tokenizer whatever it has read.           *)
StopsAlways(h, s, pair, stop) == stop /\ pair.name \in Tokenizer
StopsAt(h, s, pair, stop) == stop /\ pair.name \in Tokenizer /\ HaveRequired(h, s.kept)

(* One pair of the loop of parse, of a file cut at avail bytes: the name,  *)
(* then whether it was there before, then whether to stop, then the value. *)
ReadPair(h, s, pair, avail, stop) ==
  LET named == s.at + pair.nameBytes
      after == named + pair.bodyBytes
  IN IF s.end # "none" THEN s
     ELSE IF avail < named THEN Ended(s, "truncated")
     ELSE IF pair.bad = "name" \/ pair.name \in s.kept \cup s.skipped THEN Ended(s, "malformed")
     ELSE IF StopsAt(h, s, pair, stop) THEN Ended(s, "stopped")
     ELSE IF pair.bad = "value" /\ avail >= named + pair.lengthBytes THEN Ended(s, "malformed")
     ELSE IF avail < after \/ pair.bad = "value" THEN Ended(s, "truncated")
     ELSE IF Keeps(pair) THEN [s EXCEPT !.at = after, !.kept = @ \cup {pair.name}]
     ELSE [s EXCEPT !.at = after, !.skipped = @ \cup {pair.name}]

(* parse: the magic, version and counts, then every pair; a header read to *)
(* its end names its architecture.                                         *)
Parse(h, avail, stop) ==
  LET read(s, pair) == ReadPair(h, s, pair, avail, stop)
      s == FoldLeft(read, Begun(h), h.pairs)
  IN IF avail < h.start THEN Ended(Begun(h), "truncated")
     ELSE IF h.bad THEN Ended(Begun(h), "malformed")
     ELSE IF s.end # "none" THEN s
     ELSE IF Architecture \in s.kept THEN Ended(s, "complete") ELSE Ended(s, "malformed")
Usable(s) == s.end \in {"complete", "stopped"}

(* The bytes the parse has to see before it ends.                          *)
Seen(h, stop, size) ==
  CHOOSE n \in 0..size :
      /\ Parse(h, n, stop).end # "truncated" \/ n = size
      /\ \A k \in 0..(n - 1) : Parse(h, k, stop).end = "truncated"
-----------------------------------------------------------------------------
(* rangeReader.fetch: each request asks for twice as much as the last.     *)
(* A bug: each asks for the most there is.                                 *)
DoubledAtOnce(chunk, most) == most
Doubled(chunk, most) == IF 2 * chunk > most THEN most ELSE 2 * chunk
Asked(r, size) == IF r.off + r.chunk > size THEN size - r.off ELSE r.chunk

(* What is fetched until the parse has seen enough, when every answer is   *)
(* whole.                                                                  *)
FetchedFor(seen, size, first, most) ==
  LET fetch(r, i) == IF r.off >= seen \/ r.off >= size THEN r
                     ELSE [off |-> r.off + Asked(r, size), chunk |-> Doubled(r.chunk, most)]
  IN FoldLeftDomain(fetch, [off |-> 0, chunk |-> first], [i \in 1..size |-> i]).off
-----------------------------------------------------------------------------
(* A header's numbers are sizes.                                           *)
HeaderOK(h) ==
  /\ h.start \in Nat /\ h.pairs \in Seq(Range(h.pairs))
  /\ \A i \in DOMAIN h.pairs : {h.pairs[i].nameBytes, h.pairs[i].lengthBytes, h.pairs[i].bodyBytes} \subseteq Nat

(* However short the piece of a file, what the parse says of it is what it *)
(* says of the whole file, or that the piece is too short.                 *)
CutNeverChanges(h, size) ==
  \A stop \in BOOLEAN, n \in 0..size :
      Parse(h, n, stop).end = "truncated" \/ Parse(h, n, stop) = Parse(h, size, stop)

(* Stopping at the tokenizer never costs a field: a file that reads whole  *)
(* also reads so, with the same required names, and no more of it is seen. *)
EarlyStopReadsTheSame(h, size) ==
  LET whole == Parse(h, size, FALSE)
      early == Parse(h, size, TRUE)
  IN Usable(whole) => /\ Usable(early)
                      /\ Missing(h, early.kept) = Missing(h, whole.kept)
                      /\ early.kept \subseteq whole.kept
                      /\ Seen(h, TRUE, size) <= Seen(h, FALSE, size)

(* The transfer ends where the parse does: what is fetched beyond it is    *)
(* less than was needed and one first range.                               *)
TransferEndsWithTheParse(h, size, first, most) ==
  LET seen == Seen(h, TRUE, size) IN FetchedFor(seen, size, first, most) <= 2 * seen + first
=============================================================================
