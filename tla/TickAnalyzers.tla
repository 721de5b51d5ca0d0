--------------------------- MODULE TickAnalyzers ---------------------------
(***************************************************************************)
(* The four stateless analyzers and the verdict rule of                    *)
(* src/test_ws_analysis.py, as operators over a capture snapshot.          *)
(*                                                                         *)
(* A snapshot is the capture buffer: a function from symbol to the         *)
(* sequence of ticks kept for it, in arrival order (captured_ticks).       *)
(* Prices are integers in units of 1e-7, one digit finer than the          *)
(* round(x, 6) the code applies, so that the rounding is modelled by what  *)
(* it does.  Timestamps are integers in units of 1/StampsPerSecond s.      *)
(*                                                                         *)
(* The code collects evidence as a list of emoji-prefixed strings and      *)
(* counts them by the emoji; here an evidence record carries its polarity  *)
(* and the analyzer and subject it is about.  Records of one session are   *)
(* pairwise distinct, so the list is kept as a set: its order only decides *)
(* the order the summary is printed in.                                    *)
(***************************************************************************)
EXTENDS Integers, FiniteSets, Sequences, SequencesExt

CONSTANTS
  Symbols,          \* symbol names the feed may send (model values)
  Labels,           \* values of the optional "lp" field; "UNKNOWN" = absent
  NoStamp,          \* the timestamp of a tick whose "timestamp" key is absent
  StampsPerSecond   \* resolution of the timestamps in the model

SIMULATED == "SIMULATED"
YOFX      == "YOFX"

Polarities == {"real", "simulated"}
Verdicts   == {"SIMULATED", "REAL", "LIKELY_SIMULATED", "INCONCLUSIVE"}

(* round(x, 6) of a price held in units of 1e-7 (ties never occur in the  *)
(* models: see the ASSUME of QuoteSession).                                *)
Round6(x) ==
  LET r == x % 10 IN IF r >= 5 THEN x - r + 10 ELSE x - r

(* The non-empty buffers, i.e. the keys of the code's by_symbol dict.     *)
SeenSymbols(buf) == {s \in DOMAIN buf : Len(buf[s]) > 0}

Ev(pol, by, on) == [pol |-> pol, by |-> by, on |-> on]

(***************************************************************************)
(* analyze_lp: the set of lp values of the captured ticks (which becomes  *)
(* analysis['lp_sources']) and one evidence per marker label present.     *)
(***************************************************************************)
LpLabels(buf) == UNION {{buf[s][i].lp : i \in DOMAIN buf[s]} : s \in DOMAIN buf}

LpEvidence(buf) ==
     {Ev("simulated", "lp", l) : l \in LpLabels(buf) \cap {SIMULATED}}
  \cup {Ev("real", "lp", l) : l \in LpLabels(buf) \cap {YOFX}}

(***************************************************************************)
(* analyze_price_patterns: for each symbol with at least 3 ticks, the     *)
(* successive bid changes; fewer than half of them distinct after         *)
(* rounding means "simulated".                                             *)
(***************************************************************************)
PriceChanges(s) == [i \in 1..(Len(s) - 1) |-> s[i + 1].bid - s[i].bid]

PriceRegular(s) ==
  LET ch == PriceChanges(s)
      unique == Cardinality({Round6(ch[i]) : i \in DOMAIN ch})
  IN  2 * unique < Len(ch)                  \* unique / len(changes) < 0.5

PriceEvidence(buf) ==
  {Ev(IF PriceRegular(buf[s]) THEN "simulated" ELSE "real", "price", s) :
     s \in {x \in DOMAIN buf : Len(buf[x]) >= 3}}

(***************************************************************************)
(* analyze_timestamps: the timestamps of all ticks, sorted (duplicates    *)
(* kept), their successive gaps; a single evidence for the whole capture. *)
(***************************************************************************)
(* The timestamps of all_ticks, the buffers concatenated; the order      *)
(* across symbols is erased by the sort, so any fold order does.           *)
Stamps(buf) ==
  FoldSet(LAMBDA s, acc : acc \o [i \in DOMAIN buf[s] |-> buf[s][i].timestamp],
          << >>, DOMAIN buf)

(* sorted(): insertion into an ordered sequence; the sorted permutation   *)
(* of a sequence is unique, so this is what Python's sort returns.        *)
RECURSIVE InsertSorted(_, _)
InsertSorted(x, t) ==
  IF t = << >> \/ x <= Head(t) THEN << x >> \o t
  ELSE << Head(t) >> \o InsertSorted(x, Tail(t))

RECURSIVE SortedStamps(_)
SortedStamps(q) ==
  IF q = << >> THEN << >> ELSE InsertSorted(Head(q), SortedStamps(Tail(q)))

Gaps(t) == [i \in 1..(Len(t) - 1) |-> t[i + 1] - t[i]]

(* Mutant: the regularity threshold written 0.2.                          *)
GapsRegularFifth(g) ==
  /\ 10 * Cardinality(ToSet(g)) < 2 * Len(g)
  /\ FoldSeq(+, 0, g) < Len(g) * StampsPerSecond

(* gap_regularity < 0.3 and mean(gaps) < 1 second                         *)
GapsRegular(g) ==
  /\ 10 * Cardinality(ToSet(g)) < 3 * Len(g)
  /\ FoldSeq(+, 0, g) < Len(g) * StampsPerSecond

TimestampEvidence(buf) ==
  LET g == Gaps(SortedStamps(Stamps(buf)))
  IN  IF Len(g) = 0 THEN {}
      ELSE {Ev(IF GapsRegular(g) THEN "simulated" ELSE "real",
               "timestamps", "pooled")}

(* The line of analyze_timestamps that reads t['timestamp'] raises        *)
(* KeyError when a captured tick has no timestamp.                         *)
StampMissing(buf) ==
  \E s \in DOMAIN buf : \E i \in DOMAIN buf[s] : buf[s][i].timestamp = NoStamp

(***************************************************************************)
(* analyze_spread: for every symbol with ticks, the rounded spreads and   *)
(* consistency = 1 - unique / len; above 0.95 means "simulated".           *)
(***************************************************************************)
(* Mutant: consistency computed as unique / len, without the `1 -`.      *)
SpreadConstantInverted(s) ==
  LET n == Len(s)
      unique == Cardinality({Round6(s[i].ask - s[i].bid) : i \in 1..n})
  IN  100 * unique > 95 * n

SpreadConstant(s) ==
  LET n == Len(s)
      unique == Cardinality({Round6(s[i].ask - s[i].bid) : i \in 1..n})
  IN  100 * (n - unique) > 95 * n           \* 1 - unique/n > 0.95

SpreadEvidence(buf) ==
  {Ev(IF SpreadConstant(buf[s]) THEN "simulated" ELSE "real", "spread", s) :
     s \in SeenSymbols(buf)}

(***************************************************************************)
(* generate_verdict: the counts of simulated and real indicators and the  *)
(* if/elif chain, written as an ordered rule list where the first rule    *)
(* whose condition holds decides.                                          *)
(***************************************************************************)
Indicators(ev, pol) == Cardinality({e \in ev : e.pol = pol})

VerdictRules(sources, ev) ==
  LET sim  == Indicators(ev, "simulated")
      real == Indicators(ev, "real")
  IN  << [when |-> SIMULATED \in sources,           verdict |-> "SIMULATED"],
         [when |-> YOFX \in sources /\ real > sim,  verdict |-> "REAL"],
         [when |-> sim > real,                      verdict |-> "LIKELY_SIMULATED"],
         [when |-> TRUE,                            verdict |-> "INCONCLUSIVE"] >>

Verdict(sources, ev) ==
  LET rules == VerdictRules(sources, ev)
  IN  rules[SelectInSeq(rules, LAMBDA r : r.when)].verdict
=============================================================================
