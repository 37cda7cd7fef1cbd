------------------------------ MODULE Analytics ------------------------------
(***************************************************************************)
(* The features a seal is recomputed from (src/hashen/analytics/).  A byte *)
(* b of the artifact is the value b/Top in the code; here values and the   *)
(* bounds of the histogram are whole multiples of 1/Top.  The entropy of a *)
(* histogram is a constant operator of which nothing is assumed: it is a   *)
(* sum of rounded logarithms.  A square root is modelled by the fraction   *)
(* under it.                                                               *)
(***************************************************************************)
EXTENDS Integers, Sequences, FiniteSets, Functions

CONSTANTS Top,        \* the largest byte: 255 in the code
          None,       \* a key that is missing from a dictionary, or null
          Entropy(_)  \* the entropy of a histogram

ASSUME TopAssumption == Top \in Nat \ {0}

Byte == 0..Top

(***************************************************************************)
(* A config vector is a record of the keys that the features read: size    *)
(* (h1_subset_size), min, max, bins (h2_...) and scale (resonance_scale),  *)
(* and of policy_version, which the features ignore.                       *)
(***************************************************************************)

\* Keys that are given have numbers.
NumericConfig(cfg) ==
  /\ cfg.size \in Int \union {None} /\ cfg.min \in Int \union {None}
  /\ cfg.max \in Int \union {None} /\ cfg.bins \in Int

\* extract_h1_subset divides by h1_subset_size without excluding zero.
ExtractRaises(values, cfg) == cfg.size = 0 /\ values # << >>

\* A plausible bug: the step is rounded up.
SamplingStepRoundedUp(values, cfg) ==
  IF values = << >> THEN 1 ELSE (Len(values) + cfg.size - 1) \div cfg.size

\* step in extract_h1_subset: rounded down, at least one.
SamplingStep(values, cfg) ==
  IF values = << >> \/ Len(values) < cfg.size THEN 1 ELSE Len(values) \div cfg.size

\* Every step-th value from the first on, at most size of them.
ExtractH1Subset(values, cfg) ==
  IF cfg.size = None \/ cfg.size < 0 THEN values
  ELSE LET step  == SamplingStep(values, cfg)
           taken == (Len(values) + step - 1) \div step
       IN  [i \in 1..(IF taken < cfg.size THEN taken ELSE cfg.size) |->
              values[1 + (i - 1) * step]]

H2Min(cfg) == IF cfg.min = None THEN 0 ELSE cfg.min

\* An empty or inverted range is replaced by one of width 1.0.
H2Max(cfg) ==
  LET max == IF cfg.max = None THEN Top ELSE cfg.max
  IN  IF max <= H2Min(cfg) THEN H2Min(cfg) + Top ELSE max

H2Bins(cfg) == IF cfg.bins < 2 THEN 2 ELSE cfg.bins

\* The bin of a value; what lies outside the range goes to the outer bins.
BinOf(v, cfg) ==
  LET idx == ((v - H2Min(cfg)) * H2Bins(cfg)) \div (H2Max(cfg) - H2Min(cfg))
  IN  IF idx < 0 THEN 0 ELSE IF idx >= H2Bins(cfg) THEN H2Bins(cfg) - 1 ELSE idx

CountIn(bin, values, cfg) ==
  Cardinality({i \in 1..Len(values) : BinOf(values[i], cfg) = bin})

\* bins: the counts that the entropy is computed from.
Histogram(values, cfg) ==
  [bin \in 0..(H2Bins(cfg) - 1) |-> CountIn(bin, values, cfg)]

EntropyH2(values, cfg) == Entropy(Histogram(values, cfg))

Reduced(num, den) ==
  LET common == {d \in 1..den : num % d = 0 /\ den % d = 0}
      gcd    == CHOOSE d \in common : \A e \in common : e <= d
  IN  <<num \div gcd, den \div gcd>>

\* An entropy without rounding errors, for TLC: what it is a sum over, the shares of
\* the bins and how many bins have each; it is zero when no two bins have a share.
SharesOf(histogram) ==
  LET n        == SumFunction(histogram)
      occupied == {bin \in DOMAIN histogram : histogram[bin] > 0}
  IN  IF Cardinality(occupied) < 2 THEN {}
      ELSE {<<Reduced(histogram[bin], n),
              Cardinality({other \in occupied : histogram[other] = histogram[bin]})>>
              : bin \in occupied}

\* The square of min(1, scale * standard deviation).
ComputeResonance(values, cfg) ==
  LET n      == Len(values)
      sum    == SumFunction(values)
      square == SumFunction([i \in 1..n |-> values[i] * values[i]])
      num    == (n * square - sum * sum) * cfg.scale * cfg.scale
      den    == n * n * Top * Top
  IN  IF n = 0 \/ num = 0 THEN <<0, 1>>
      ELSE IF num >= den THEN <<1, 1>> ELSE Reduced(num, den)
=============================================================================
