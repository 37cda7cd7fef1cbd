------------------------------ MODULE SealProofs ------------------------------
(***************************************************************************)
(* Facts about the features of an artifact, and about what create_seal     *)
(* computes and verify_seal recomputes.                                    *)
(***************************************************************************)
EXTENDS Seal, TLAPS, FiniteSetTheorems, WellFoundedInduction

-----------------------------------------------------------------------------
(* The histogram *)

\* The clamped index is one of a bin.
LEMMA BinOfType ==
  ASSUME NEW cfg, NumericConfig(cfg), NEW v \in Byte
  PROVE  /\ H2Bins(cfg) \in Nat /\ H2Bins(cfg) >= 2
         /\ BinOf(v, cfg) \in 0..(H2Bins(cfg) - 1)
<1>1. H2Bins(cfg) \in Nat /\ H2Bins(cfg) >= 2
  BY DEF NumericConfig, H2Bins
<1>2. v \in Int /\ H2Min(cfg) \in Int /\ H2Max(cfg) \in Int /\ H2Max(cfg) > H2Min(cfg)
  BY TopAssumption DEF NumericConfig, H2Min, H2Max, Byte
<1> DEFINE num == (v - H2Min(cfg)) * H2Bins(cfg)
           den == H2Max(cfg) - H2Min(cfg)
<1>3. num \in Int /\ den \in Nat \ {0}
  BY <1>1, <1>2
<1>4. num \div den \in Int
  <2> HIDE DEF num, den
  <2>1. QED BY <1>3
<1>5. BinOf(v, cfg) \in 0..(H2Bins(cfg) - 1)
  <2> DEFINE idx == num \div den
  <2>1. idx \in Int
    BY <1>4
  <2>2. BinOf(v, cfg) = IF idx < 0 THEN 0 ELSE IF idx >= H2Bins(cfg) THEN H2Bins(cfg) - 1 ELSE idx
    BY DEF BinOf
  <2> HIDE DEF idx
  <2>3. QED BY <1>1, <2>1, <2>2
<1>6. QED BY <1>1, <1>5

\* The places of an artifact whose bytes fall into some of the bins.
PlacesIn(bins, values, cfg) == {i \in 1..Len(values) : BinOf(values[i], cfg) \in bins}

\* One bin more holds its own bytes more.
LEMMA PlacesAdd ==
  ASSUME NEW values \in Seq(Byte), NEW cfg, NEW bins, NEW bin \in bins
  PROVE  /\ Cardinality(PlacesIn(bins, values, cfg)) \in Nat
         /\ Cardinality(PlacesIn(bins, values, cfg))
              = CountIn(bin, values, cfg) + Cardinality(PlacesIn(bins \ {bin}, values, cfg))
<1> DEFINE all  == PlacesIn(bins, values, cfg)
           rest == PlacesIn(bins \ {bin}, values, cfg)
           own  == {i \in 1..Len(values) : BinOf(values[i], cfg) = bin}
<1>1. IsFiniteSet(1..Len(values))
  BY FS_Interval
<1>2. all \in SUBSET (1..Len(values)) /\ rest \in SUBSET (1..Len(values))
      /\ own \in SUBSET (1..Len(values))
  BY DEF PlacesIn
<1>3. all = own \cup rest /\ own \cap rest = {}
  BY DEF PlacesIn
<1>4. CountIn(bin, values, cfg) = Cardinality(own)
  BY DEF CountIn
<1> HIDE DEF all, rest, own
<1>5. IsFiniteSet(all) /\ IsFiniteSet(rest) /\ IsFiniteSet(own)
  BY <1>1, <1>2, FS_Subset
<1>6. /\ Cardinality(all) \in Nat /\ Cardinality(rest) \in Nat /\ Cardinality(own) \in Nat
      /\ Cardinality(own \cap rest) = 0
  BY <1>3, <1>5, FS_CardinalityType, FS_EmptySet
<1>7. Cardinality(all) = Cardinality(own) + Cardinality(rest) - Cardinality(own \cap rest)
  BY <1>3, <1>5, FS_Union
<1>8. QED BY <1>4, <1>6, <1>7 DEF all, rest

\* The fold over the histogram, for any set of its bins, counts the bytes in them.
LEMMA SumOverBins ==
  ASSUME NEW values \in Seq(Byte), NEW cfg, NumericConfig(cfg)
  PROVE  SumFunction(Histogram(values, cfg))
           = Cardinality(PlacesIn(0..(H2Bins(cfg) - 1), values, cfg))
<1> DEFINE Bins == 0..(H2Bins(cfg) - 1)
           hist == Histogram(values, cfg)
           sum[s \in SUBSET Bins] ==
             IF s = {} THEN 0 ELSE LET x == CHOOSE x \in s : TRUE IN hist[x] + sum[s \ {x}]
           count == [s \in SUBSET Bins |-> Cardinality(PlacesIn(s, values, cfg))]
<1>1. DOMAIN hist = Bins /\ \A bin \in Bins : hist[bin] = CountIn(bin, values, cfg)
  BY DEF Histogram
<1>2. IsFiniteSet(Bins)
  <2>1. H2Bins(cfg) - 1 \in Int
    BY DEF NumericConfig, H2Bins
  <2>2. QED BY <2>1, FS_Interval
<1> HIDE DEF Bins, hist
<1>3. ASSUME NEW s \in SUBSET Bins
      PROVE  count[s] = IF s = {} THEN 0
                        ELSE LET x == CHOOSE x \in s : TRUE IN hist[x] + count[s \ {x}]
  <2>1. CASE s = {}
    <3>1. PlacesIn(s, values, cfg) = {}
      BY <2>1 DEF PlacesIn
    <3>2. QED BY <2>1, <3>1, FS_EmptySet
  <2>2. CASE s # {}
    <3> DEFINE x == CHOOSE x \in s : TRUE
    <3>1. x \in s
      BY <2>2
    <3> HIDE DEF x
    <3>2. s \ {x} \in SUBSET Bins /\ hist[x] = CountIn(x, values, cfg)
      BY <1>1, <3>1
    <3>3. count[s] = hist[x] + count[s \ {x}]
      BY <3>1, <3>2, PlacesAdd
    <3>4. QED BY <2>2, <3>3 DEF x
  <2>3. QED BY <2>1, <2>2
<1>4. count = [s \in SUBSET Bins |->
                 IF s = {} THEN 0
                 ELSE LET x == CHOOSE x \in s : TRUE IN hist[x] + count[s \ {x}]]
  BY <1>3
<1>5. sum = [s \in SUBSET Bins |->
               IF s = {} THEN 0
               ELSE LET x == CHOOSE x \in s : TRUE IN hist[x] + sum[s \ {x}]]
  <2> HIDE DEF count
  <2>1. QED BY Zenon, <1>4 DEF sum
<1>6. SumFunction(hist) = sum[Bins]
  BY <1>1 DEF SumFunction, SumFunctionOnSet, FoldFunctionOnSet, MapThenFoldSet, sum
<1> HIDE DEF sum, count
<1>7. \A s \in SUBSET Bins : sum[s] = count[s]
  <2> DEFINE T == {s \in SUBSET Bins : sum[s] # count[s]}
  <2>1. SUFFICES ASSUME T # {} PROVE FALSE
    OBVIOUS
  <2>2. IsWellFoundedOn(StrictSubsetOrdering(Bins), SUBSET Bins)
    BY <1>2, FS_StrictSubsetOrderingWellFounded, FS_FiniteSubsetsOfFinite
  <2>3. PICK s \in T : \A r \in T : ~(<<r, s>> \in StrictSubsetOrdering(Bins))
    <3>1. T \subseteq SUBSET Bins
      OBVIOUS
    <3> HIDE DEF T
    <3>2. QED BY <2>1, <2>2, <3>1, WFMin
  <2>4. s # {}
    BY <1>4, <1>5
  <2> DEFINE x == CHOOSE x \in s : TRUE
  <2>5. x \in s
    BY <2>4
  <2>6. sum[s] = hist[x] + sum[s \ {x}] /\ count[s] = hist[x] + count[s \ {x}]
    BY <1>4, <1>5, <2>4
  <2> HIDE DEF x
  <2>7. <<s \ {x}, s>> \in StrictSubsetOrdering(Bins)
    BY <2>5 DEF StrictSubsetOrdering
  <2>8. s \ {x} \in SUBSET Bins /\ s \ {x} \notin T
    BY <2>3, <2>7
  <2>9. QED BY <2>6, <2>8
<1>8. QED BY <1>6, <1>7 DEF hist, count, Bins

\* Every byte of an artifact is counted, whatever the range and the number of bins.
THEOREM HistogramTotal ==
  ASSUME NEW values \in Seq(Byte), NEW cfg, NumericConfig(cfg)
  PROVE  SumFunction(Histogram(values, cfg)) = Len(values)
<1>1. PlacesIn(0..(H2Bins(cfg) - 1), values, cfg) = 1..Len(values)
  BY BinOfType DEF PlacesIn
<1>2. PICK n \in Nat : n = Len(values)
  OBVIOUS
<1>3. Cardinality(1..n) = n
  <2>1. Cardinality(1..n) = IF 1 > n THEN 0 ELSE n - 1 + 1
    BY FS_Interval
  <2>2. QED BY <2>1
<1>4. QED BY <1>1, <1>2, <1>3, SumOverBins

-----------------------------------------------------------------------------
(* The H1 subset *)

\* A quotient is at least what its divisor fits times.
LEMMA DivBounds ==
  ASSUME NEW a \in Nat, NEW b \in Nat \ {0}
  PROVE  /\ a \div b \in Nat /\ (a \div b) * b <= a /\ a < (a \div b) * b + b
         /\ \A c \in Nat : c * b <= a => c <= a \div b
OBVIOUS

\* The subset has as many bytes as it may have, or all there are.
THEOREM SubsetSize ==
  ASSUME NEW values \in Seq(Byte), NEW cfg, cfg.size \in Nat \ {0}, cfg.size # None
  PROVE  Len(ExtractH1Subset(values, cfg))
           = IF Len(values) < cfg.size THEN Len(values) ELSE cfg.size
<1> DEFINE n     == Len(values)
           step  == SamplingStep(values, cfg)
           taken == (n + step - 1) \div step
           size  == cfg.size
<1>1. n \in Nat /\ (n = 0 <=> values = << >>) /\ size \in Nat \ {0}
  OBVIOUS
<1>2. step = IF n < size THEN 1 ELSE n \div size
  BY <1>1 DEF SamplingStep
<1>3. step \in Nat \ {0}
  <2>1. CASE n < size
    BY <1>2, <2>1
  <2>2. CASE ~(n < size)
    <3>1. n \div size \in Nat /\ 1 * size <= n
      BY <1>1, <2>2, DivBounds
    <3>2. 1 <= n \div size
      BY <1>1, <3>1, DivBounds
    <3>3. QED BY <1>2, <2>2, <3>1, <3>2
  <2>3. QED BY <2>1, <2>2
<1>4. taken \in Nat
  <2> HIDE DEF n, step
  <2>1. n + step - 1 \in Nat
    BY <1>1, <1>3
  <2>2. QED BY <1>3, <2>1, DivBounds
<1>5. Len(ExtractH1Subset(values, cfg)) = IF taken < size THEN taken ELSE size
  <2> DEFINE m == IF taken < size THEN taken ELSE size
  <2>1. ExtractH1Subset(values, cfg) = [i \in 1..m |-> values[1 + (i - 1) * step]]
    BY <1>1 DEF ExtractH1Subset
  <2>2. m \in Nat
    BY <1>1, <1>4
  <2> HIDE DEF m, step
  <2>3. QED BY <2>1, <2>2 DEF m
<1>6. IF n < size THEN taken = n ELSE taken >= size
  <2>1. CASE n < size
    BY <1>1, <1>2, <2>1
  <2>2. CASE ~(n < size)
    <3>1. size * step <= n
      BY <1>1, <1>2, <2>2, DivBounds
    <3>2. size * step <= n + step - 1 /\ n + step - 1 \in Nat
      BY <1>1, <1>3, <3>1
    <3>3. taken >= size
      BY <1>1, <1>3, <3>2, DivBounds
    <3>4. QED BY <2>2, <3>3
  <2>3. QED BY <2>1, <2>2
<1>7. QED BY <1>1, <1>4, <1>5, <1>6

-----------------------------------------------------------------------------
(* The payload *)

\* Recomputed from the artifact and the record, the payload of a fresh seal is
\* the payload it was created with.
LEMMA PayloadRecomputed ==
  ASSUME NEW values, NEW config, NEW head, NEW resonance, NEW sandbox, NEW issued
  PROVE  LET seal == CreateSeal(values, config, head, resonance, sandbox, issued)
         IN  seal.epw = EpwOf(Payload(values, seal), seal.issued)
<1> DEFINE given == [config |-> config, head |-> head, resonance |-> resonance,
                     routing |-> None, sandbox |-> sandbox, digest |-> None, cvh |-> config]
           payload == Payload(values, given)
           seal == CreateSeal(values, config, head, resonance, sandbox, issued)
<1>1. /\ seal.epw = payload
      /\ seal.config = config /\ seal.head = head /\ seal.sandbox = sandbox
      /\ seal.digest = None /\ seal.routing = payload.routing
      /\ seal.resonance = payload.resonance /\ seal.cvh = payload.cvh
  BY DEF CreateSeal, EpwOf, Payload
<1>2. /\ payload.routing = << >>
      /\ payload.cvh = IF config = None THEN None ELSE config
      /\ payload.resonance = IF resonance = None THEN ComputeResonance(values, config)
                             ELSE resonance
  BY DEF Payload
<1>3. Payload(values, seal) = payload
  <2> HIDE DEF seal
  <2>1. payload = [h1 |-> ExtractH1Subset(values, config), h2 |-> EntropyH2(values, config),
                   resonance |-> payload.resonance, routing |-> << >>, config |-> config,
                   head |-> head, sandbox |-> sandbox, digest |-> None, cvh |-> payload.cvh]
    BY <1>2 DEF Payload
  <2> HIDE DEF payload
  <2>2. QED BY <1>1, <1>2, <2>1 DEF Payload
<1>4. QED BY <1>1, <1>3 DEF EpwOf

\* Of the record, the payload has what verify_seal is said to vouch for.
LEMMA PayloadFields ==
  ASSUME NEW values, NEW record
  PROVE  LET payload == Payload(values, record)
         IN  /\ payload.h1 = ExtractH1Subset(values, record.config)
             /\ payload.h2 = EntropyH2(values, record.config)
             /\ payload.config = record.config /\ payload.head = record.head
             /\ payload.sandbox = record.sandbox /\ payload.digest = record.digest
             /\ record.routing # None => payload.routing = record.routing
             /\ record.resonance # None => payload.resonance = record.resonance
             /\ record.cvh = None => payload.cvh = None
             /\ record.cvh # None => payload.cvh = record.config
BY DEF Payload
=============================================================================
