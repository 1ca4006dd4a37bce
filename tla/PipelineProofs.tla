---------------------------- MODULE PipelineProofs ----------------------------
(***************************************************************************)
(* What Pipeline promises, proved for any claims, any replies of the judge  *)
(* and any divergences, and for any settings of the fusion.                 *)
(***************************************************************************)
EXTENDS Pipeline, ListsProofs

-------------------------------------------------------------------------------
(***************************************************************************)
(* Fusion: the scale of beliefs, then the bounds of each rule.              *)
(***************************************************************************)
LEMMA Settings ==
    /\ FUSION_WEIGHT_RAG \in 1..100
    /\ FUSION_WEIGHT_SELFCHECK_CHARGE \in 0..100
    /\ FUSION_WEIGHT_SELFCHECK_DECHARGE \in 0..100
    /\ FUSION_DIVERGENCE_NEUTRE \in 1..99
    /\ FUSION_BANDE_RAG_MIN \in 0..100 /\ FUSION_BANDE_RAG_MAX \in 0..100
    /\ FUSION_SELFCHECK_SEUIL_HAUT \in 0..100
    /\ FUSION_SELFCHECK_SEUIL_BAS \in 0..100
    /\ FUSION_DECOTE_SIGNAL_SEUL \in 0..100
    /\ FUSION_SEUIL_FAUX \in 0..100 /\ FUSION_SEUIL_VRAI \in 0..100
    /\ DEAD_ZONE \in 0..100
    /\ HALF \in Nat /\ HALF > 0
    /\ Unit \in Nat /\ Unit = 2 * HALF
  BY FusionAssumption DEF Percent, Unit

LEMMA HalfIsExact ==
    ASSUME NEW k \in {100, FUSION_DIVERGENCE_NEUTRE, 100 - FUSION_DIVERGENCE_NEUTRE}
    PROVE  /\ k \in Int /\ k > 0
           /\ HALF \div k \in Nat
           /\ HALF = k * (HALF \div k)
<1>1. k \in Int /\ k > 0
  BY Settings
<1>2. HALF = k * (HALF \div k)
  BY FusionAssumption
<1>3. HALF \div k \in Int
  BY <1>1, Settings
<1>4. HALF \div k >= 0
  <2> DEFINE q == HALF \div k
  <2>1. q \in Int /\ HALF = k * q /\ HALF > 0
    BY <1>2, <1>3, Settings
  <2> HIDE DEF q
  <2>2. q >= 0
    BY <2>1, <1>1
  <2> QED
    BY <2>2 DEF q
<1> QED
  BY <1>1, <1>2, <1>3, <1>4

(* A product of factors in order is in order. *)
LEMMA TimesMonotone ==
    ASSUME NEW a \in Int, NEW b \in Int, NEW c \in Nat, a <= b
    PROVE  a * c <= b * c /\ c * a <= c * b /\ a * c \in Int /\ b * c \in Int
  OBVIOUS

(* A divergence between 0 and 1 is a belief between 0 and 1.                *)
LEMMA SelfcheckBelief ==
    ASSUME NEW d \in Percent
    PROVE  selfcheck_belief(d) \in 0..Unit
<1> DEFINE d0 == FUSION_DIVERGENCE_NEUTRE
           a  == HALF \div d0
           b  == HALF \div (100 - d0)
<1>1. a \in Nat /\ HALF = d0 * a /\ b \in Nat /\ HALF = (100 - d0) * b
  BY HalfIsExact
<1>2. d0 \in 1..99 /\ d \in 0..100 /\ HALF \in Nat /\ Unit = 2 * HALF
  BY Settings DEF Percent
<1>3. selfcheck_belief(d) = IF d <= d0 THEN HALF + a * (d0 - d) ELSE HALF - b * (d - d0)
  BY DEF selfcheck_belief
<1> HIDE DEF d0, a, b
<1>4. CASE d <= d0
  <2>1. 0 <= a * (d0 - d) /\ a * (d0 - d) <= a * d0
    BY <1>1, <1>2, <1>4
  <2>2. a * d0 = HALF
    BY <1>1, <1>2
  <2> QED
    BY <2>1, <2>2, <1>1, <1>2, <1>3, <1>4
<1>5. CASE d > d0
  <2>1. 0 <= b * (d - d0) /\ b * (d - d0) <= b * (100 - d0)
    BY <1>1, <1>2, <1>5
  <2>2. b * (100 - d0) = HALF
    BY <1>1, <1>2
  <2> QED
    BY <2>1, <2>2, <1>1, <1>2, <1>3, <1>5
<1> QED
  BY <1>2, <1>4, <1>5

LEMMA RagBelief ==
    ASSUME NEW v, v.confidence \in Int
    PROVE  /\ rag_belief(v) \in Int
           /\ v.confidence = 100 =>
                 /\ v.verdict = "LIKELY_TRUE" => rag_belief(v) = Unit
                 /\ v.verdict = "LIKELY_FALSE" => rag_belief(v) = 0
<1> DEFINE h == HALF \div 100
<1>1. h \in Nat /\ HALF = 100 * h
  BY HalfIsExact
<1>2. rag_belief(v) = IF v.verdict = "LIKELY_TRUE" THEN HALF + v.confidence * h
                         ELSE IF v.verdict = "LIKELY_FALSE" THEN HALF - v.confidence * h
                         ELSE HALF
  BY DEF rag_belief
<1>3. v.confidence * h \in Int /\ HALF \in Nat /\ Unit = 2 * HALF
  BY <1>1, Settings
<1> HIDE DEF h
<1>4. rag_belief(v) \in Int
  BY <1>2, <1>3
<1>5. v.confidence = 100 => v.confidence * h = HALF
  BY <1>1
<1> QED
  BY <1>2, <1>3, <1>4, <1>5

(* The weights, and the score they make of two beliefs.                     *)
LEMMA Weights ==
    ASSUME NEW sc \in 0..Unit
    PROVE  /\ FUSION_WEIGHT_RAG \in Nat /\ FUSION_WEIGHT_RAG > 0
           /\ SelfCheckWeight(sc) \in Nat
           /\ sc < HALF => SelfCheckWeight(sc) = FUSION_WEIGHT_SELFCHECK_CHARGE
           /\ sc >= HALF => SelfCheckWeight(sc) = FUSION_WEIGHT_SELFCHECK_DECHARGE
  BY Settings DEF SelfCheckWeight

LEMMA ScoreIsFraction ==
    ASSUME NEW belief \in Int, NEW sc \in 0..Unit
    PROVE  /\ Score(belief, sc)[1] \in Int
           /\ Score(belief, sc)[2] \in Nat /\ Score(belief, sc)[2] > 0
<1> DEFINE W == FUSION_WEIGHT_RAG
           w == SelfCheckWeight(sc)
<1>1. W \in Nat /\ W > 0 /\ w \in Nat /\ Unit \in Nat /\ Unit > 0 /\ sc \in Int
  BY Weights, Settings
<1>2. Score(belief, sc)[1] = W * belief + w * sc /\ Score(belief, sc)[2] = (W + w) * Unit
  BY DEF Score
<1> HIDE DEF W, w
<1>3. W * belief + w * sc \in Int
  BY <1>1
<1>4. (W + w) * Unit \in Nat /\ (W + w) * Unit > 0
  BY <1>1
<1> QED
  BY <1>2, <1>3, <1>4

(* Two beliefs on one side of a point make a score on that side.            *)
LEMMA ScoreBetween ==
    ASSUME NEW belief \in Int, NEW sc \in 0..Unit, NEW t \in Int
    PROVE  /\ (t * Unit <= 100 * belief /\ t * Unit <= 100 * sc) =>
                 t * Score(belief, sc)[2] <= 100 * Score(belief, sc)[1]
           /\ (100 * belief <= t * Unit /\ 100 * sc <= t * Unit) =>
                 100 * Score(belief, sc)[1] <= t * Score(belief, sc)[2]
<1> DEFINE W == FUSION_WEIGHT_RAG
           w == SelfCheckWeight(sc)
           u == t * Unit
           num == W * belief + w * sc
<1>1. W \in Nat /\ w \in Nat /\ Unit \in Nat /\ sc \in Int /\ u \in Int
  BY Weights, Settings
<1>2. Score(belief, sc)[1] = num /\ Score(belief, sc)[2] = (W + w) * Unit
  BY DEF Score
<1>3. t * ((W + w) * Unit) = W * u + w * u
  BY <1>1
<1>4. 100 * num = W * (100 * belief) + w * (100 * sc)
  BY <1>1
<1> DEFINE b == 100 * belief
           s == 100 * sc
<1>5. b \in Int /\ s \in Int
  BY <1>1
<1> HIDE DEF W, w, u, b, s
<1>6. /\ W * b \in Int /\ w * s \in Int /\ W * u \in Int /\ w * u \in Int
      /\ u <= b => W * u <= W * b
      /\ u <= s => w * u <= w * s
      /\ b <= u => W * b <= W * u
      /\ s <= u => w * s <= w * u
  BY <1>1, <1>5, TimesMonotone
<1>7. t * Score(belief, sc)[2] = W * u + w * u
  BY <1>2, <1>3
<1>8. 100 * Score(belief, sc)[1] = W * b + w * s
  BY <1>2, <1>4 DEF b, s
<1>9. /\ u <= b /\ u <= s => W * u + w * u <= W * b + w * s
      /\ b <= u /\ s <= u => W * b + w * s <= W * u + w * u
  BY <1>6
<1> QED
  BY <1>7, <1>8, <1>9 DEF u, b, s

(* A fraction in range.                                                     *)
Fraction(f) == f[1] \in Int /\ f[2] \in Int /\ f[2] > 0

LEMMA Clamped ==
    ASSUME NEW f, Fraction(f)
    PROVE  /\ 0 <= Clamp(f)[1] /\ Clamp(f)[1] <= Clamp(f)[2] /\ Clamp(f)[2] > 0
           /\ f[1] = 0 => Clamp(f)[1] = 0
           /\ \A t \in 0..100 : t * f[2] <= 100 * f[1] => t * Clamp(f)[2] <= 100 * Clamp(f)[1]
<1> DEFINE p == f[1]
           q == f[2]
<1>1. p \in Int /\ q \in Int /\ q > 0
  BY DEF Fraction
<1>2. CASE p < 0
  <2>1. Clamp(f) = <<0, 1>>
    BY <1>2 DEF Clamp
  <2> HIDE DEF p, q
  <2>2. \A t \in 0..100 : ~(t * q <= 100 * p)
    <3> TAKE t \in 0..100
    <3>1. 0 <= t * q
      BY <1>1
    <3> QED
      BY <3>1, <1>1, <1>2
  <2> QED
    BY <2>1, <2>2, <1>1, <1>2 DEF p, q
<1>3. CASE p > q
  <2>1. Clamp(f) = <<1, 1>>
    BY <1>1, <1>3 DEF Clamp
  <2>2. Clamp(f)[1] = 1 /\ Clamp(f)[2] = 1
    BY <2>1
  <2>3. f[1] # 0
    BY <1>1, <1>3
  <2> HIDE DEF p, q
  <2>4. \A t \in 0..100 : t * Clamp(f)[2] <= 100 * Clamp(f)[1]
    BY <2>2
  <2>5. 0 <= Clamp(f)[1] /\ Clamp(f)[1] <= Clamp(f)[2] /\ Clamp(f)[2] > 0
    BY <2>2
  <2> QED
    BY <2>3, <2>4, <2>5
<1>4. CASE 0 <= p /\ p <= q
  <2>1. Clamp(f) = f
    BY <1>1, <1>4 DEF Clamp
  <2>2. Clamp(f)[1] = p /\ Clamp(f)[2] = q
    BY <2>1
  <2>3. \A t \in 0..100 : t * f[2] <= 100 * f[1] => t * Clamp(f)[2] <= 100 * Clamp(f)[1]
    BY <2>1
  <2> HIDE DEF p, q
  <2>4. 0 <= Clamp(f)[1] /\ Clamp(f)[1] <= Clamp(f)[2] /\ Clamp(f)[2] > 0
    BY <2>2, <1>1, <1>4
  <2>5. f[1] = 0 => Clamp(f)[1] = 0
    BY <2>1
  <2> QED
    BY <2>3, <2>4, <2>5
<1> QED
  BY <1>1, <1>2, <1>3, <1>4

(* What a rule renders: a fraction, 0 when nothing is concluded, and at     *)
(* least the threshold when a conviction is firm.                           *)
FirmVerdicts == {"SUPPORTED", "CONTRADICTED"}

Rendered(f) ==
    /\ f.verdict \in FirmVerdicts \cup {"NOT_ENOUGH_INFO"}
    /\ f.fondement \in {"PREUVE_FEVER", "CONVICTION", "AUCUN"}
    /\ Fraction(f.confidence)
    /\ f.verdict = "NOT_ENOUGH_INFO" => f.confidence[1] = 0
    /\ (ComparableSettings /\ f.verdict \in FirmVerdicts /\ f.fondement = "CONVICTION") =>
          FUSION_SEUIL_VRAI * f.confidence[2] <= 100 * f.confidence[1]

LEMMA DistanceIsInt ==
    ASSUME NEW belief \in Int
    PROVE  /\ Distance(belief) \in Nat
           /\ belief >= HALF => Distance(belief) = belief - HALF
           /\ belief <= HALF => Distance(belief) = HALF - belief
  BY Settings DEF Distance

(* R3: a belief beyond a threshold is far enough from the middle.           *)
LEMMA AloneIsFirm ==
    ASSUME NEW sc \in 0..Unit, ComparableSettings,
           Above(sc, FUSION_SELFCHECK_SEUIL_HAUT) \/ Below(sc, FUSION_SELFCHECK_SEUIL_BAS)
    PROVE  FUSION_SEUIL_VRAI * (100 * Unit)
              <= 100 * (100 * HALF + Distance(sc) * FUSION_DECOTE_SIGNAL_SEUL)
<1> DEFINE gap  == IF Above(sc, FUSION_SELFCHECK_SEUIL_HAUT)
                   THEN FUSION_SELFCHECK_SEUIL_HAUT - 50 ELSE 50 - FUSION_SELFCHECK_SEUIL_BAS
           D    == Distance(sc)
           K    == FUSION_DECOTE_SIGNAL_SEUL
           V    == FUSION_SEUIL_VRAI
<1>1. /\ FUSION_SELFCHECK_SEUIL_HAUT \in 50..100 /\ FUSION_SELFCHECK_SEUIL_BAS \in 0..50
      /\ HALF \in Nat /\ Unit = 2 * HALF /\ sc \in Int /\ K \in Nat /\ V \in Nat
  BY Settings DEF ComparableSettings
<1>2. gap \in Nat
  BY <1>1
<1>3. 100 * V <= 5000 + gap * K
  BY DEF ComparableSettings
<1>4. D \in Nat /\ gap * HALF <= 50 * D
  <2>1. CASE Above(sc, FUSION_SELFCHECK_SEUIL_HAUT)
    <3> DEFINE hi == FUSION_SELFCHECK_SEUIL_HAUT
    <3>1. hi * (2 * HALF) < 100 * sc /\ gap = hi - 50
      BY <1>1, <2>1 DEF Above
    <3>2. hi \in 50..100
      BY <1>1
    <3> HIDE DEF hi, gap
    <3>3. hi * (2 * HALF) = 2 * (gap * HALF) + 100 * HALF
      BY <1>1, <3>1, <3>2
    <3>4. gap * HALF \in Nat
      BY <1>1, <1>2
    <3>5. 50 * sc > gap * HALF + 50 * HALF
      BY <1>1, <3>1, <3>3, <3>4
    <3>6. sc >= HALF
      BY <1>1, <3>4, <3>5
    <3> QED
      BY <1>1, <3>4, <3>5, <3>6, DistanceIsInt
  <2>2. CASE ~Above(sc, FUSION_SELFCHECK_SEUIL_HAUT)
    <3> DEFINE lo == FUSION_SELFCHECK_SEUIL_BAS
    <3>1. 100 * sc < lo * (2 * HALF) /\ gap = 50 - lo
      BY <1>1, <2>2 DEF Below
    <3>2. lo \in 0..50
      BY <1>1
    <3> HIDE DEF lo, gap
    <3>3. lo * (2 * HALF) = 100 * HALF - 2 * (gap * HALF)
      BY <1>1, <3>1, <3>2
    <3>4. gap * HALF \in Nat
      BY <1>1, <1>2
    <3>5. 50 * sc < 50 * HALF - gap * HALF
      BY <1>1, <3>1, <3>3, <3>4
    <3>6. sc <= HALF
      BY <1>1, <3>4, <3>5
    <3> QED
      BY <1>1, <3>4, <3>5, <3>6, DistanceIsInt
  <2> QED
    BY <2>1, <2>2
<1> HIDE DEF gap, D, K, V
<1>5. (gap * HALF) * K <= (50 * D) * K
  BY <1>1, <1>2, <1>4, TimesMonotone
<1>6. HALF * (100 * V) <= HALF * (5000 + gap * K)
  BY <1>1, <1>2, <1>3, TimesMonotone
<1>7. HALF * (5000 + gap * K) = 5000 * HALF + (gap * HALF) * K
  BY <1>1, <1>2
<1>8. HALF * (100 * V) <= 5000 * HALF + (50 * D) * K
  BY <1>1, <1>2, <1>4, <1>5, <1>6, <1>7
<1>9. V * (100 * Unit) = 2 * (HALF * (100 * V))
  BY <1>1
<1>10. 100 * (100 * HALF + D * K) = 2 * (5000 * HALF + (50 * D) * K)
  BY <1>1, <1>4
<1> QED
  BY <1>1, <1>2, <1>4, <1>8, <1>9, <1>10 DEF V, D, K

LEMMA SelfCheckAloneRenders ==
    ASSUME NEW sc \in 0..Unit
    PROVE  Rendered(SelfCheckAlone(sc))
<1>1. CASE Above(sc, FUSION_SELFCHECK_SEUIL_HAUT) \/ Below(sc, FUSION_SELFCHECK_SEUIL_BAS)
  <2> DEFINE n == 100 * HALF + Distance(sc) * FUSION_DECOTE_SIGNAL_SEUL
             f == SelfCheckAlone(sc)
  <2>1. /\ f.verdict \in FirmVerdicts /\ f.fondement = "CONVICTION"
        /\ f.confidence = <<n, 100 * Unit>>
    BY <1>1 DEF SelfCheckAlone, Fused, FirmVerdicts
  <2>2. n \in Int
    <3>1. Distance(sc) \in Int /\ FUSION_DECOTE_SIGNAL_SEUL \in Int /\ HALF \in Int
      BY DistanceIsInt, Settings
    <3> QED
      BY <3>1
  <2>3. 100 * Unit \in Int /\ 100 * Unit > 0
    BY Settings
  <2>4. ComparableSettings => FUSION_SEUIL_VRAI * (100 * Unit) <= 100 * n
    BY <1>1, AloneIsFirm
  <2> HIDE DEF n, f
  <2>5. f.confidence[1] = n /\ f.confidence[2] = 100 * Unit
    BY <2>1
  <2> QED
    BY <2>1, <2>2, <2>3, <2>4, <2>5 DEF Rendered, Fraction, FirmVerdicts, f
<1>2. CASE ~(Above(sc, FUSION_SELFCHECK_SEUIL_HAUT) \/ Below(sc, FUSION_SELFCHECK_SEUIL_BAS))
  <2>1. SelfCheckAlone(sc) = [verdict |-> "NOT_ENOUGH_INFO", confidence |-> <<0, 1>>,
                              fondement |-> "AUCUN"]
    BY <1>2 DEF SelfCheckAlone, Fused
  <2> QED
    BY <2>1 DEF Rendered, Fraction, FirmVerdicts
<1> QED
  BY <1>1, <1>2

(* R4: two signals of one side are beyond the dead zone on that side.       *)
LEMMA DirectionIsFar ==
    ASSUME NEW belief \in Int
    PROVE  /\ _direction(belief) \in {-1, 0, 1}
           /\ _direction(belief) = 1 => (50 + DEAD_ZONE) * Unit <= 100 * belief
           /\ _direction(belief) = -1 => 100 * belief <= (50 - DEAD_ZONE) * Unit
<1> DEFINE Z == DEAD_ZONE
           D == Distance(belief)
<1>1. Z \in 0..100 /\ HALF \in Nat /\ Unit = 2 * HALF /\ D \in Nat
  BY Settings, DistanceIsInt
<1>2. ~Below(D, Z) => Z * (2 * HALF) <= 100 * D
  BY <1>1 DEF Below
<1>3. /\ (50 + Z) * Unit = 100 * HALF + Z * (2 * HALF)
      /\ (50 - Z) * Unit = 100 * HALF - Z * (2 * HALF)
      /\ Z * (2 * HALF) \in Nat
  BY <1>1
<1>4. /\ _direction(belief) \in {-1, 0, 1}
      /\ _direction(belief) # 0 => ~Below(D, Z)
      /\ _direction(belief) = 1 => belief > HALF
      /\ _direction(belief) = -1 => ~(belief > HALF)
  BY DEF _direction
<1>5. /\ belief > HALF => D = belief - HALF
      /\ ~(belief > HALF) => D = HALF - belief
  BY <1>1, DistanceIsInt
<1> HIDE DEF Z, D
<1> QED
  BY <1>1, <1>2, <1>3, <1>4, <1>5 DEF Z

LEMMA ArbitratedRenders ==
    ASSUME NEW belief \in Int, NEW sc \in 0..Unit
    PROVE  Rendered(Arbitrated(belief, sc))
<1> DEFINE score   == Score(belief, sc)
           lean    == _direction(belief)
           agreed  == lean # 0 /\ lean = _direction(sc)
           verdict == IF agreed THEN IF lean > 0 THEN "SUPPORTED" ELSE "CONTRADICTED"
                                ELSE _classify(score)
           f == Arbitrated(belief, sc)
           V == FUSION_SEUIL_VRAI
           p == score[1]
           q == score[2]
<1>1. p \in Int /\ q \in Nat /\ q > 0 /\ sc \in Int /\ V \in 0..100 /\ DEAD_ZONE \in 0..100
      /\ FUSION_SEUIL_FAUX \in 0..100
  BY ScoreIsFraction, Settings
<1>2. f = [verdict |-> verdict, confidence |-> _confidence(verdict, score),
           fondement |-> "CONVICTION"]
  BY DEF Arbitrated, Fused
<1>3. verdict \in FirmVerdicts \cup {"NOT_ENOUGH_INFO"}
  BY DEF _classify, FirmVerdicts
<1>4. CASE verdict = "NOT_ENOUGH_INFO"
  <2>1. f.verdict = "NOT_ENOUGH_INFO" /\ f.confidence = <<0, 1>> /\ f.fondement = "CONVICTION"
    BY <1>2, <1>4 DEF _confidence
  <2> QED
    BY <2>1 DEF Rendered, Fraction, FirmVerdicts
<1>5. CASE verdict = "SUPPORTED"
  <2>1. f.verdict = "SUPPORTED" /\ f.confidence[1] = p /\ f.confidence[2] = q
           /\ f.fondement = "CONVICTION"
    BY <1>2, <1>5 DEF _confidence
  <2>2. ComparableSettings => V * q <= 100 * p
    <3>1. CASE agreed
      <4>1. lean = 1 /\ _direction(sc) = 1
        BY <1>5, <3>1, DirectionIsFar
      <4>2. (50 + DEAD_ZONE) * Unit <= 100 * belief /\ (50 + DEAD_ZONE) * Unit <= 100 * sc
        BY <1>1, <4>1, DirectionIsFar
      <4>3. (50 + DEAD_ZONE) * q <= 100 * p
        <5>1. 50 + DEAD_ZONE \in Int
          BY <1>1
        <5> QED
          BY <5>1, <4>2, ScoreBetween
      <4>4. ComparableSettings => V * q <= (50 + DEAD_ZONE) * q
        <5>1. ComparableSettings => V <= 50 + DEAD_ZONE
          BY DEF ComparableSettings
        <5> QED
          BY <5>1, <1>1, TimesMonotone
      <4> HIDE DEF p, q
      <4> QED
        BY <4>3, <4>4, <1>1
    <3>2. CASE ~agreed
      <4>1. _classify(score) = "SUPPORTED"
        BY <1>5, <3>2
      <4> QED
        BY <4>1, <1>1 DEF _classify
    <3> QED
      BY <3>1, <3>2
  <2> QED
    BY <1>1, <2>1, <2>2 DEF Rendered, Fraction, FirmVerdicts
<1>6. CASE verdict = "CONTRADICTED"
  <2>1. f.verdict = "CONTRADICTED" /\ f.confidence[1] = q - p /\ f.confidence[2] = q
           /\ f.fondement = "CONVICTION"
    BY <1>2, <1>6 DEF _confidence
  <2>2. ComparableSettings => 100 * p <= (100 - V) * q
    <3>1. CASE agreed
      <4>1. lean = -1 /\ _direction(sc) = -1
        BY <1>6, <3>1, DirectionIsFar
      <4>2. 100 * belief <= (50 - DEAD_ZONE) * Unit /\ 100 * sc <= (50 - DEAD_ZONE) * Unit
        BY <1>1, <4>1, DirectionIsFar
      <4>3. 100 * p <= (50 - DEAD_ZONE) * q
        <5>1. 50 - DEAD_ZONE \in Int
          BY <1>1
        <5> QED
          BY <5>1, <4>2, ScoreBetween
      <4>4. ComparableSettings => (50 - DEAD_ZONE) * q <= (100 - V) * q
        <5>1. ComparableSettings => 50 - DEAD_ZONE <= 100 - V
          BY <1>1 DEF ComparableSettings
        <5>2. 50 - DEAD_ZONE \in Int /\ 100 - V \in Int
          BY <1>1
        <5> QED
          BY <5>1, <5>2, <1>1, TimesMonotone
      <4>5. (50 - DEAD_ZONE) * q \in Int /\ (100 - V) * q \in Int
        BY <1>1
      <4> HIDE DEF p, q
      <4> QED
        BY <4>3, <4>4, <4>5, <1>1
    <3>2. CASE ~agreed
      <4>1. _classify(score) = "CONTRADICTED"
        BY <1>6, <3>2
      <4>2. 100 * p < FUSION_SEUIL_FAUX * q
        BY <4>1, <1>1 DEF _classify
      <4>3. ComparableSettings => FUSION_SEUIL_FAUX * q <= (100 - V) * q
        <5>1. ComparableSettings => FUSION_SEUIL_FAUX <= 100 - V
          BY <1>1 DEF ComparableSettings
        <5>2. FUSION_SEUIL_FAUX \in Int /\ 100 - V \in Int
          BY <1>1
        <5> QED
          BY <5>1, <5>2, <1>1, TimesMonotone
      <4>4. FUSION_SEUIL_FAUX * q \in Int /\ (100 - V) * q \in Int
        BY <1>1
      <4> HIDE DEF p, q
      <4> QED
        BY <4>2, <4>3, <4>4, <1>1
    <3> QED
      BY <3>1, <3>2
  <2>3. ComparableSettings => V * q <= 100 * (q - p)
    <3>1. (100 - V) * q = 100 * q - V * q /\ V * q \in Int
      BY <1>1
    <3> HIDE DEF p, q
    <3> QED
      BY <2>2, <3>1, <1>1
  <2>4. q - p \in Int
    BY <1>1
  <2> HIDE DEF p, q
  <2> QED
    BY <1>1, <2>1, <2>3, <2>4 DEF Rendered, Fraction, FirmVerdicts
<1> QED
  BY <1>3, <1>4, <1>5, <1>6 DEF FirmVerdicts

LEMMA FuseClaimRenders ==
    ASSUME NEW v, v.confidence \in Int, NEW d \in Percent
    PROVE  Rendered(fuse_claim(v, d))
<1> DEFINE sc == selfcheck_belief(d)
           belief == rag_belief(v)
<1>1. sc \in 0..Unit /\ belief \in Int
  BY SelfcheckBelief, RagBelief
<1>2. \/ fuse_claim(v, d) = Fused("SUPPORTED", <<v.confidence, 100>>, "PREUVE_FEVER")
      \/ fuse_claim(v, d) = Fused("CONTRADICTED", <<v.confidence, 100>>, "PREUVE_FEVER")
      \/ fuse_claim(v, d) = SelfCheckAlone(sc)
      \/ fuse_claim(v, d) = Arbitrated(belief, sc)
  BY DEF fuse_claim, Fever
<1>3. ASSUME NEW verdict \in FirmVerdicts
      PROVE  Rendered(Fused(verdict, <<v.confidence, 100>>, "PREUVE_FEVER"))
  BY <1>3 DEF Rendered, Fused, Fraction, FirmVerdicts
<1>4. Rendered(SelfCheckAlone(sc)) /\ Rendered(Arbitrated(belief, sc))
  BY <1>1, SelfCheckAloneRenders, ArbitratedRenders
<1> QED
  BY <1>2, <1>3, <1>4 DEF FirmVerdicts

(* What a claim of no panne gets.                                           *)
LEMMA FusedWithoutPanne ==
    ASSUME NEW v, v.confidence \in Int, NEW d \in Percent \cup {NoDivergence}
    PROVE  \E e \in Percent :
              /\ d # NoDivergence => e = d
              /\ Rendered(fuse_claim(v, e))
              /\ FusedVerdict(FALSE, v, d) =
                   [verdict    |-> fuse_claim(v, e).verdict,
                    confidence |-> Clamp(fuse_claim(v, e).confidence),
                    fondement  |-> fuse_claim(v, e).fondement,
                    evidence   |-> IF fuse_claim(v, e).fondement = "PREUVE_FEVER"
                                   THEN v.evidence ELSE NoEvidence]
<1> DEFINE e == IF d = NoDivergence THEN FUSION_DIVERGENCE_NEUTRE ELSE d
<1>1. e \in Percent
  BY Settings DEF Percent
<1>2. Rendered(fuse_claim(v, e))
  BY <1>1, FuseClaimRenders
<1> WITNESS e \in Percent
<1> QED
  BY <1>2 DEF FusedVerdict

LEMMA FusedPanne ==
    ASSUME NEW v, NEW d
    PROVE  FusedVerdict(TRUE, v, d) = [verdict |-> "PANNE", confidence |-> <<0, 1>>,
                                       fondement |-> "AUCUN", evidence |-> NoEvidence]
  BY DEF FusedVerdict

(* The confidence of every outcome, and the verdict of a panne.             *)
LEMMA FusedIsComparable ==
    ASSUME NEW panne \in BOOLEAN, NEW v, v.confidence \in Int,
           NEW d \in Percent \cup {NoDivergence}
    PROVE  LET r == FusedVerdict(panne, v, d)
               f == r.confidence
           IN  /\ 0 <= f[1] /\ f[1] <= f[2] /\ f[2] > 0
               /\ r.verdict = "PANNE" <=> panne
               /\ r.verdict \in {"PANNE", "NOT_ENOUGH_INFO"} => f[1] = 0
               /\ (ComparableSettings /\ r.verdict \in FirmVerdicts
                      /\ r.fondement = "CONVICTION") =>
                     FUSION_SEUIL_VRAI * f[2] <= 100 * f[1]
<1>1. CASE panne
  <2>1. FusedVerdict(panne, v, d) = [verdict |-> "PANNE", confidence |-> <<0, 1>>,
                                     fondement |-> "AUCUN", evidence |-> NoEvidence]
    BY <1>1, FusedPanne
  <2> QED
    BY <2>1, <1>1 DEF FirmVerdicts
<1>2. CASE ~panne
  <2>1. PICK e \in Percent :
          /\ Rendered(fuse_claim(v, e))
          /\ FusedVerdict(FALSE, v, d) =
                   [verdict    |-> fuse_claim(v, e).verdict,
                    confidence |-> Clamp(fuse_claim(v, e).confidence),
                    fondement  |-> fuse_claim(v, e).fondement,
                    evidence   |-> IF fuse_claim(v, e).fondement = "PREUVE_FEVER"
                                   THEN v.evidence ELSE NoEvidence]
    BY FusedWithoutPanne
  <2> DEFINE g == fuse_claim(v, e)
             r == FusedVerdict(panne, v, d)
             f == r.confidence
  <2>2. r.verdict = g.verdict /\ f = Clamp(g.confidence) /\ r.fondement = g.fondement
    <3>1. panne = FALSE
      BY <1>2
    <3>2. r = [verdict    |-> g.verdict,
               confidence |-> Clamp(g.confidence),
               fondement  |-> g.fondement,
               evidence   |-> IF g.fondement = "PREUVE_FEVER" THEN v.evidence ELSE NoEvidence]
      BY <2>1, <3>1
    <3> HIDE DEF g, r
    <3> QED
      BY <3>2
  <2>3. Rendered(g)
    BY <2>1
  <2> HIDE DEF g, r
  <2>4. /\ 0 <= f[1] /\ f[1] <= f[2] /\ f[2] > 0
        /\ g.confidence[1] = 0 => f[1] = 0
        /\ \A t \in 0..100 : t * g.confidence[2] <= 100 * g.confidence[1]
                                => t * f[2] <= 100 * f[1]
    BY <2>2, <2>3, Clamped DEF Rendered
  <2>5. r.verdict \in FirmVerdicts \cup {"NOT_ENOUGH_INFO"}
    BY <2>2, <2>3 DEF Rendered
  <2>6. r.verdict = "NOT_ENOUGH_INFO" => f[1] = 0
    BY <2>2, <2>3, <2>4 DEF Rendered
  <2>7. (ComparableSettings /\ r.verdict \in FirmVerdicts /\ r.fondement = "CONVICTION") =>
           FUSION_SEUIL_VRAI * f[2] <= 100 * f[1]
    BY <2>2, <2>3, <2>4, Settings DEF Rendered
  <2>8. r.verdict # "PANNE"
    BY <2>5 DEF FirmVerdicts
  <2> QED
    BY <2>4, <2>6, <2>7, <2>8, <1>2 DEF r
<1> QED
  BY <1>1, <1>2

-------------------------------------------------------------------------------
(* A belief at an end of the axis, against any divergence: the lightest     *)
(* score on each side of the middle is above, or below, the threshold.      *)
LEMMA CertainTrue ==
    ASSUME NEW sc \in 0..Unit, AsymmetricSettings
    PROVE  _classify(Score(Unit, sc)) # "CONTRADICTED"
<1> DEFINE W == FUSION_WEIGHT_RAG
           C == FUSION_WEIGHT_SELFCHECK_CHARGE
           D == FUSION_WEIGHT_SELFCHECK_DECHARGE
           w == SelfCheckWeight(sc)
           F == FUSION_SEUIL_FAUX
<1>1. /\ W \in Nat /\ C \in Nat /\ D \in Nat /\ F \in Nat /\ w \in Nat
      /\ HALF \in Nat /\ HALF > 0 /\ Unit = 2 * HALF /\ sc \in 0..Unit
  BY Settings, Weights
<1>2. Score(Unit, sc)[1] = W * Unit + w * sc /\ Score(Unit, sc)[2] = (W + w) * Unit
  BY DEF Score
<1>3. F * (W + C) <= 100 * W /\ F * (W + D) <= 100 * W + 50 * D
  BY DEF AsymmetricSettings
<1>4. (sc < HALF => w = C) /\ (sc >= HALF => w = D)
  BY Weights
<1>5. F * ((W + w) * Unit) <= 100 * (W * Unit + w * sc)
  <2> HIDE DEF W, C, D, w, F
  <2>1. CASE sc < HALF
    <3>1. (F * (W + w)) * Unit <= (100 * W) * Unit
      <4>1. F * (W + w) \in Int /\ 100 * W \in Int /\ Unit \in Nat
        BY <1>1
      <4> QED
        BY <4>1, <1>3, <1>4, <2>1, TimesMonotone
    <3>2. 0 <= w * sc
      BY <1>1
    <3>3. F * ((W + w) * Unit) = (F * (W + w)) * Unit
      BY <1>1
    <3>4. 100 * (W * Unit + w * sc) = (100 * W) * Unit + 100 * (w * sc)
      BY <1>1
    <3>5. (F * (W + w)) * Unit \in Int /\ (100 * W) * Unit \in Int /\ w * sc \in Int
      BY <1>1
    <3> QED
      BY <3>1, <3>2, <3>3, <3>4, <3>5
  <2>2. CASE sc >= HALF
    <3>1. (F * (W + w)) * Unit <= (100 * W + 50 * w) * Unit
      <4>1. F * (W + w) \in Int /\ 100 * W + 50 * w \in Int /\ Unit \in Nat
        BY <1>1
      <4> QED
        BY <4>1, <1>3, <1>4, <2>2, TimesMonotone
    <3>2. HALF * w <= sc * w
      BY <1>1, <2>2, TimesMonotone
    <3>3. F * ((W + w) * Unit) = (F * (W + w)) * Unit
      BY <1>1
    <3>4. (100 * W + 50 * w) * Unit = 100 * (W * Unit) + 100 * (HALF * w)
      BY <1>1
    <3>5. 100 * (W * Unit + w * sc) = 100 * (W * Unit) + 100 * (sc * w)
      BY <1>1
    <3>6. W * Unit \in Int /\ HALF * w \in Int /\ sc * w \in Int /\ (F * (W + w)) * Unit \in Int
      BY <1>1
    <3> QED
      BY <3>1, <3>2, <3>3, <3>4, <3>5, <3>6
  <2> QED
    BY <1>1, <2>1, <2>2
<1>6. ~(100 * Score(Unit, sc)[1] < F * Score(Unit, sc)[2])
  <2>1. W * Unit + w * sc \in Int /\ (W + w) * Unit \in Int
    BY <1>1
  <2> DEFINE x == F * ((W + w) * Unit)
             y == 100 * (W * Unit + w * sc)
  <2>2. x \in Int /\ y \in Int /\ x <= y
    BY <2>1, <1>1, <1>5
  <2>3. F * Score(Unit, sc)[2] = x /\ 100 * Score(Unit, sc)[1] = y
    BY <1>2
  <2> HIDE DEF x, y
  <2> QED
    BY <2>2, <2>3
<1> QED
  BY <1>6 DEF _classify

LEMMA CertainFalse ==
    ASSUME NEW sc \in 0..Unit, AsymmetricSettings
    PROVE  _classify(Score(0, sc)) # "SUPPORTED"
<1> DEFINE W == FUSION_WEIGHT_RAG
           C == FUSION_WEIGHT_SELFCHECK_CHARGE
           D == FUSION_WEIGHT_SELFCHECK_DECHARGE
           w == SelfCheckWeight(sc)
           V == FUSION_SEUIL_VRAI
<1>1. /\ W \in Nat /\ C \in Nat /\ D \in Nat /\ V \in Nat /\ w \in Nat
      /\ HALF \in Nat /\ HALF > 0 /\ Unit = 2 * HALF /\ sc \in 0..Unit
  BY Settings, Weights
<1>2. Score(0, sc)[1] = W * 0 + w * sc /\ Score(0, sc)[2] = (W + w) * Unit
  BY DEF Score
<1>3. 50 * C <= V * (W + C) /\ 100 * D <= V * (W + D)
  BY DEF AsymmetricSettings
<1>4. (sc < HALF => w = C) /\ (sc >= HALF => w = D)
  BY Weights
<1>5. 100 * (W * 0 + w * sc) <= V * ((W + w) * Unit)
  <2> HIDE DEF W, C, D, w, V
  <2>1. V * ((W + w) * Unit) = (V * (W + w)) * Unit /\ (V * (W + w)) * Unit \in Int
    BY <1>1
  <2>2. 100 * (W * 0 + w * sc) = 100 * (sc * w) /\ sc * w \in Int /\ Unit * w \in Int
        /\ HALF * w \in Int
    BY <1>1
  <2>3. CASE sc < HALF
    <3>1. (50 * w) * Unit <= (V * (W + w)) * Unit
      <4>1. V * (W + w) \in Int /\ 50 * w \in Int /\ Unit \in Nat
        BY <1>1
      <4> QED
        BY <4>1, <1>3, <1>4, <2>3, TimesMonotone
    <3>2. sc * w <= HALF * w
      BY <1>1, <2>3, TimesMonotone
    <3>3. (50 * w) * Unit = 100 * (HALF * w)
      BY <1>1
    <3> QED
      BY <2>1, <2>2, <3>1, <3>2, <3>3
  <2>4. CASE sc >= HALF
    <3>1. (100 * w) * Unit <= (V * (W + w)) * Unit
      <4>1. V * (W + w) \in Int /\ 100 * w \in Int /\ Unit \in Nat
        BY <1>1
      <4> QED
        BY <4>1, <1>3, <1>4, <2>4, TimesMonotone
    <3>2. sc * w <= Unit * w
      <4>1. Unit \in Int /\ sc \in Int /\ sc <= Unit
        BY <1>1
      <4> QED
        BY <4>1, <1>1, TimesMonotone
    <3>3. (100 * w) * Unit = 100 * (Unit * w)
      BY <1>1
    <3> QED
      BY <2>1, <2>2, <3>1, <3>2, <3>3
  <2> QED
    BY <1>1, <2>3, <2>4
<1>6. ~(100 * Score(0, sc)[1] > V * Score(0, sc)[2])
  <2>1. W * 0 + w * sc \in Int /\ (W + w) * Unit \in Int
    BY <1>1
  <2> DEFINE x == V * ((W + w) * Unit)
             y == 100 * (W * 0 + w * sc)
  <2>2. x \in Int /\ y \in Int /\ y <= x
    BY <2>1, <1>1, <1>5
  <2>3. V * Score(0, sc)[2] = x /\ 100 * Score(0, sc)[1] = y
    BY <1>2
  <2> HIDE DEF x, y
  <2> QED
    BY <2>2, <2>3
<1> QED
  BY <1>6 DEF _classify

(* SelfCheck never reverses a categorical judgment.                         *)
LEMMA CategoricalHolds ==
    ASSUME AsymmetricSettings, NEW v, v.confidence = 100, NEW d \in Percent
    PROVE  /\ v.verdict = "LIKELY_TRUE" => fuse_claim(v, d).verdict # "CONTRADICTED"
           /\ v.verdict = "LIKELY_FALSE" => fuse_claim(v, d).verdict # "SUPPORTED"
<1> DEFINE sc == selfcheck_belief(d)
           belief == rag_belief(v)
<1>1. sc \in 0..Unit
  BY SelfcheckBelief
<1>2. /\ v.verdict = "LIKELY_TRUE" => belief = Unit
      /\ v.verdict = "LIKELY_FALSE" => belief = 0
  <2>1. v.confidence \in Int
    OBVIOUS
  <2> QED
    BY <2>1, RagBelief
<1>3. HALF \in Nat /\ HALF > 0 /\ Unit = 2 * HALF
  BY Settings
<1>4. ~InBand(Unit) /\ ~InBand(0)
  <2> DEFINE lo == FUSION_BANDE_RAG_MIN
             hi == FUSION_BANDE_RAG_MAX
  <2>1. lo \in 1..100 /\ hi \in 0..99
    BY Settings DEF AsymmetricSettings
  <2> HIDE DEF lo, hi
  <2>2. hi * Unit < 100 * Unit /\ 0 < lo * Unit
    BY <1>3, <2>1
  <2> QED
    BY <2>2, <1>3 DEF InBand, Above, Below, lo, hi
<1>5. v.verdict \in {"LIKELY_TRUE", "LIKELY_FALSE"} => fuse_claim(v, d) = Arbitrated(belief, sc)
  BY <1>2, <1>4 DEF fuse_claim, Fever
<1>6. ASSUME v.verdict = "LIKELY_TRUE" PROVE fuse_claim(v, d).verdict # "CONTRADICTED"
  <2>1. fuse_claim(v, d) = Arbitrated(Unit, sc)
    BY <1>2, <1>5, <1>6
  <2>2. _direction(Unit) \in {0, 1}
    BY <1>3 DEF _direction
  <2>3. _classify(Score(Unit, sc)) # "CONTRADICTED"
    BY <1>1, CertainTrue
  <2> QED
    BY <2>1, <2>2, <2>3 DEF Arbitrated, Fused
<1>7. ASSUME v.verdict = "LIKELY_FALSE" PROVE fuse_claim(v, d).verdict # "SUPPORTED"
  <2>1. fuse_claim(v, d) = Arbitrated(0, sc)
    BY <1>2, <1>5, <1>7
  <2>2. _direction(0) \in {-1, 0}
    BY <1>3 DEF _direction
  <2>3. _classify(Score(0, sc)) # "SUPPORTED"
    BY <1>1, CertainFalse
  <2> QED
    BY <2>1, <2>2, <2>3 DEF Arbitrated, Fused
<1> QED
  BY <1>6, <1>7

-------------------------------------------------------------------------------
(***************************************************************************)
(* The claims of an array: a list, each of its own rank.                    *)
(***************************************************************************)
DistinctIds(cs) == \A i, j \in DOMAIN cs : cs[i].id = cs[j].id => i = j

LEMMA ListOfClaims ==
    ASSUME NEW cs \in ClaimLists
    PROVE  \E n \in 0..MaxElements : DOMAIN cs = 1..n /\ Len(cs) = n
                                     /\ \A i \in 1..n : cs[i].text \in Texts
<1>1. PICK n \in 0..MaxElements :
         cs \in [1..n -> [id : {_claim_id(r, t) : r \in 1..MaxElements, t \in Texts},
                          text : Texts]]
  BY DEF ClaimLists
<1>2. n \in Nat
  BY BoundAssumption
<1>3. DOMAIN cs = 1..n /\ Len(cs) = n
  BY <1>1, <1>2
<1> QED
  BY <1>1, <1>3

LEMMA NoClaims == <<>> \in ClaimLists /\ DistinctIds(<<>>)
<1>1. 0 \in 0..MaxElements
  BY BoundAssumption
<1>2. <<>> \in [1..0 -> [id : {_claim_id(r, t) : r \in 1..MaxElements, t \in Texts},
                         text : Texts]]
  OBVIOUS
<1> QED
  BY <1>1, <1>2 DEF ClaimLists, DistinctIds

LEMMA ExtractedClaims ==
    ASSUME NEW m \in 1..MaxElements, NEW elements \in [1..m -> Texts \cup {Blank, NotText}]
    PROVE  do_extraction(elements) \in ClaimLists /\ DistinctIds(do_extraction(elements))
<1> DEFINE S == {r \in DOMAIN elements : elements[r] \in Texts}
           Kept == InOrder(S)
           c == Cardinality(S)
           cs == do_extraction(elements)
<1>1. m \in Nat /\ m <= MaxElements /\ S \subseteq 1..m /\ MaxElements \in Nat
  BY BoundAssumption
<1>2. /\ c \in 0..m /\ DOMAIN Kept = 1..c /\ Kept \in [1..c -> S]
      /\ \A k, l \in DOMAIN Kept : Kept[k] = Kept[l] => k = l
  BY <1>1, InOrderSelects
<1>3. cs = [k \in DOMAIN Kept |-> Claim(Kept[k], elements[Kept[k]])]
  BY DEF do_extraction
<1>4. \A r \in S : r \in 1..MaxElements /\ elements[r] \in Texts
  BY <1>1
<1> HIDE DEF Kept, c, S, cs
<1> DEFINE id(k) == _claim_id(Kept[k], elements[Kept[k]])
           text(k) == elements[Kept[k]]
           Ids == {_claim_id(r, t) : r \in 1..MaxElements, t \in Texts}
<1>5. cs = [k \in 1..c |-> [id |-> id(k), text |-> text(k)]]
  BY <1>2, <1>3 DEF Claim, cs
<1>6. cs \in [1..c -> [id : Ids, text : Texts]]
  <2>1. ASSUME NEW k \in 1..c PROVE id(k) \in Ids /\ text(k) \in Texts
    <3>1. Kept[k] \in 1..MaxElements /\ elements[Kept[k]] \in Texts
      BY <1>2, <1>4
    <3> QED
      BY <3>1
  <2> HIDE DEF id, text, Ids
  <2> QED
    BY <2>1, <1>5
<1>7. c \in 0..MaxElements
  BY <1>1, <1>2
<1>8. DistinctIds(cs)
  <2>1. DOMAIN cs = 1..c
    BY <1>2, <1>3
  <2>2. ASSUME NEW i \in 1..c, NEW j \in 1..c, cs[i].id = cs[j].id PROVE i = j
    <3>1. id(i) = id(j)
      <4> HIDE DEF id, text
      <4> QED
        BY <1>5, <2>2
    <3>2. Kept[i] = Kept[j]
      BY <3>1 DEF _claim_id
    <3> QED
      BY <3>2, <1>2
  <2> QED
    BY <2>1, <2>2 DEF DistinctIds
<1> QED
  BY <1>6, <1>7, <1>8 DEF ClaimLists, cs

-------------------------------------------------------------------------------
(***************************************************************************)
(* How a text is read, whatever happened to it.                             *)
(***************************************************************************)
(* The first object ends with the first brace that closes.                  *)
LEMMA FirstObjectEnds ==
    ASSUME NEW S, NEW text \in Seq(S), Closings(text) # {}
    PROVE  \E e \in 1..Len(text) :
              /\ FirstObject(text) = SubSeq(text, 1, e)
              /\ FirstObject(text) \in Seq(S) /\ Len(FirstObject(text)) = e
              /\ \A i \in 1..e : FirstObject(text)[i] = text[i]
              /\ text[e].t = "close"
              /\ \A i \in 1..(e - 1) : text[i].t # "close"
<1> DEFINE e == CHOOSE c \in Closings(text) : \A i \in Closings(text) : c <= i
<1>1. Closings(text) \subseteq 1..Len(text) /\ Len(text) \in Nat
  BY DEF Closings
<1>2. \E c \in Closings(text) : \A i \in Closings(text) : c <= i
  <2>1. Closings(text) \subseteq Nat
    BY <1>1
  <2> QED
    BY <2>1, FirstExists
<1>3. e \in Closings(text) /\ \A i \in Closings(text) : e <= i
  BY <1>2
<1>4. FirstObject(text) = SubSeq(text, 1, e)
  BY DEF FirstObject
<1> HIDE DEF e
<1>5. e \in 1..Len(text) /\ text[e].t = "close"
  BY <1>1, <1>3 DEF Closings
<1>6. \A i \in 1..(e - 1) : text[i].t # "close"
  <2> SUFFICES ASSUME NEW i \in 1..(e - 1), text[i].t = "close" PROVE FALSE
    OBVIOUS
  <2>1. i \in DOMAIN text /\ i < e
    BY <1>1, <1>5
  <2>2. i \in Closings(text)
    BY <2>1 DEF Closings
  <2> QED
    BY <2>1, <2>2, <1>3, <1>5
<1>7. /\ SubSeq(text, 1, e) \in Seq(S) /\ Len(SubSeq(text, 1, e)) = e
      /\ \A i \in 1..e : SubSeq(text, 1, e)[i] = text[i]
  BY <1>1, <1>5
<1> QED
  BY <1>4, <1>5, <1>6, <1>7

-------------------------------------------------------------------------------
(***************************************************************************)
(* What is read of a text, from its first brace: the members of its longest *)
(* part without a mistake, whether the object is closed or repaired.        *)
(***************************************************************************)
Inside == {"open", "key", "value", "more", "comma"}

Chain(s, n) ==              \* the first n tokens are in order
    /\ n \in 1..Len(s)
    /\ s[1].t = "open"
    /\ \A i \in 1..n : s[i].t \in Inside
    /\ \A i \in 1..(n - 1) : s[i + 1].t \in Follows[s[i].t]

KeysOf(s, n) == {i \in 1..(n - 1) : s[i].t = "key"}

FieldsOf(s, n) ==
    LET At(k) == {i \in KeysOf(s, n) : s[i].key = k}
        last(k) == CHOOSE i \in At(k) : \A j \in At(k) : j <= i
    IN  [k \in {s[i].key : i \in KeysOf(s, n)} |->
            IF last(k) + 2 <= n /\ s[last(k) + 2].t = "more" THEN s[last(k) + 2].value
                                                           ELSE s[last(k) + 1].value]

LEMMA FollowsIs ==
    /\ DOMAIN Follows = Inside
    /\ Follows["open"] = {"key", "close"} /\ Follows["key"] = {"value"}
    /\ Follows["value"] = {"more", "comma", "close"} /\ Follows["more"] = {"comma", "close"}
    /\ Follows["comma"] = {"key"}
  BY DEF Follows, Inside

LEMMA MarkIs == ASSUME NEW t PROVE Mark(t).t = t
  BY DEF Mark, Token

(* Fields of a part that is read the same way in two texts.                 *)
LEMMA SameFields ==
    ASSUME NEW s, NEW r, NEW n \in Nat, NEW m \in Nat, m <= n,
           \A i \in 1..m : r[i] = s[i],
           KeysOf(r, m) = KeysOf(s, n),
           \A i \in KeysOf(s, n) : i + 1 <= m,
           \A i \in 1..n : i > m => s[i].t # "more"
    PROVE  FieldsOf(r, m) = FieldsOf(s, n)
<1> DEFINE K == KeysOf(s, n)
           At(k) == {i \in K : s[i].key = k}
           last(k) == CHOOSE i \in At(k) : \A j \in At(k) : j <= i
           RAt(k) == {i \in K : r[i].key = k}
           rlast(k) == CHOOSE i \in RAt(k) : \A j \in RAt(k) : j <= i
           Names == {s[i].key : i \in K}
           RNames == {r[i].key : i \in K}
<1>1. \A i \in K : i \in 1..m /\ i + 1 \in 1..m /\ i \in Nat
  BY DEF KeysOf
<1>2. \A i \in K : r[i] = s[i]
  BY <1>1
<1>3. Names = RNames /\ \A k : RAt(k) = At(k)
  BY <1>2
<1>4. \A k : rlast(k) = last(k)
  BY <1>3
<1>5. ASSUME NEW k \in Names PROVE last(k) \in K
  <2>1. At(k) # {} /\ At(k) \subseteq 1..m
    BY <1>1
  <2>2. \E i \in At(k) : \A j \in At(k) : j <= i
    <3> HIDE DEF At
    <3> QED
      BY <2>1, LastExists
  <2>3. last(k) \in At(k)
    <3> HIDE DEF At
    <3> QED
      BY <2>2
  <2> QED
    BY <2>3
<1>6. FieldsOf(s, n) = [k \in Names |->
            IF last(k) + 2 <= n /\ s[last(k) + 2].t = "more" THEN s[last(k) + 2].value
                                                           ELSE s[last(k) + 1].value]
  BY DEF FieldsOf
<1>7. FieldsOf(r, m) = [k \in RNames |->
            IF rlast(k) + 2 <= m /\ r[rlast(k) + 2].t = "more" THEN r[rlast(k) + 2].value
                                                             ELSE r[rlast(k) + 1].value]
  BY DEF FieldsOf
<1> HIDE DEF last, rlast, Names, RNames, At, RAt, K
<1>8. ASSUME NEW k \in Names
      PROVE  (IF last(k) + 2 <= n /\ s[last(k) + 2].t = "more" THEN s[last(k) + 2].value
                                                             ELSE s[last(k) + 1].value)
           = (IF last(k) + 2 <= m /\ r[last(k) + 2].t = "more" THEN r[last(k) + 2].value
                                                             ELSE r[last(k) + 1].value)
  <2> DEFINE l == last(k)
  <2>1. l \in Nat /\ l + 1 \in 1..m /\ l \in 1..m
    BY <1>1, <1>5
  <2> HIDE DEF l
  <2>2. r[l + 1] = s[l + 1]
    BY <2>1
  <2>3. l + 2 <= m => l + 2 \in 1..m /\ r[l + 2] = s[l + 2]
    BY <2>1
  <2>4. (l + 2 <= n /\ ~(l + 2 <= m)) => s[l + 2].t # "more"
    <3>1. l + 2 \in Nat /\ l + 2 >= 1
      BY <2>1
    <3> QED
      BY <3>1
  <2>5. l + 2 <= m => l + 2 <= n
    BY <2>1
  <2> QED
    BY <2>2, <2>3, <2>4, <2>5 DEF l
<1> QED
  BY <1>3, <1>4, <1>6, <1>7, <1>8

LEMMA ClosedDecodes ==
    ASSUME NEW S, NEW s \in Seq(S), NEW n \in Nat, n + 1 <= Len(s), Chain(s, n),
           s[n].t \in {"open", "value", "more"}, s[n + 1].t = "close"
    PROVE  Decodable(s) /\ Decoded(s) = FieldsOf(s, n)
<1> DEFINE f == FirstObject(s)
<1>1. /\ n >= 1 /\ Len(s) \in Nat /\ \A i \in 1..n : s[i].t \in Inside
      /\ s[1].t = "open" /\ \A i \in 1..(n - 1) : s[i + 1].t \in Follows[s[i].t]
  BY DEF Chain
<1>2. n + 1 \in Closings(s)
  BY <1>1 DEF Closings
<1>3. PICK e \in 1..Len(s) :
         /\ f \in Seq(S) /\ Len(f) = e
         /\ \A i \in 1..e : f[i] = s[i]
         /\ s[e].t = "close" /\ \A i \in 1..(e - 1) : s[i].t # "close"
  BY <1>2, FirstObjectEnds
<1>4. \A i \in 1..n : s[i].t # "close"
  BY <1>1 DEF Inside
<1>5. e = n + 1
  <2>1. ~(e <= n)
    BY <1>3, <1>4
  <2>2. ~(n + 1 <= e - 1)
    <3>1. n + 1 \in 1..(e - 1) => FALSE
      BY <1>3
    <3> QED
      BY <3>1, <1>1, <1>3
  <2> QED
    BY <2>1, <2>2, <1>1, <1>3
<1> HIDE DEF f
<1>6. DOMAIN f = 1..(n + 1) /\ \A i \in 1..(n + 1) : f[i] = s[i]
  BY <1>3, <1>5
<1>7. s[n + 1].t \in Follows[s[n].t]
  BY FollowsIs
<1>8. ASSUME NEW i \in 1..(Len(f) - 1)
      PROVE  f[i].t \in DOMAIN Follows /\ f[i + 1].t \in Follows[f[i].t]
  <2>1. i \in 1..n /\ i \in 1..(n + 1) /\ i + 1 \in 1..(n + 1) /\ (i # n => i \in 1..(n - 1))
    BY <1>1, <1>3, <1>5
  <2>2. f[i] = s[i] /\ f[i + 1] = s[i + 1]
    BY <2>1, <1>6
  <2>3. s[i].t \in Inside
    BY <2>1, <1>1
  <2>4. s[i + 1].t \in Follows[s[i].t]
    BY <2>1, <1>1, <1>7
  <2> QED
    BY <2>2, <2>3, <2>4, FollowsIs
<1>9. f[1].t = "open"
  BY <1>1, <1>6
<1>10. Decodable(s)
  BY <1>2, <1>8, <1>9 DEF Decodable, f
<1> DEFINE K == KeysOf(s, n)
           DAt(k) == {i \in DOMAIN f : f[i].t = "key" /\ f[i].key = k}
           dlast(k) == CHOOSE i \in DAt(k) : \A j \in DAt(k) : j <= i
           DKeys == {f[i].key : i \in {j \in DOMAIN f : f[j].t = "key"}}
           At(k) == {i \in K : s[i].key = k}
           last(k) == CHOOSE i \in At(k) : \A j \in At(k) : j <= i
           Names == {s[i].key : i \in K}
<1>11. Decoded(s) = [k \in DKeys |-> IF f[dlast(k) + 2].t = "more" THEN f[dlast(k) + 2].value
                                                                 ELSE f[dlast(k) + 1].value]
  BY DEF Decoded, f
<1>12. FieldsOf(s, n) = [k \in Names |->
            IF last(k) + 2 <= n /\ s[last(k) + 2].t = "more" THEN s[last(k) + 2].value
                                                           ELSE s[last(k) + 1].value]
  BY DEF FieldsOf
<1>13. {j \in DOMAIN f : f[j].t = "key"} = K
  <2>1. ASSUME NEW j \in 1..(n + 1), s[j].t = "key" PROVE j \in 1..(n - 1)
    BY <2>1, <1>1
  <2>2. \A j \in 1..(n - 1) : j \in 1..(n + 1)
    BY <1>1
  <2> QED
    BY <2>1, <2>2, <1>6 DEF KeysOf
<1>14. \A j \in K : j \in 1..(n - 1) /\ f[j] = s[j]
  BY <1>1, <1>6 DEF KeysOf
<1>15. DKeys = Names
  BY <1>13, <1>14
<1>16. \A k : DAt(k) = At(k)
  <2>1. \A k : DAt(k) = {i \in {j \in DOMAIN f : f[j].t = "key"} : f[i].key = k}
    OBVIOUS
  <2> QED
    BY <2>1, <1>13, <1>14
<1>17. \A k : dlast(k) = last(k)
  BY <1>16
<1>18. ASSUME NEW k \in Names PROVE last(k) \in 1..(n - 1)
  <2>1. At(k) # {} /\ At(k) \subseteq 1..(n - 1) /\ n - 1 \in Nat
    BY <1>1, <1>14
  <2>2. \E i \in At(k) : \A j \in At(k) : j <= i
    <3> HIDE DEF At
    <3> QED
      BY <2>1, LastExists
  <2>3. last(k) \in At(k)
    <3> HIDE DEF At
    <3> QED
      BY <2>2
  <2> QED
    BY <2>1, <2>3
<1> HIDE DEF DAt, dlast, DKeys, At, last, Names, K
<1>19. ASSUME NEW k \in Names
       PROVE  (IF f[last(k) + 2].t = "more" THEN f[last(k) + 2].value ELSE f[last(k) + 1].value)
            = (IF last(k) + 2 <= n /\ s[last(k) + 2].t = "more" THEN s[last(k) + 2].value
                                                              ELSE s[last(k) + 1].value)
  <2> DEFINE l == last(k)
  <2>1. l \in 1..(n - 1)
    BY <1>18
  <2> HIDE DEF l
  <2>2. l + 1 \in 1..(n + 1) /\ l + 2 \in 1..(n + 1) /\ (l + 2 <= n \/ l + 2 = n + 1)
    BY <2>1, <1>1
  <2>3. f[l + 1] = s[l + 1] /\ f[l + 2] = s[l + 2]
    BY <2>2, <1>6
  <2>4. l + 2 = n + 1 => s[l + 2].t # "more"
    OBVIOUS
  <2> QED
    BY <2>2, <2>3, <2>4 DEF l
<1>20. Decoded(s) = FieldsOf(s, n)
  BY <1>11, <1>12, <1>15, <1>17, <1>19
<1> QED
  BY <1>10, <1>20

(* A token that nothing may follow, or a key without its value, before the  *)
(* first brace that closes.                                                 *)
LEMMA BrokenFails ==
    ASSUME NEW S, NEW s \in Seq(S), NEW b \in 1..Len(s), \A i \in 1..b : s[i].t # "close",
           s[b].t = "scrap" \/ (s[b].t = "key" /\ (b + 1 <= Len(s) => s[b + 1].t # "value"))
    PROVE  ~Decodable(s)
<1> SUFFICES ASSUME Decodable(s) PROVE FALSE
  OBVIOUS
<1> DEFINE f == FirstObject(s)
<1>1. Closings(s) # {}
  BY DEF Decodable
<1>2. PICK e \in 1..Len(s) :
         /\ f \in Seq(S) /\ Len(f) = e
         /\ \A i \in 1..e : f[i] = s[i]
         /\ s[e].t = "close"
  BY <1>1, FirstObjectEnds
<1>3. \A i \in 1..(Len(f) - 1) : f[i].t \in DOMAIN Follows /\ f[i + 1].t \in Follows[f[i].t]
  BY DEF Decodable
<1> HIDE DEF f
<1>4. ~(e <= b)
  BY <1>2
<1>5. Len(s) \in Nat
  OBVIOUS
<1>6. b \in 1..(Len(f) - 1) /\ b \in 1..e /\ b + 1 \in 1..e /\ b + 1 <= Len(s)
  BY <1>2, <1>4, <1>5
<1>7. f[b] = s[b] /\ f[b + 1] = s[b + 1]
  BY <1>2, <1>6
<1>8. s[b].t \in Inside /\ s[b + 1].t \in Follows[s[b].t]
  BY <1>3, <1>6, <1>7, FollowsIs
<1>9. s[b].t # "scrap"
  BY <1>8 DEF Inside
<1>10. s[b].t = "key" /\ s[b + 1].t # "value"
  BY <1>6, <1>9
<1> QED
  BY <1>8, <1>10, FollowsIs

LEMMA RefermedIs ==
    ASSUME NEW S, NEW s \in Seq(S), NEW e \in 1..Len(s), e > 1 \/ s[e].t # "comma"
    PROVE  LET r == Refermed(s, e)
               m == IF s[e].t = "comma" THEN e - 1 ELSE e
           IN  /\ r \in Seq(S \cup {Mark("close")})
               /\ Len(r) = m + 1 /\ \A i \in 1..m : r[i] = s[i]
               /\ r[m + 1] = Mark("close")
<1> DEFINE f == SubSeq(s, 1, e)
           g == SubSeq(s, 1, e - 1)
           h == IF s[e].t = "comma" THEN g ELSE f
           m == IF s[e].t = "comma" THEN e - 1 ELSE e
           c == Mark("close")
           r == Refermed(s, e)
<1>1. Len(s) \in Nat /\ e \in Nat
  OBVIOUS
<1>2. f \in Seq(S) /\ Len(f) = e /\ \A i \in 1..e : f[i] = s[i]
  BY <1>1
<1>3. Last(f) = s[e]
  BY <1>1, <1>2 DEF Last
<1>4. Front(f) = g
  <2>1. Front(f) = SubSeq(f, 1, e - 1)
    BY <1>2 DEF Front
  <2> QED
    BY <2>1, <1>1, <1>2
<1>5. r = Append(h, c)
  BY <1>3, <1>4 DEF Refermed
<1>6. g \in Seq(S) /\ Len(g) = e - 1 /\ \A i \in 1..(e - 1) : g[i] = s[i]
  BY <1>1
<1> HIDE DEF f, g, r
<1>7. h \in Seq(S) /\ Len(h) = m /\ m \in Nat /\ \A i \in 1..m : h[i] = s[i]
  BY <1>1, <1>2, <1>6
<1> HIDE DEF h, m, c
<1>8. h \in Seq(S \cup {c}) /\ c \in S \cup {c}
  BY <1>7
<1>9. /\ r \in Seq(S \cup {c}) /\ Len(r) = m + 1
      /\ r[m + 1] = c /\ \A i \in 1..m : r[i] = h[i]
  BY <1>5, <1>7, <1>8
<1> QED
  BY <1>7, <1>9 DEF r, m, c

Stops(s, n) == \/ n = Len(s)
               \/ n + 1 <= Len(s) /\ s[n + 1].t = "scrap"
               \/ /\ n + 1 <= Len(s) /\ s[n + 1].t = "close"
                  /\ s[n].t \in {"open", "value", "more"}

(* The repair keeps all of it, but a key that waits for its value.          *)
LEMMA RepairReads ==
    ASSUME NEW S, NEW s \in Seq(S), NEW n, Chain(s, n),
           n = Len(s) \/ (n + 1 <= Len(s) /\ s[n + 1].t = "scrap")
    PROVE  ~Decodable(s) /\ _reparer_objet_tronque(s) = FieldsOf(s, n)
<1>1. /\ n \in 1..Len(s) /\ n \in Nat /\ Len(s) \in Nat /\ \A i \in 1..n : s[i].t \in Inside
      /\ s[1].t = "open" /\ \A i \in 1..(n - 1) : s[i + 1].t \in Follows[s[i].t]
  BY DEF Chain
<1>2. \A i \in 1..n : s[i].t # "close"
  BY <1>1 DEF Inside
<1>3. ~Decodable(s)
  <2>1. CASE n = Len(s)
    <3>1. Closings(s) = {}
      BY <2>1, <1>2 DEF Closings
    <3> QED
      BY <3>1 DEF Decodable
  <2>2. CASE n + 1 <= Len(s) /\ s[n + 1].t = "scrap"
    <3>1. \A i \in 1..(n + 1) : s[i].t # "close"
      BY <2>2, <1>1, <1>2
    <3>2. n + 1 \in 1..Len(s)
      BY <2>2, <1>1
    <3> QED
      BY <2>2, <3>1, <3>2, BrokenFails
  <2> QED
    BY <2>1, <2>2
<1>4. ASSUME NEW e \in 1..n, s[e].t # "key"
      PROVE  Decodable(Refermed(s, e)) /\ Decoded(Refermed(s, e)) = FieldsOf(s, e)
  <2> DEFINE r == Refermed(s, e)
             m == IF s[e].t = "comma" THEN e - 1 ELSE e
             c == Mark("close")
  <2>1. s[e].t = "comma" => e > 1
    BY <1>1
  <2>2. s[e].t = "comma" => s[e - 1].t \in {"value", "more"}
    <3>1. SUFFICES ASSUME s[e].t = "comma" PROVE s[e - 1].t \in {"value", "more"}
      OBVIOUS
    <3>2. e - 1 \in 1..(n - 1) /\ e - 1 \in 1..n /\ (e - 1) + 1 = e
      BY <1>1, <2>1, <3>1
    <3>3. s[e].t \in Follows[s[e - 1].t] /\ s[e - 1].t \in Inside
      BY <1>1, <3>2
    <3> QED
      BY <3>1, <3>3, FollowsIs DEF Inside
  <2>3. /\ r \in Seq(S \cup {c}) /\ Len(r) = m + 1
        /\ r[m + 1] = c /\ \A i \in 1..m : r[i] = s[i]
    <3>1. e \in 1..Len(s)
      BY <1>1
    <3> QED
      BY <2>1, <3>1, RefermedIs
  <2>4. /\ m \in 1..n /\ m \in Nat /\ e \in Nat /\ m <= e
        /\ s[m].t \in {"open", "value", "more"}
        /\ \A i \in 1..e : i > m => i = e /\ s[e].t = "comma"
    BY <1>1, <1>4, <2>1, <2>2 DEF Inside
  <2> HIDE DEF r, m, c
  <2>5. c.t = "close"
    BY MarkIs DEF c
  <2>6. Chain(r, m)
    <3>1. \A i \in 1..m : i \in 1..n
      BY <1>1, <2>4
    <3>2. \A i \in 1..(m - 1) : i \in 1..m /\ i + 1 \in 1..m /\ i \in 1..(n - 1)
      BY <1>1, <2>4
    <3>3. m \in 1..Len(r) /\ 1 \in 1..m
      BY <2>3, <2>4
    <3> QED
      BY <1>1, <2>3, <3>1, <3>2, <3>3 DEF Chain
  <2>7. Decodable(r) /\ Decoded(r) = FieldsOf(r, m)
    <3>1. m + 1 <= Len(r) /\ r[m] = s[m] /\ r[m + 1] = c
      BY <2>3, <2>4
    <3> QED
      BY <2>3, <2>4, <2>5, <2>6, <3>1, ClosedDecodes
  <2>8. KeysOf(r, m) = KeysOf(s, e) /\ \A i \in KeysOf(s, e) : i + 1 <= m
    <3>1. \A i \in 1..(m - 1) : r[i] = s[i] /\ i \in 1..(e - 1)
      BY <2>3, <2>4
    <3>2. \A i \in 1..(e - 1) : s[i].t = "key" => i \in 1..(m - 1)
      <4> SUFFICES ASSUME NEW i \in 1..(e - 1), s[i].t = "key" PROVE i <= m - 1
        BY <2>4
      <4>1. i \in 1..e /\ i # e
        BY <2>4
      <4>2. ~(i > m)
        BY <4>1, <2>4
      <4>3. i # m
        BY <2>4
      <4> QED
        BY <4>2, <4>3, <2>4
    <3>3. KeysOf(r, m) = KeysOf(s, e)
      BY <3>1, <3>2 DEF KeysOf
    <3>4. \A i \in KeysOf(s, e) : i + 1 <= m
      BY <3>2, <2>4 DEF KeysOf
    <3> QED
      BY <3>3, <3>4
  <2>9. \A i \in 1..e : i > m => s[i].t # "more"
    BY <2>4
  <2>10. FieldsOf(r, m) = FieldsOf(s, e)
    BY <2>3, <2>4, <2>8, <2>9, SameFields
  <2> QED
    BY <2>7, <2>10 DEF r
<1>5. ASSUME NEW e \in 1..Len(s), e > n \/ (e = n /\ s[n].t = "key")
      PROVE  ~Decodable(Refermed(s, e))
  <2> DEFINE r == Refermed(s, e)
             m == IF s[e].t = "comma" THEN e - 1 ELSE e
             c == Mark("close")
  <2>1. e > 1 \/ s[e].t # "comma"
    BY <1>1
  <2>2. /\ r \in Seq(S \cup {c}) /\ Len(r) = m + 1
        /\ r[m + 1] = c /\ \A i \in 1..m : r[i] = s[i]
    BY <2>1, RefermedIs
  <2>3. c.t = "close"
    BY MarkIs
  <2> HIDE DEF r, c
  <2>4. CASE e = n /\ s[n].t = "key"
    <3>1. m = n
      BY <2>4
    <3> HIDE DEF m
    <3>2. n \in 1..Len(r) /\ r[n] = s[n] /\ r[n + 1] = c /\ \A i \in 1..n : r[i].t # "close"
      BY <1>1, <1>2, <2>2, <3>1
    <3>3. r[n].t = "key" /\ r[n + 1].t # "value"
      BY <2>3, <2>4, <3>2
    <3> QED
      BY <2>2, <3>2, <3>3, BrokenFails DEF r
  <2>5. CASE e > n
    <3>1. n + 1 <= Len(s) /\ s[n + 1].t = "scrap"
      BY <2>5, <1>1
    <3>2. m \in Nat /\ n + 1 <= m
      <4>1. e = n + 1 => s[e].t # "comma"
        BY <3>1
      <4> QED
        BY <4>1, <2>5, <1>1
    <3> HIDE DEF m
    <3>3. n + 1 \in 1..Len(r) /\ \A i \in 1..(n + 1) : r[i] = s[i]
      BY <1>1, <2>2, <3>2
    <3>4. r[n + 1].t = "scrap" /\ \A i \in 1..(n + 1) : r[i].t # "close"
      <4>1. \A i \in 1..(n + 1) : i \in 1..n \/ i = n + 1
        BY <1>1
      <4>2. n + 1 \in 1..(n + 1)
        BY <1>1
      <4> QED
        BY <4>1, <4>2, <1>2, <3>1, <3>3
    <3> QED
      BY <2>2, <3>3, <3>4, BrokenFails DEF r
  <2> QED
    BY <1>5, <2>4, <2>5
<1> DEFINE Ends == {e \in DOMAIN s : Decodable(Refermed(s, e))}
           end == IF s[n].t = "key" THEN n - 1 ELSE n
<1>6. end \in 1..n /\ end \in Nat /\ s[end].t # "key"
  <2>1. ASSUME s[n].t = "key" PROVE n - 1 \in 1..n /\ s[n - 1].t # "key"
    <3>1. n # 1
      BY <1>1, <2>1
    <3>2. n - 1 \in 1..(n - 1) /\ n - 1 \in 1..n /\ (n - 1) + 1 = n
      BY <1>1, <3>1
    <3>3. s[n].t \in Follows[s[n - 1].t]
      BY <1>1, <3>2
    <3> QED
      BY <2>1, <3>2, <3>3, FollowsIs
  <2> QED
    BY <2>1, <1>1
<1>7. end \in Ends /\ \A e \in Ends : e <= end
  <2>1. end \in Ends
    BY <1>1, <1>4, <1>6
  <2>2. \A e \in Ends : ~(e > n \/ (e = n /\ s[n].t = "key")) /\ e \in Nat
    BY <1>1, <1>5
  <2> HIDE DEF Ends
  <2> QED
    BY <1>1, <2>1, <2>2
<1>8. (CHOOSE e \in Ends : \A f \in Ends : f <= e) = end
  <2>1. \A e \in Ends : e \in Nat
    BY <1>1
  <2> DEFINE c == CHOOSE e \in Ends : \A f \in Ends : f <= e
  <2> HIDE DEF Ends, end
  <2>2. c \in Ends /\ \A f \in Ends : f <= c
    BY <1>7
  <2>3. c <= end /\ end <= c /\ c \in Nat
    BY <2>1, <2>2, <1>7
  <2> HIDE DEF c
  <2>4. c = end
    BY <2>3, <1>6
  <2> QED
    BY <2>4 DEF c
<1>9. _reparer_objet_tronque(s) = Decoded(Refermed(s, end))
  BY <1>8 DEF _reparer_objet_tronque
<1> HIDE DEF Ends
<1>10. _reparer_objet_tronque(s) = FieldsOf(s, end)
  <2> HIDE DEF end
  <2> QED
    BY <1>4, <1>6, <1>9
<1>11. FieldsOf(s, end) = FieldsOf(s, n)
  <2>1. CASE s[n].t # "key"
    BY <2>1
  <2>2. CASE s[n].t = "key"
    <3>1. end = n - 1
      BY <2>2
    <3> HIDE DEF end
    <3>2. KeysOf(s, end) = KeysOf(s, n) /\ \A i \in KeysOf(s, n) : i + 1 <= end
      <4>1. \A i \in 1..(n - 1) : s[i].t = "key" => i \in 1..(end - 1)
        <5> SUFFICES ASSUME NEW i \in 1..(n - 1), s[i].t = "key" PROVE i \in 1..(end - 1)
          OBVIOUS
        <5>1. i # end
          BY <1>6
        <5> QED
          BY <5>1, <3>1, <1>1
      <4>2. \A i \in 1..(end - 1) : i \in 1..(n - 1) /\ i + 1 <= end
        BY <3>1, <1>1
      <4>3. KeysOf(s, end) = KeysOf(s, n)
        BY <4>1, <4>2 DEF KeysOf
      <4> QED
        BY <4>1, <4>2, <4>3 DEF KeysOf
    <3>3. \A i \in 1..n : i > end => s[i].t # "more"
      <4>1. \A i \in 1..n : i > end => i = n
        BY <3>1, <1>1
      <4> QED
        BY <4>1, <2>2
    <3>4. end <= n /\ \A i \in 1..end : s[i] = s[i]
      BY <3>1, <1>1
    <3> QED
      BY <1>1, <1>6, <3>2, <3>3, <3>4, SameFields
  <2> QED
    BY <2>1, <2>2
<1> QED
  BY <1>3, <1>10, <1>11

(* What `_premier_objet_json` reads from the first brace on.                *)
LEMMA ChainReads ==
    ASSUME NEW S, NEW s \in Seq(S), NEW n, Chain(s, n), Stops(s, n)
    PROVE  (IF Decodable(s) THEN Decoded(s) ELSE _reparer_objet_tronque(s)) = FieldsOf(s, n)
<1>1. CASE n = Len(s) \/ (n + 1 <= Len(s) /\ s[n + 1].t = "scrap")
  BY <1>1, RepairReads
<1>2. CASE /\ n + 1 <= Len(s) /\ s[n + 1].t = "close"
           /\ s[n].t \in {"open", "value", "more"}
  <2>1. n \in Nat
    BY DEF Chain
  <2> QED
    BY <1>2, <2>1, ClosedDecodes
<1> QED
  BY <1>1, <1>2 DEF Stops

-------------------------------------------------------------------------------
(***************************************************************************)
(* Where the tokens of each member stand in the text that was meant.        *)
(***************************************************************************)
KeyOf(reply, i)   == Token("key", reply.members[i].key, Null)
ValueOf(reply, i) == Token("value", "", reply.members[i].cut)
MoreOf(reply, i)  == Token("more", "", reply.members[i].written)

TokenSet(reply) == {Mark(t) : t \in {"open", "close", "comma", "scrap"}} \cup
                   UNION {{KeyOf(reply, i), ValueOf(reply, i), MoreOf(reply, i)} :
                              i \in DOMAIN reply.members}

Longer(reply, i) == IF reply.members[i].cut = reply.members[i].written THEN 0 ELSE 1

(* The place of a value when the prose is one token, and the comma or the   *)
(* brace behind a member.                                                   *)
Spot(reply, i) == 1 + Offset(reply, i)

After(reply, i) == Spot(reply, i) + Longer(reply, i) + 1

LEMMA Places ==
    ASSUME NEW reply, NEW i \in Nat, i > 0
    PROVE  /\ Spot(reply, i) \in Nat /\ Spot(reply, i) >= 1 + 3 * i
           /\ i = 1 => Spot(reply, i) = 4
           /\ Longer(reply, i) \in {0, 1}
           /\ Spot(reply, i + 1) = After(reply, i) + 2
           /\ \A j \in Nat : i < j => After(reply, i) + 2 <= Spot(reply, j)
<1> DEFINE Cut(k) == {j \in 1..(k - 1) : reply.members[j].cut # reply.members[j].written}
<1>1. \A k \in Nat : IsFiniteSet(Cut(k)) /\ Cardinality(Cut(k)) \in Nat
  <2> TAKE k \in Nat
  <2>1. IsFiniteSet(1..(k - 1))
    BY FS_Interval
  <2>2. IsFiniteSet(Cut(k))
    BY <2>1, FS_Subset
  <2> HIDE DEF Cut
  <2> QED
    BY <2>2, FS_CardinalityType
<1>2. \A k : Spot(reply, k) = 1 + (3 * k + Cardinality(Cut(k)))
  BY DEF Spot, Offset
<1>3. Longer(reply, i) \in {0, 1}
  BY DEF Longer
<1>4. Cardinality(Cut(i + 1)) = Cardinality(Cut(i)) + Longer(reply, i)
  <2>1. 1..((i + 1) - 1) = 1..(i - 1) \cup {i} /\ i \notin 1..(i - 1)
    OBVIOUS
  <2>2. CASE reply.members[i].cut = reply.members[i].written
    <3>1. Cut(i + 1) = Cut(i)
      BY <2>1, <2>2
    <3> HIDE DEF Cut
    <3>2. Cardinality(Cut(i)) \in Nat
      BY <1>1
    <3> QED
      BY <2>2, <3>1, <3>2 DEF Longer
  <2>3. CASE reply.members[i].cut # reply.members[i].written
    <3>1. Cut(i + 1) = Cut(i) \cup {i} /\ i \notin Cut(i)
      BY <2>1, <2>3
    <3> HIDE DEF Cut
    <3>2. IsFiniteSet(Cut(i))
      BY <1>1
    <3>3. Cardinality(Cut(i) \cup {i}) = Cardinality(Cut(i)) + 1
      BY <3>1, <3>2, FS_AddElement
    <3> QED
      BY <2>3, <3>1, <3>3 DEF Longer
  <2> QED
    BY <2>2, <2>3
<1>5. ASSUME NEW j \in Nat, i < j
      PROVE  Cardinality(Cut(i + 1)) <= Cardinality(Cut(j))
  <2>1. Cut(i + 1) \subseteq Cut(j)
    BY <1>5
  <2>2. IsFiniteSet(Cut(j))
    BY <1>1
  <2> HIDE DEF Cut
  <2> QED
    BY <2>1, <2>2, FS_Subset
<1>6. i = 1 => Cardinality(Cut(i)) = 0
  <2>1. i = 1 => Cut(i) = {}
    OBVIOUS
  <2> HIDE DEF Cut
  <2> QED
    BY <2>1, FS_EmptySet
<1> HIDE DEF Cut
<1>7. Cardinality(Cut(i)) \in Nat /\ Cardinality(Cut(i + 1)) \in Nat
  BY <1>1
<1>8. Spot(reply, i) \in Nat /\ Spot(reply, i) >= 1 + 3 * i
  BY <1>2, <1>7
<1>9. Spot(reply, i + 1) = After(reply, i) + 2
  BY <1>2, <1>3, <1>4, <1>7 DEF After
<1>10. ASSUME NEW j \in Nat, i < j PROVE After(reply, i) + 2 <= Spot(reply, j)
  <2>1. Cardinality(Cut(j)) \in Nat /\ Cardinality(Cut(i + 1)) <= Cardinality(Cut(j))
    BY <1>1, <1>5, <1>10
  <2>2. Spot(reply, i + 1) <= Spot(reply, j)
    BY <2>1, <1>2, <1>7, <1>10
  <2> QED
    BY <2>2, <1>9
<1> QED
  BY <1>2, <1>3, <1>6, <1>8, <1>9, <1>10

LEMMA MemberIs ==
    ASSUME NEW reply, NEW i \in DOMAIN reply.members
    PROVE  LET s == Tokens(reply.members[i])
           IN  /\ s \in Seq(TokenSet(reply)) /\ Len(s) = 2 + Longer(reply, i)
               /\ s[1] = KeyOf(reply, i)
               /\ s[2] = ValueOf(reply, i)
               /\ Longer(reply, i) = 1 => s[3] = MoreOf(reply, i)
<1> DEFINE x == reply.members[i]
           k == KeyOf(reply, i)
           v == ValueOf(reply, i)
           w == MoreOf(reply, i)
           s == Tokens(x)
<1>1. k \in TokenSet(reply) /\ v \in TokenSet(reply) /\ w \in TokenSet(reply)
  BY DEF TokenSet
<1>2. s = <<k, v>> \o IF x.cut = x.written THEN <<>> ELSE <<w>>
  BY DEF Tokens, KeyOf, ValueOf, MoreOf
<1> HIDE DEF k, v, w, s
<1>3. /\ s \in Seq(TokenSet(reply)) /\ Len(s) = 2 + Longer(reply, i)
      /\ s[1] = k /\ s[2] = v
      /\ Longer(reply, i) = 1 => s[3] = w
  <2>1. CASE x.cut = x.written
    <3>1. s = <<k, v>>
      BY <1>1, <1>2, <2>1
    <3>2. Longer(reply, i) = 0
      BY <2>1 DEF Longer
    <3> QED
      BY <1>1, <3>1, <3>2
  <2>2. CASE x.cut # x.written
    <3>1. s = <<k, v>> \o <<w>>
      BY <1>2, <2>2
    <3> DEFINE a == <<k, v>>
               b == <<w>>
    <3>2. /\ a \in Seq(TokenSet(reply)) /\ Len(a) = 2 /\ a[1] = k /\ a[2] = v
          /\ b \in Seq(TokenSet(reply)) /\ Len(b) = 1 /\ b[1] = w
      BY <1>1
    <3>3. s = a \o b
      BY <3>1
    <3> HIDE DEF a, b
    <3>a. a \in Seq(TokenSet(reply)) /\ b \in Seq(TokenSet(reply))
      BY <3>2
    <3>4. s \in Seq(TokenSet(reply)) /\ Len(s) = Len(a) + Len(b)
      BY <3>a, <3>3, Lengthened
    <3>5. \A j \in 1..Len(a) : s[j] = a[j]
      BY <3>a, <3>3, LeftHalf
    <3>6. \A j \in 1..Len(b) : s[Len(a) + j] = b[j]
      BY <3>a, <3>3, RightHalf
    <3>7. s[2 + 1] = w
      BY <3>2, <3>6
    <3>8. Longer(reply, i) = 1
      BY <2>2 DEF Longer
    <3> QED
      BY <3>2, <3>4, <3>5, <3>7, <3>8
  <2> QED
    BY <2>1, <2>2
<1> QED
  BY <1>3 DEF s, k, v, w

(* A member with what separates it from the one before.                     *)
Part(reply, i) == (IF i = 1 THEN <<>> ELSE <<Mark("comma")>>) \o Tokens(reply.members[i])

LEMMA PartIs ==
    ASSUME NEW reply, NEW i \in DOMAIN reply.members
    PROVE  LET s == Part(reply, i)
               o == IF i = 1 THEN 0 ELSE 1
           IN  /\ s \in Seq(TokenSet(reply)) /\ Len(s) = o + 2 + Longer(reply, i)
               /\ i # 1 => s[1] = Mark("comma")
               /\ s[o + 1] = KeyOf(reply, i)
               /\ s[o + 2] = ValueOf(reply, i)
               /\ Longer(reply, i) = 1 => s[o + 3] = MoreOf(reply, i)
<1> DEFINE T == Tokens(reply.members[i])
           c == <<Mark("comma")>>
           s == Part(reply, i)
           k == KeyOf(reply, i)
           v == ValueOf(reply, i)
           w == MoreOf(reply, i)
<1>1. /\ T \in Seq(TokenSet(reply)) /\ Len(T) = 2 + Longer(reply, i)
      /\ T[1] = k /\ T[2] = v
      /\ Longer(reply, i) = 1 => T[3] = w
  BY MemberIs
<1>2. c \in Seq(TokenSet(reply)) /\ Len(c) = 1 /\ c[1] = Mark("comma")
  <2>1. Mark("comma") \in TokenSet(reply)
    BY DEF TokenSet
  <2> QED
    BY <2>1
<1>3. s = IF i = 1 THEN <<>> \o T ELSE c \o T
  BY DEF Part
<1>4. Longer(reply, i) \in {0, 1}
  BY DEF Longer
<1> HIDE DEF T, c, s, k, v, w
<1>5. /\ s \in Seq(TokenSet(reply)) /\ Len(s) = (IF i = 1 THEN 0 ELSE 1) + 2 + Longer(reply, i)
      /\ i # 1 => s[1] = Mark("comma")
      /\ s[(IF i = 1 THEN 0 ELSE 1) + 1] = k /\ s[(IF i = 1 THEN 0 ELSE 1) + 2] = v
      /\ Longer(reply, i) = 1 => s[(IF i = 1 THEN 0 ELSE 1) + 3] = w
  <2>1. CASE i = 1
    <3>1. s = T
      BY <1>1, <1>3, <2>1
    <3> QED
      BY <3>1, <1>1, <1>4, <2>1
  <2>2. CASE i # 1
    <3>1. s = c \o T
      BY <1>3, <2>2
    <3>2. s \in Seq(TokenSet(reply)) /\ Len(s) = Len(c) + Len(T)
      BY <1>1, <1>2, <3>1, Concatenated
    <3>3. \A j \in 1..Len(c) : s[j] = c[j]
      BY <1>1, <1>2, <3>1, Concatenated
    <3>4. \A j \in 1..Len(T) : s[Len(c) + j] = T[j]
      <4>1. c \in Seq(TokenSet(reply)) /\ T \in Seq(TokenSet(reply))
        BY <1>1, <1>2
      <4>2. \A j \in 1..Len(T) : (c \o T)[Len(c) + j] = T[j]
        BY <4>1, Concatenated
      <4> QED
        BY <4>2, <3>1
    <3>5. s[1] = Mark("comma") /\ \A j \in 1..(2 + Longer(reply, i)) : s[1 + j] = T[j]
      BY <3>3, <3>4, <1>1, <1>2
    <3>6. s[1 + 1] = k /\ s[1 + 2] = v /\ (Longer(reply, i) = 1 => s[1 + 3] = w)
      BY <3>5, <1>1, <1>4
    <3> QED
      BY <3>2, <3>5, <3>6, <1>1, <1>2, <1>4, <2>2
  <2> QED
    BY <2>1, <2>2
<1> QED
  BY <1>5 DEF s, k, v, w

(* The members up to one of them, from the third token of the text on.      *)
Laid(reply, b, m) ==
    /\ b \in Seq(TokenSet(reply)) /\ Len(b) = After(reply, m) - 3
    /\ \A i \in 1..m :
          /\ i # 1 => b[Spot(reply, i) - 4] = Mark("comma")
          /\ b[Spot(reply, i) - 3] = KeyOf(reply, i)
          /\ b[Spot(reply, i) - 2] = ValueOf(reply, i)
          /\ Longer(reply, i) = 1 =>
                b[Spot(reply, i) - 1] = MoreOf(reply, i)
    /\ \A p \in 1..Len(b) : \E i \in 1..m :
          /\ p <= After(reply, i) - 3
          /\ p >= IF i = 1 THEN 1 ELSE Spot(reply, i) - 4

LEMMA FirstIsLaid ==
    ASSUME NEW reply, 1 \in DOMAIN reply.members
    PROVE  Laid(reply, Part(reply, 1), 1)
<1> DEFINE b == Part(reply, 1)
<1>1. /\ b \in Seq(TokenSet(reply)) /\ Len(b) = 0 + 2 + Longer(reply, 1)
      /\ b[0 + 1] = KeyOf(reply, 1)
      /\ b[0 + 2] = ValueOf(reply, 1)
      /\ Longer(reply, 1) = 1 => b[0 + 3] = MoreOf(reply, 1)
  BY PartIs
<1>2. Spot(reply, 1) = 4 /\ Longer(reply, 1) \in {0, 1}
  BY Places
<1>3. After(reply, 1) - 3 = 2 + Longer(reply, 1)
  BY <1>2 DEF After
<1> HIDE DEF b
<1>4. \A p \in 1..Len(b) : p <= After(reply, 1) - 3 /\ p >= 1
  <2>1. Len(b) = After(reply, 1) - 3 /\ Len(b) \in Nat
    BY <1>1, <1>2, <1>3
  <2> QED
    BY <2>1
<1>5. \A i \in 1..1 : i = 1
  OBVIOUS
<1>6. b[4 - 3] = b[0 + 1] /\ b[4 - 2] = b[0 + 2] /\ b[4 - 1] = b[0 + 3]
  OBVIOUS
<1>7. \A p \in 1..Len(b) : \E i \in 1..1 :
          p <= After(reply, i) - 3 /\ p >= IF i = 1 THEN 1 ELSE Spot(reply, i) - 4
  BY <1>4
<1> QED
  BY <1>1, <1>2, <1>3, <1>5, <1>6, <1>7 DEF Laid, b

LEMMA NextIsLaid ==
    ASSUME NEW reply, NEW b, NEW m \in Nat, m > 0, m + 1 \in DOMAIN reply.members,
           Laid(reply, b, m)
    PROVE  Laid(reply, b \o Part(reply, m + 1), m + 1)
<1> DEFINE n == m + 1
           q == Part(reply, n)
           r == b \o q
           P == Spot(reply, n)
           L == Longer(reply, n)
<1>1. /\ q \in Seq(TokenSet(reply)) /\ Len(q) = 1 + 2 + L
      /\ q[1] = Mark("comma")
      /\ q[1 + 1] = KeyOf(reply, n)
      /\ q[1 + 2] = ValueOf(reply, n)
      /\ L = 1 => q[1 + 3] = MoreOf(reply, n)
  <2>1. n # 1
    OBVIOUS
  <2> QED
    BY <2>1, PartIs
<1>2. b \in Seq(TokenSet(reply)) /\ Len(b) = After(reply, m) - 3 /\ Len(b) \in Nat
  <2>1. b \in Seq(TokenSet(reply)) /\ Len(b) = After(reply, m) - 3
    BY DEF Laid
  <2> QED
    BY <2>1
<1>3. /\ P = After(reply, m) + 2 /\ P \in Nat /\ L \in {0, 1}
      /\ After(reply, n) = P + L + 1 /\ After(reply, m) \in Int
  <2>1. P = After(reply, m) + 2
    BY Places
  <2>2. P \in Nat /\ L \in {0, 1}
    BY Places
  <2>3. After(reply, m) \in Int
    BY Places DEF After
  <2> QED
    BY <2>1, <2>2, <2>3 DEF After
<1>4. /\ r \in Seq(TokenSet(reply)) /\ Len(r) = Len(b) + Len(q)
      /\ \A i \in 1..Len(b) : r[i] = b[i]
      /\ \A i \in 1..Len(q) : r[Len(b) + i] = q[i]
  <2>1. q \in Seq(TokenSet(reply)) /\ b \in Seq(TokenSet(reply))
    BY <1>1, <1>2
  <2> HIDE DEF q
  <2>2. r \in Seq(TokenSet(reply)) /\ Len(r) = Len(b) + Len(q)
    BY <2>1, Concatenated
  <2>3. \A i \in 1..Len(b) : r[i] = b[i]
    BY <2>1, Concatenated
  <2>4. \A i \in 1..Len(q) : r[Len(b) + i] = q[i]
    BY <2>1, Concatenated
  <2> QED
    BY <2>2, <2>3, <2>4
<1>5. Len(b) = P - 5 /\ Len(r) = After(reply, n) - 3
  <2>1. Len(q) = 3 + L
    BY <1>1, <1>3
  <2>2. Len(b) = P - 5
    BY <1>2, <1>3
  <2>3. Len(r) = Len(b) + Len(q)
    BY <1>4
  <2>4. P \in Nat /\ L \in {0, 1} /\ After(reply, n) = P + L + 1
    BY <1>3
  <2> HIDE DEF r, q, P, L, n
  <2> QED
    BY <2>1, <2>2, <2>3, <2>4
<1>6. /\ r[P - 4] = Mark("comma")
      /\ r[P - 3] = KeyOf(reply, n)
      /\ r[P - 2] = ValueOf(reply, n)
      /\ L = 1 => r[P - 1] = MoreOf(reply, n)
  <2> HIDE DEF r, q, P, L
  <2>1. \A i \in 1..(3 + L) : r[(P - 5) + i] = q[i]
    <3>1. Len(q) = 3 + L
      BY <1>1, <1>3
    <3> QED
      BY <3>1, <1>4, <1>5
  <2>2. 1 \in 1..(3 + L) /\ 2 \in 1..(3 + L) /\ 3 \in 1..(3 + L) /\ (L = 1 => 4 \in 1..(3 + L))
    BY <1>3
  <2>3. (P - 5) + 1 = P - 4 /\ (P - 5) + 2 = P - 3 /\ (P - 5) + 3 = P - 2 /\ (P - 5) + 4 = P - 1
    BY <1>3
  <2>4. r[P - 4] = q[1] /\ r[P - 3] = q[2] /\ r[P - 2] = q[3] /\ (L = 1 => r[P - 1] = q[4])
    BY <2>1, <2>2, <2>3
  <2> HIDE DEF n
  <2>5. /\ q[1] = Mark("comma") /\ q[2] = KeyOf(reply, n)
        /\ q[3] = ValueOf(reply, n)
        /\ L = 1 => q[4] = MoreOf(reply, n)
    BY <1>1
  <2> QED
    BY <2>4, <2>5
<1>7. ASSUME NEW i \in 1..m
      PROVE  /\ i # 1 => r[Spot(reply, i) - 4] = Mark("comma")
             /\ r[Spot(reply, i) - 3] = KeyOf(reply, i)
             /\ r[Spot(reply, i) - 2] = ValueOf(reply, i)
             /\ Longer(reply, i) = 1 =>
                   r[Spot(reply, i) - 1] = MoreOf(reply, i)
  <2>1. /\ Spot(reply, i) \in Nat /\ Spot(reply, i) >= 1 + 3 * i /\ Longer(reply, i) \in {0, 1}
        /\ After(reply, i) + 2 <= P
    <3>1. i \in Nat /\ i > 0 /\ i < n /\ n \in Nat
      OBVIOUS
    <3> QED
      BY <3>1, Places
  <2>2. /\ i # 1 => b[Spot(reply, i) - 4] = Mark("comma")
        /\ b[Spot(reply, i) - 3] = KeyOf(reply, i)
        /\ b[Spot(reply, i) - 2] = ValueOf(reply, i)
        /\ Longer(reply, i) = 1 =>
              b[Spot(reply, i) - 1] = MoreOf(reply, i)
    BY DEF Laid
  <2> HIDE DEF r, q, P, L
  <2>3. /\ i # 1 => Spot(reply, i) - 4 \in 1..Len(b)
        /\ Spot(reply, i) - 3 \in 1..Len(b) /\ Spot(reply, i) - 2 \in 1..Len(b)
        /\ Longer(reply, i) = 1 => Spot(reply, i) - 1 \in 1..Len(b)
    <3>1. i = 1 \/ i >= 2
      OBVIOUS
    <3>2. Spot(reply, i) >= 4 /\ (i # 1 => Spot(reply, i) >= 7)
      BY <2>1, <3>1
    <3>3. Spot(reply, i) + Longer(reply, i) + 3 <= P
      BY <2>1, <1>3 DEF After
    <3>4. Len(b) = P - 5 /\ P \in Nat /\ Spot(reply, i) \in Nat /\ Longer(reply, i) \in {0, 1}
      BY <1>3, <1>5, <2>1
    <3> DEFINE p == Spot(reply, i)
               l == Longer(reply, i)
               c == Len(b)
    <3>5. /\ p \in Nat /\ P \in Nat /\ l \in {0, 1} /\ c = P - 5
          /\ p >= 4 /\ (i # 1 => p >= 7) /\ p + l + 3 <= P
      BY <3>2, <3>3, <3>4
    <3> HIDE DEF p, l, c
    <3>6. p - 3 \in 1..c /\ p - 2 \in 1..c
      BY <3>5
    <3>7. i # 1 => p - 4 \in 1..c
      BY <3>5
    <3>8. l = 1 => p - 1 \in 1..c
      BY <3>5
    <3> QED
      BY <3>6, <3>7, <3>8 DEF p, l, c
  <2> QED
    BY <1>4, <2>2, <2>3
<1>8. ASSUME NEW p \in 1..Len(r)
      PROVE  \E i \in 1..n : /\ p <= After(reply, i) - 3
                             /\ p >= IF i = 1 THEN 1 ELSE Spot(reply, i) - 4
  <2>1. CASE p <= Len(b)
    <3>1. p \in 1..Len(b)
      BY <1>2, <2>1
    <3>2. PICK i \in 1..m : /\ p <= After(reply, i) - 3
                            /\ p >= IF i = 1 THEN 1 ELSE Spot(reply, i) - 4
      BY <3>1 DEF Laid
    <3>3. i \in 1..n
      OBVIOUS
    <3> QED
      BY <3>2, <3>3
  <2>2. CASE ~(p <= Len(b))
    <3>1. Len(r) = After(reply, n) - 3 /\ Len(b) = P - 5 /\ P \in Nat
      BY <1>3, <1>5
    <3>2. p <= Len(r) /\ p \in Nat
      BY <1>4
    <3> HIDE DEF r, P, q
    <3>3. p <= After(reply, n) - 3 /\ p >= P - 4
      BY <2>2, <3>1, <3>2
    <3>4. n \in 1..n /\ n # 1
      OBVIOUS
    <3> HIDE DEF n
    <3> QED
      BY <3>3, <3>4 DEF P
  <2> QED
    BY <2>1, <2>2
<1>9. \A i \in 1..n : i \in 1..m \/ i = n
  OBVIOUS
<1> HIDE DEF n, r, P, L
<1> QED
  BY <1>4, <1>5, <1>6, <1>7, <1>8, <1>9 DEF Laid, n, r, P, L

LEMMA MembersAreLaid ==
    ASSUME NEW reply, reply.members \in Seq(Members), Len(reply.members) > 0
    PROVE  Laid(reply, FlattenSeq([i \in DOMAIN reply.members |-> Part(reply, i)]),
                Len(reply.members))
<1> DEFINE n == Len(reply.members)
           ss == [i \in DOMAIN reply.members |-> Part(reply, i)]
<1>1. n \in Nat /\ DOMAIN reply.members = 1..n /\ n > 0
  OBVIOUS
<1>2. DOMAIN ss = 1..n /\ Len(ss) = n /\ \A i \in 1..n : ss[i] = Part(reply, i)
  BY <1>1
<1> HIDE DEF ss, n
<1>3. PICK fl : /\ fl[1] = ss[1]
                /\ \A i \in 2..n : fl[i] = fl[i - 1] \o ss[i]
                /\ FlattenSeq(ss) = fl[n]
  BY <1>1, <1>2, FlattenBySteps
<1> DEFINE Bad == {i \in 1..n : ~Laid(reply, fl[i], i)}
<1>4. Bad = {}
  <2>1. SUFFICES ASSUME Bad # {} PROVE FALSE
    OBVIOUS
  <2>2. Bad \subseteq Nat
    BY <1>1
  <2>3. PICK i \in Bad : \A j \in Bad : i <= j
    <3> HIDE DEF Bad
    <3> QED
      BY <2>1, <2>2, FirstExists
  <2>4. i # 1
    <3>1. 1 \in 1..n
      BY <1>1
    <3>2. Laid(reply, fl[1], 1)
      BY <1>1, <1>2, <1>3, <3>1, FirstIsLaid
    <3> QED
      BY <3>2
  <2>5. i \in 2..n /\ i - 1 \in 1..n /\ ~(i <= i - 1) /\ (i - 1) + 1 = i
        /\ i - 1 \in Nat /\ i - 1 > 0
    BY <2>4, <1>1
  <2>6. Laid(reply, fl[i - 1], i - 1)
    BY <2>3, <2>5
  <2>7. fl[i] = fl[i - 1] \o Part(reply, (i - 1) + 1)
    BY <1>2, <1>3, <2>5
  <2>8. Laid(reply, fl[i], i)
    BY <1>1, <2>5, <2>6, <2>7, NextIsLaid
  <2> QED
    BY <2>8
<1> QED
  BY <1>1, <1>3, <1>4 DEF ss, n

-------------------------------------------------------------------------------
(***************************************************************************)
(* The text that was meant, then the part of it that was received.          *)
(***************************************************************************)
Closing(reply) == IF Len(reply.members) = 0 THEN 3 ELSE After(reply, Len(reply.members))

LEMMA TokenIs ==
    ASSUME NEW reply, NEW i
    PROVE  /\ KeyOf(reply, i).t = "key" /\ KeyOf(reply, i).key = reply.members[i].key
           /\ ValueOf(reply, i).t = "value" /\ ValueOf(reply, i).value = reply.members[i].cut
           /\ MoreOf(reply, i).t = "more" /\ MoreOf(reply, i).value = reply.members[i].written
  BY DEF KeyOf, ValueOf, MoreOf, Token

Parts(reply) == FlattenSeq([i \in DOMAIN reply.members |-> Part(reply, i)])

LEMMA MeantParts ==
    ASSUME NEW reply, reply.prose = "plain"
    PROVE  Meant(reply) =
              (((<<Mark("scrap")>> \o <<Mark("open")>>) \o Parts(reply)) \o <<Mark("close")>>)
              \o <<Mark("scrap"), Mark("open"), Mark("scrap")>>
  BY DEF Meant, Prose, Parts, Part

LEMMA BraceParts ==
    ASSUME NEW reply, reply.prose = "brace"
    PROVE  Meant(reply) =
              (((<<Mark("open"), Mark("scrap")>> \o <<Mark("open")>>) \o Parts(reply))
                 \o <<Mark("close")>>) \o <<Mark("scrap"), Mark("open"), Mark("scrap")>>
  BY DEF Meant, Prose, Parts, Part

LEMMA PairOf ==
    ASSUME NEW S, NEW x \in S, NEW y \in S
    PROVE  /\ <<x>> \o <<y>> \in Seq(S) /\ Len(<<x>> \o <<y>>) = 2
           /\ (<<x>> \o <<y>>)[1] = x /\ (<<x>> \o <<y>>)[2] = y
  OBVIOUS

LEMMA PartsAre ==
    ASSUME NEW reply, reply.members \in Seq(Members)
    PROVE  /\ Parts(reply) \in Seq(TokenSet(reply))
           /\ Len(Parts(reply)) = Closing(reply) - 3
           /\ Closing(reply) \in Nat /\ Closing(reply) >= 3
           /\ Len(reply.members) > 0 => Laid(reply, Parts(reply), Len(reply.members))
<1>1. CASE Len(reply.members) = 0
  <2>1. reply.members = <<>>
    BY <1>1
  <2>2. [i \in DOMAIN reply.members |-> Part(reply, i)] = <<>>
    BY <2>1
  <2>3. Parts(reply) = <<>>
    BY <2>2 DEF Parts, FlattenSeq
  <2> QED
    BY <1>1, <2>3 DEF Closing
<1>2. CASE Len(reply.members) # 0
  <2>1. Len(reply.members) \in Nat /\ Len(reply.members) > 0
    BY <1>2
  <2>2. Laid(reply, Parts(reply), Len(reply.members))
    BY <2>1, MembersAreLaid DEF Parts
  <2>3. Parts(reply) \in Seq(TokenSet(reply)) /\ Len(Parts(reply)) = Closing(reply) - 3
    BY <1>2, <2>2 DEF Laid, Closing
  <2>4. Closing(reply) \in Nat /\ Closing(reply) >= 3
    <3> DEFINE n == Len(reply.members)
    <3>1. n \in Nat /\ n > 0
      BY <2>1
    <3> HIDE DEF n
    <3>2. Spot(reply, n) \in Nat /\ Spot(reply, n) >= 1 + 3 * n /\ Longer(reply, n) \in {0, 1}
      BY <3>1, Places
    <3>3. Closing(reply) = Spot(reply, n) + Longer(reply, n) + 1
      BY <1>2 DEF Closing, After, n
    <3> QED
      BY <3>1, <3>2, <3>3
  <2> QED
    BY <2>1, <2>2, <2>3, <2>4
<1> QED
  BY <1>1, <1>2

LEMMA MarksAreTokens ==
    ASSUME NEW reply
    PROVE  /\ Mark("scrap") \in TokenSet(reply) /\ Mark("open") \in TokenSet(reply)
           /\ Mark("close") \in TokenSet(reply) /\ Mark("comma") \in TokenSet(reply)
  BY DEF TokenSet

(* A text in three parts, whatever stands before and behind the middle.     *)
LEMMA Enclosed ==
    ASSUME NEW S, NEW a \in Seq(S), NEW b \in Seq(S), NEW c \in Seq(S)
    PROVE  /\ (a \o b) \o c \in Seq(S)
           /\ Len((a \o b) \o c) = Len(a) + Len(b) + Len(c)
           /\ \A i \in 1..Len(a) : ((a \o b) \o c)[i] = a[i]
           /\ \A i \in 1..Len(b) : ((a \o b) \o c)[Len(a) + i] = b[i]
           /\ \A i \in 1..Len(c) : ((a \o b) \o c)[Len(a) + Len(b) + i] = c[i]
<1> DEFINE d == a \o b
           e == d \o c
<1>1. /\ d \in Seq(S) /\ Len(d) = Len(a) + Len(b) /\ Len(a) \in Nat /\ Len(b) \in Nat
      /\ \A i \in 1..Len(a) : d[i] = a[i]
      /\ \A i \in 1..Len(b) : d[Len(a) + i] = b[i]
  BY Concatenated
<1> HIDE DEF d
<1>2. /\ e \in Seq(S) /\ Len(e) = Len(d) + Len(c)
      /\ \A i \in 1..Len(d) : e[i] = d[i]
      /\ \A i \in 1..Len(c) : e[Len(d) + i] = c[i]
  <2>1. e \in Seq(S) /\ Len(e) = Len(d) + Len(c)
    BY <1>1, Concatenated
  <2>2. \A i \in 1..Len(d) : e[i] = d[i]
    BY <1>1, Concatenated
  <2>3. \A i \in 1..Len(c) : e[Len(d) + i] = c[i]
    BY <1>1, Concatenated
  <2> QED
    BY <2>1, <2>2, <2>3
<1> HIDE DEF e
<1>3. Len(e) = Len(a) + Len(b) + Len(c)
  BY <1>1, <1>2
<1>4. ASSUME NEW i \in 1..Len(a) PROVE e[i] = a[i]
  <2>1. i \in 1..Len(d)
    BY <1>1
  <2> QED
    BY <1>1, <1>2, <2>1
<1>5. ASSUME NEW i \in 1..Len(b) PROVE e[Len(a) + i] = b[i]
  <2>1. Len(a) + i \in 1..Len(d)
    BY <1>1
  <2> QED
    BY <1>1, <1>2, <2>1
<1>6. \A i \in 1..Len(c) : e[Len(a) + Len(b) + i] = c[i]
  BY <1>1, <1>2
<1> QED
  BY <1>2, <1>3, <1>4, <1>5, <1>6 DEF e, d

LEMMA MeantIs ==
    ASSUME NEW reply, reply.members \in Seq(Members), reply.prose = "plain"
    PROVE  LET M == Meant(reply)
               C == Closing(reply)
               b == Parts(reply)
           IN  /\ M \in Seq(TokenSet(reply)) /\ Len(M) = C + 3
               /\ M[1] = Mark("scrap") /\ M[2] = Mark("open") /\ M[C] = Mark("close")
               /\ \A p \in 1..(C - 3) : M[2 + p] = b[p]
<1> DEFINE M == Meant(reply)
           C == Closing(reply)
           b == Parts(reply)
           f == <<Mark("scrap")>>
           g == <<Mark("open")>>
           a == f \o g
           y == <<Mark("close")>>
           z == <<Mark("scrap"), Mark("open"), Mark("scrap")>>
           S == TokenSet(reply)
<1>1. M = ((a \o b) \o y) \o z
  BY MeantParts
<1>2. /\ b \in Seq(S) /\ Len(b) = C - 3 /\ C \in Nat /\ C >= 3
  BY PartsAre
<1>3. /\ a \in Seq(S) /\ Len(a) = 2 /\ a[1] = Mark("scrap") /\ a[2] = Mark("open")
  BY PairOf, MarksAreTokens
<1>4. /\ a \in Seq(S) /\ Len(a) = 2 /\ a[1] = Mark("scrap") /\ a[2] = Mark("open")
      /\ y \in Seq(S) /\ Len(y) = 1 /\ y[1] = Mark("close")
      /\ z \in Seq(S) /\ Len(z) = 3
  <2> HIDE DEF a
  <2> QED
    BY <1>3, MarksAreTokens
<1> DEFINE e == (a \o b) \o y
<1> HIDE DEF f, g, a, y, z, b, C, M, S
<1>5. /\ e \in Seq(S) /\ Len(e) = Len(a) + Len(b) + Len(y)
      /\ \A i \in 1..Len(a) : e[i] = a[i]
      /\ \A i \in 1..Len(b) : e[Len(a) + i] = b[i]
      /\ \A i \in 1..Len(y) : e[Len(a) + Len(b) + i] = y[i]
  <2>1. a \in Seq(S) /\ b \in Seq(S) /\ y \in Seq(S)
    BY <1>2, <1>4
  <2>2. e \in Seq(S) /\ Len(e) = Len(a) + Len(b) + Len(y)
    BY <2>1, Enclosed
  <2>3. \A i \in 1..Len(a) : e[i] = a[i]
    BY <2>1, Enclosed
  <2>4. \A i \in 1..Len(b) : e[Len(a) + i] = b[i]
    BY <2>1, Enclosed
  <2>5. \A i \in 1..Len(y) : e[Len(a) + Len(b) + i] = y[i]
    BY <2>1, Enclosed
  <2> QED
    BY <2>2, <2>3, <2>4, <2>5
<1> HIDE DEF e
<1>6. M = e \o z
  BY <1>1 DEF e
<1>7. /\ M \in Seq(S) /\ Len(M) = Len(e) + 3 /\ Len(e) = C
      /\ \A i \in 1..Len(e) : M[i] = e[i]
  <2>1. Len(e) = C
    BY <1>2, <1>4, <1>5
  <2>a. e \in Seq(S) /\ z \in Seq(S)
    BY <1>4, <1>5
  <2>2. M \in Seq(S) /\ Len(M) = Len(e) + Len(z)
    BY <1>6, <2>a, Lengthened
  <2>3. \A i \in 1..Len(e) : M[i] = e[i]
    BY <1>6, <2>a, LeftHalf
  <2> QED
    BY <1>4, <2>1, <2>2, <2>3
<1>8. M[1] = Mark("scrap") /\ M[2] = Mark("open")
  <2>1. 1 \in 1..Len(e) /\ 2 \in 1..Len(e) /\ 1 \in 1..Len(a) /\ 2 \in 1..Len(a)
    BY <1>2, <1>4, <1>7
  <2> QED
    BY <1>4, <1>5, <1>7, <2>1
<1>9. M[C] = Mark("close")
  <2>1. C \in 1..Len(e) /\ Len(a) + Len(b) + 1 = C /\ 1 \in 1..Len(y)
    BY <1>2, <1>4, <1>7
  <2> QED
    BY <1>4, <1>5, <1>7, <2>1
<1>10. ASSUME NEW p \in 1..(C - 3) PROVE M[2 + p] = b[p]
  <2>1. 2 + p \in 1..Len(e) /\ p \in 1..Len(b) /\ Len(a) = 2
    BY <1>2, <1>4, <1>7
  <2>2. e[2 + p] = b[p]
    BY <1>5, <2>1
  <2> QED
    BY <1>7, <2>1, <2>2
<1> QED
  BY <1>7, <1>8, <1>9, <1>10 DEF M, C, b, S

LEMMA BraceIs ==
    ASSUME NEW reply, reply.members \in Seq(Members), reply.prose = "brace"
    PROVE  LET M == Meant(reply)
           IN  /\ M \in Seq(TokenSet(reply)) /\ Len(M) >= 2
               /\ M[1] = Mark("open") /\ M[2] = Mark("scrap")
<1> DEFINE M == Meant(reply)
           b == Parts(reply)
           a == <<Mark("open"), Mark("scrap")>>
           x == <<Mark("open")>>
           y == <<Mark("close")>>
           z == <<Mark("scrap"), Mark("open"), Mark("scrap")>>
           S == TokenSet(reply)
<1>1. M = (((a \o x) \o b) \o y) \o z
  BY BraceParts
<1>2. b \in Seq(S)
  BY PartsAre
<1>3. /\ a \in Seq(S) /\ Len(a) = 2 /\ a[1] = Mark("open") /\ a[2] = Mark("scrap")
      /\ x \in Seq(S) /\ y \in Seq(S) /\ z \in Seq(S)
  BY MarksAreTokens
<1> DEFINE e == (a \o x) \o b
           f == (e \o y) \o z
<1> HIDE DEF a, x, y, z, b, M, S
<1>4. /\ e \in Seq(S) /\ Len(e) = Len(a) + Len(x) + Len(b)
      /\ \A i \in 1..Len(a) : e[i] = a[i]
  <2>1. a \in Seq(S) /\ x \in Seq(S) /\ b \in Seq(S)
    BY <1>2, <1>3
  <2>2. e \in Seq(S) /\ Len(e) = Len(a) + Len(x) + Len(b)
    BY <2>1, Enclosed
  <2>3. \A i \in 1..Len(a) : e[i] = a[i]
    BY <2>1, Enclosed
  <2> QED
    BY <2>2, <2>3
<1>5. M = f
  BY <1>1
<1> HIDE DEF e
<1>6. /\ f \in Seq(S) /\ Len(f) = Len(e) + Len(y) + Len(z)
      /\ \A i \in 1..Len(e) : f[i] = e[i]
  <2>1. e \in Seq(S) /\ y \in Seq(S) /\ z \in Seq(S)
    BY <1>3, <1>4
  <2>2. f \in Seq(S) /\ Len(f) = Len(e) + Len(y) + Len(z)
    BY <2>1, Enclosed
  <2>3. \A i \in 1..Len(e) : f[i] = e[i]
    BY <2>1, Enclosed
  <2> QED
    BY <2>2, <2>3
<1> HIDE DEF f
<1>7. Len(x) \in Nat /\ Len(y) \in Nat /\ Len(z) \in Nat /\ Len(b) \in Nat
  BY <1>2, <1>3
<1>8. Len(e) >= 2 /\ Len(e) \in Nat /\ Len(f) >= 2
  BY <1>3, <1>4, <1>6, <1>7
<1>9. 1 \in 1..Len(e) /\ 2 \in 1..Len(e) /\ 1 \in 1..Len(a) /\ 2 \in 1..Len(a)
  BY <1>3, <1>8
<1>10. f[1] = Mark("open") /\ f[2] = Mark("scrap")
  BY <1>3, <1>4, <1>6, <1>9
<1> QED
  BY <1>5, <1>6, <1>8, <1>10 DEF M, S

(* The tokens of the object, each from its member.                          *)
LEMMA MeantMembers ==
    ASSUME NEW reply, reply.members \in Seq(Members), reply.prose = "plain"
    PROVE  LET M == Meant(reply)
               C == Closing(reply)
               n == Len(reply.members)
           IN  /\ \A i \in 1..n :
                     /\ Spot(reply, i) \in Nat /\ Spot(reply, i) >= 4
                     /\ Longer(reply, i) \in {0, 1}
                     /\ After(reply, i) = Spot(reply, i) + Longer(reply, i) + 1
                     /\ After(reply, i) <= C
                     /\ i # 1 => M[Spot(reply, i) - 2] = Mark("comma")
                     /\ M[Spot(reply, i) - 1] = KeyOf(reply, i)
                     /\ M[Spot(reply, i)] = ValueOf(reply, i)
                     /\ Longer(reply, i) = 1 => M[Spot(reply, i) + 1] = MoreOf(reply, i)
                     /\ M[After(reply, i)].t = (IF i = n THEN "close" ELSE "comma")
               /\ \A p \in 3..(C - 1) : \E i \in 1..n :
                     /\ p <= After(reply, i) - 1
                     /\ p >= IF i = 1 THEN 3 ELSE Spot(reply, i) - 2
<1> DEFINE M == Meant(reply)
           C == Closing(reply)
           n == Len(reply.members)
           b == Parts(reply)
<1>1. /\ n \in Nat /\ C \in Nat /\ C >= 3 /\ Len(b) = C - 3
      /\ n > 0 => Laid(reply, b, n)
  BY PartsAre
<1>2. /\ \A p \in 1..(C - 3) : M[2 + p] = b[p]
      /\ M[C] = Mark("close")
  BY MeantIs
<1>3. n > 0 => C = After(reply, n)
  BY <1>1 DEF Closing
<1> HIDE DEF M, C, n, b
<1>4. ASSUME NEW i \in 1..n
      PROVE  /\ Spot(reply, i) \in Nat /\ Spot(reply, i) >= 4
             /\ (i # 1 => Spot(reply, i) >= 7)
             /\ Longer(reply, i) \in {0, 1}
             /\ After(reply, i) = Spot(reply, i) + Longer(reply, i) + 1
             /\ After(reply, i) <= C
             /\ i # n => After(reply, i) + 2 <= C
  <2>1. i \in Nat /\ i > 0 /\ n \in Nat /\ n > 0
    BY <1>1
  <2>2. Spot(reply, i) \in Nat /\ Spot(reply, i) >= 1 + 3 * i /\ Longer(reply, i) \in {0, 1}
    BY <2>1, Places
  <2>3. After(reply, i) = Spot(reply, i) + Longer(reply, i) + 1
    BY DEF After
  <2>4. i # n => After(reply, i) + 2 <= C
    <3> SUFFICES ASSUME i # n PROVE After(reply, i) + 2 <= C
      OBVIOUS
    <3>1. i < n
      BY <2>1
    <3>2. After(reply, i) + 2 <= Spot(reply, n)
      BY <2>1, <3>1, Places
    <3>3. Spot(reply, n) \in Nat /\ Longer(reply, n) \in {0, 1}
      BY <2>1, Places
    <3>4. C = Spot(reply, n) + Longer(reply, n) + 1
      BY <1>3, <2>1 DEF After
    <3> QED
      BY <2>2, <2>3, <3>2, <3>3, <3>4
  <2>5. Spot(reply, i) >= 4 /\ (i # 1 => Spot(reply, i) >= 7)
    <3>1. i = 1 \/ i >= 2
      BY <2>1
    <3> QED
      BY <2>1, <2>2, <3>1
  <2>6. After(reply, i) <= C
    <3>1. i = n => C = After(reply, i)
      BY <1>3, <2>1
    <3> QED
      BY <1>1, <2>2, <2>3, <2>4, <3>1
  <2> QED
    BY <2>2, <2>3, <2>4, <2>5, <2>6
<1>5. ASSUME NEW i \in 1..n
      PROVE  /\ i # 1 => M[Spot(reply, i) - 2] = Mark("comma")
             /\ M[Spot(reply, i) - 1] = KeyOf(reply, i)
             /\ M[Spot(reply, i)] = ValueOf(reply, i)
             /\ Longer(reply, i) = 1 => M[Spot(reply, i) + 1] = MoreOf(reply, i)
  <2> DEFINE P == Spot(reply, i)
             L == Longer(reply, i)
  <2>1. /\ i # 1 => b[P - 4] = Mark("comma")
        /\ b[P - 3] = KeyOf(reply, i) /\ b[P - 2] = ValueOf(reply, i)
        /\ L = 1 => b[P - 1] = MoreOf(reply, i)
    <3>1. n > 0
      BY <1>1
    <3> QED
      BY <1>1, <3>1 DEF Laid
  <2>2. /\ P \in Nat /\ P >= 4 /\ (i # 1 => P >= 7)
        /\ L \in {0, 1} /\ P + L + 1 <= C
    BY <1>4
  <2> HIDE DEF P, L
  <2>3. /\ i # 1 => P - 4 \in 1..(C - 3)
        /\ P - 3 \in 1..(C - 3) /\ P - 2 \in 1..(C - 3)
        /\ L = 1 => P - 1 \in 1..(C - 3)
    BY <1>1, <2>2
  <2>4. 2 + (P - 4) = P - 2 /\ 2 + (P - 3) = P - 1 /\ 2 + (P - 2) = P /\ 2 + (P - 1) = P + 1
    BY <2>2
  <2>5. i # 1 => M[P - 2] = Mark("comma")
    BY <1>2, <2>1, <2>3, <2>4
  <2>6. M[P - 1] = KeyOf(reply, i)
    BY <1>2, <2>1, <2>3, <2>4
  <2>7. M[P] = ValueOf(reply, i)
    BY <1>2, <2>1, <2>3, <2>4
  <2>8. L = 1 => M[P + 1] = MoreOf(reply, i)
    BY <1>2, <2>1, <2>3, <2>4
  <2> QED
    BY <2>5, <2>6, <2>7, <2>8 DEF P, L
<1>6. ASSUME NEW i \in 1..n
      PROVE  M[After(reply, i)].t = (IF i = n THEN "close" ELSE "comma")
  <2>1. CASE i = n
    <3>1. M[After(reply, i)] = Mark("close")
      BY <1>2, <1>3, <2>1
    <3> QED
      BY <2>1, <3>1, MarkIs
  <2>2. CASE i # n
    <3>1. i \in Nat /\ i > 0 /\ i + 1 \in 1..n /\ i + 1 # 1
      BY <1>1, <2>2
    <3>2. Spot(reply, i + 1) = After(reply, i) + 2
      BY <3>1, Places
    <3>3. M[Spot(reply, i + 1) - 2] = Mark("comma")
      BY <1>5, <3>1
    <3>4. After(reply, i) \in Nat
      BY <1>4
    <3>5. Spot(reply, i + 1) - 2 = After(reply, i)
      BY <3>2, <3>4
    <3> QED
      BY <2>2, <3>3, <3>5, MarkIs
  <2> QED
    BY <2>1, <2>2
<1>7. ASSUME NEW p \in 3..(C - 1)
      PROVE  \E i \in 1..n : /\ p <= After(reply, i) - 1
                             /\ p >= IF i = 1 THEN 3 ELSE Spot(reply, i) - 2
  <2>1. p - 2 \in 1..Len(b) /\ p \in Nat
    BY <1>1
  <2>2. n > 0
    <3> SUFFICES ASSUME n = 0 PROVE FALSE
      BY <1>1
    <3>1. C = 3
      BY DEF C, n, Closing
    <3> QED
      BY <3>1
  <2>3. PICK i \in 1..n : /\ p - 2 <= After(reply, i) - 3
                          /\ p - 2 >= IF i = 1 THEN 1 ELSE Spot(reply, i) - 4
    BY <1>1, <2>1, <2>2 DEF Laid
  <2>4. Spot(reply, i) \in Nat /\ After(reply, i) \in Nat
    BY <1>4
  <2>5. p <= After(reply, i) - 1 /\ p >= IF i = 1 THEN 3 ELSE Spot(reply, i) - 2
    BY <2>1, <2>3, <2>4
  <2> QED
    BY <2>5
<1> QED
  BY <1>4, <1>5, <1>6, <1>7 DEF M, C, n

LEMMA MeantChain ==
    ASSUME NEW reply, reply.members \in Seq(Members), reply.prose = "plain"
    PROVE  LET M == Meant(reply)
               C == Closing(reply)
           IN  /\ \A p \in 2..(C - 1) :
                     /\ M[p].t \in Inside /\ M[p + 1].t \in Follows[M[p].t]
                     /\ M[p].t = "key" =>
                           \E i \in 1..Len(reply.members) : p = Spot(reply, i) - 1
               /\ M[C - 1].t \in {"open", "value", "more"}
<1> DEFINE M == Meant(reply)
           C == Closing(reply)
           n == Len(reply.members)
<1>1. /\ n \in Nat /\ C \in Nat /\ C >= 3
      /\ (n = 0 => C = 3) /\ (n > 0 => C = After(reply, n))
  BY PartsAre DEF Closing
<1>2. /\ M[2].t = "open" /\ M[C].t = "close"
  BY MeantIs, MarkIs
<1>3. ASSUME NEW i \in 1..n
      PROVE  /\ Spot(reply, i) \in Nat /\ Spot(reply, i) >= 4
             /\ Longer(reply, i) \in {0, 1}
             /\ After(reply, i) = Spot(reply, i) + Longer(reply, i) + 1
             /\ i # 1 => M[Spot(reply, i) - 2] = Mark("comma")
             /\ M[Spot(reply, i) - 1] = KeyOf(reply, i)
             /\ M[Spot(reply, i)] = ValueOf(reply, i)
             /\ Longer(reply, i) = 1 => M[Spot(reply, i) + 1] = MoreOf(reply, i)
             /\ M[After(reply, i)].t = (IF i = n THEN "close" ELSE "comma")
  BY MeantMembers
<1>4. \A p \in 3..(C - 1) : \E i \in 1..n : /\ p <= After(reply, i) - 1
                                            /\ p >= IF i = 1 THEN 3 ELSE Spot(reply, i) - 2
  BY MeantMembers
<1>5. Spot(reply, 1) = 4
  BY Places
<1> HIDE DEF M, C, n
<1>6. ASSUME NEW i \in 1..n
      PROVE  /\ M[Spot(reply, i) - 1].t = "key" /\ M[Spot(reply, i)].t = "value"
             /\ (i # 1 => M[Spot(reply, i) - 2].t = "comma")
             /\ (Longer(reply, i) = 1 => M[Spot(reply, i) + 1].t = "more")
             /\ M[After(reply, i)].t \in {"comma", "close"}
  <2>1. M[Spot(reply, i) - 1].t = "key"
    BY <1>3, TokenIs
  <2>2. M[Spot(reply, i)].t = "value"
    BY <1>3, TokenIs
  <2>3. i # 1 => M[Spot(reply, i) - 2].t = "comma"
    BY <1>3, MarkIs
  <2>4. Longer(reply, i) = 1 => M[Spot(reply, i) + 1].t = "more"
    BY <1>3, TokenIs
  <2>5. M[After(reply, i)].t \in {"comma", "close"}
    BY <1>3
  <2> QED
    BY <2>1, <2>2, <2>3, <2>4, <2>5
<1>7. ASSUME NEW p \in 2..(C - 1)
      PROVE  /\ M[p].t \in Inside /\ M[p + 1].t \in Follows[M[p].t]
             /\ M[p].t = "key" => \E i \in 1..n : p = Spot(reply, i) - 1
  <2>1. CASE p = 2
    <3>1. M[3].t \in {"key", "close"}
      <4>1. CASE n = 0
        BY <1>1, <1>2, <4>1
      <4>2. CASE n # 0
        <5>1. 1 \in 1..n
          BY <1>1, <4>2
        <5>2. M[4 - 1].t = "key"
          BY <1>5, <1>6, <5>1
        <5> QED
          BY <5>2
      <4> QED
        BY <4>1, <4>2
    <3>2. M[p].t = "open" /\ M[p + 1].t \in {"key", "close"}
      BY <1>2, <2>1, <3>1
    <3> QED
      BY <3>2, FollowsIs DEF Inside
  <2>2. CASE p # 2
    <3>1. p \in 3..(C - 1) /\ p \in Nat
      BY <1>1, <2>2
    <3>2. PICK i \in 1..n : /\ p <= After(reply, i) - 1
                            /\ p >= IF i = 1 THEN 3 ELSE Spot(reply, i) - 2
      BY <1>4, <3>1
    <3> DEFINE P == Spot(reply, i)
               L == Longer(reply, i)
    <3>3. P \in Nat /\ P >= 4 /\ L \in {0, 1} /\ After(reply, i) = P + L + 1
      BY <1>3
    <3>4. /\ M[P - 1].t = "key" /\ M[P].t = "value" /\ (i # 1 => M[P - 2].t = "comma")
          /\ (L = 1 => M[P + 1].t = "more") /\ M[P + L + 1].t \in {"comma", "close"}
      BY <1>6, <3>3
    <3>5. i = 1 => P = 4
      BY <1>5
    <3> HIDE DEF P, L
    <3>6. \/ i # 1 /\ p = P - 2
          \/ p = P - 1
          \/ p = P
          \/ p = P + 1 /\ L = 1
      BY <3>1, <3>2, <3>3, <3>5 DEF P
    <3>7. CASE i # 1 /\ p = P - 2
      <4>1. p + 1 = P - 1
        BY <3>3, <3>7
      <4>2. M[p].t = "comma" /\ M[p + 1].t = "key"
        BY <3>4, <3>7, <4>1
      <4> QED
        BY <4>2, FollowsIs DEF Inside
    <3>8. CASE p = P - 1
      <4>1. p + 1 = P
        BY <3>3, <3>8
      <4>2. M[p].t = "key" /\ M[p + 1].t = "value"
        BY <3>4, <3>8, <4>1
      <4>3. M[p].t \in Inside /\ M[p + 1].t \in Follows[M[p].t]
        BY <4>2, FollowsIs DEF Inside
      <4> QED
        BY <3>8, <4>3 DEF P
    <3>9. CASE p = P
      <4>1. M[P + 1].t \in {"more", "comma", "close"}
        <5>1. CASE L = 0
          <6>1. P + L + 1 = P + 1
            BY <3>3, <5>1
          <6> QED
            BY <3>4, <6>1
        <5>2. CASE L = 1
          BY <3>4, <5>2
        <5> QED
          BY <3>3, <5>1, <5>2
      <4>2. M[p].t = "value" /\ M[p + 1].t \in {"more", "comma", "close"}
        BY <3>4, <3>9, <4>1
      <4> QED
        BY <4>2, FollowsIs DEF Inside
    <3>10. CASE p = P + 1 /\ L = 1
      <4>1. p + 1 = P + L + 1
        BY <3>3, <3>10
      <4>2. M[p].t = "more" /\ M[p + 1].t \in {"comma", "close"}
        BY <3>4, <3>10, <4>1
      <4> QED
        BY <4>2, FollowsIs DEF Inside
    <3> QED
      BY <3>6, <3>7, <3>8, <3>9, <3>10
  <2> QED
    BY <2>1, <2>2
<1>8. M[C - 1].t \in {"open", "value", "more"}
  <2>1. CASE n = 0
    BY <1>1, <1>2, <2>1
  <2>2. CASE n # 0
    <3> DEFINE P == Spot(reply, n)
               L == Longer(reply, n)
    <3>1. n \in 1..n
      BY <1>1, <2>2
    <3>2. P \in Nat /\ L \in {0, 1} /\ C = P + L + 1
      BY <1>1, <1>3, <3>1
    <3>3. M[P].t = "value" /\ (L = 1 => M[P + 1].t = "more")
      BY <1>6, <3>1
    <3> HIDE DEF P, L
    <3>4. C - 1 = IF L = 1 THEN P + 1 ELSE P
      BY <3>2
    <3> QED
      BY <3>2, <3>3, <3>4
  <2> QED
    BY <2>1, <2>2
<1> QED
  BY <1>7, <1>8 DEF M, C, n

(* The first tokens of the text are those that were meant, then a mistake   *)
(* or nothing more.                                                         *)
Got(reply) == IF reply.end = "whole" THEN Len(Meant(reply)) ELSE reply.upto

LEMMA TextIs ==
    ASSUME NEW reply, IsReply(reply), NEW S, Meant(reply) \in Seq(S), Mark("scrap") \in S
    PROVE  LET t == Text(reply)
               M == Meant(reply)
               u == Got(reply)
           IN  /\ t \in Seq(S) /\ u \in 0..Len(M) /\ u <= Len(t)
               /\ \A p \in 1..u : t[p] = M[p]
               /\ Len(t) = u \/ (u + 1 <= Len(t) /\ t[u + 1] = Mark("scrap"))
               /\ u < 2 => \A p \in 1..Len(t) : p <= u \/ t[p] = Mark("scrap")
<1> DEFINE t == Text(reply)
           M == Meant(reply)
           u == Got(reply)
           o == reply.upto
           h == SubSeq(M, 1, o)
           x == Mark("scrap")
           a == Append(h, x)
           z == SubSeq(M, o + 1, Len(M))
<1>1. o \in 0..Len(M) /\ Len(M) \in Nat /\ M \in Seq(S) /\ x \in S
  BY DEF IsReply
<1>2. reply.end \in {"whole", "cut", "half", "mistake"} /\ (reply.end = "mistake" => o >= 2)
  BY DEF IsReply
<1>3. /\ (reply.end = "whole" => t = M) /\ (reply.end = "cut" => t = h)
      /\ (reply.end = "half" => t = a) /\ (reply.end = "mistake" => t = a \o z)
  BY DEF Text
<1>4. (reply.end = "whole" => u = Len(M)) /\ (reply.end # "whole" => u = o)
  BY DEF Got
<1> HIDE DEF t, M, u, o, x
<1>5. h \in Seq(S) /\ Len(h) = o /\ \A p \in 1..o : h[p] = M[p]
  BY <1>1
<1> HIDE DEF h
<1>6. a \in Seq(S) /\ Len(a) = o + 1 /\ a[o + 1] = x /\ \A p \in 1..o : a[p] = M[p]
  BY <1>1, <1>5
<1>7. z \in Seq(S)
  BY <1>1
<1> HIDE DEF a, z
<1>8. /\ a \o z \in Seq(S) /\ Len(a \o z) = Len(a) + Len(z) /\ Len(z) \in Nat
      /\ \A p \in 1..Len(a) : (a \o z)[p] = a[p]
  BY <1>6, <1>7, Concatenated
<1>9. CASE reply.end = "whole"
  <2>1. t = M /\ u = Len(M)
    BY <1>3, <1>4, <1>9
  <2> QED
    BY <1>1, <2>1 DEF t, M, u
<1>10. CASE reply.end = "cut"
  <2>1. t = h /\ u = o
    BY <1>3, <1>4, <1>10
  <2>2. /\ t \in Seq(S) /\ u \in 0..Len(M) /\ u <= Len(t) /\ Len(t) = u
        /\ \A p \in 1..u : t[p] = M[p]
        /\ \A p \in 1..Len(t) : p <= u
    BY <1>1, <1>5, <2>1
  <2> QED
    BY <2>2 DEF t, M, u
<1>11. CASE reply.end = "half"
  <2>1. t = a /\ u = o
    BY <1>3, <1>4, <1>11
  <2>2. /\ t \in Seq(S) /\ u \in 0..Len(M) /\ u <= Len(t)
        /\ \A p \in 1..u : t[p] = M[p]
        /\ u + 1 <= Len(t) /\ t[u + 1] = x
    BY <1>1, <1>6, <2>1
  <2>3. \A p \in 1..Len(t) : p <= u \/ t[p] = x
    BY <1>1, <1>6, <2>1
  <2> QED
    BY <2>2, <2>3 DEF t, M, u, x
<1>12. CASE reply.end = "mistake"
  <2>1. t = a \o z /\ u = o /\ ~(u < 2)
    BY <1>1, <1>2, <1>3, <1>4, <1>12
  <2>2. /\ t \in Seq(S) /\ u \in 0..Len(M) /\ u <= Len(t)
        /\ \A p \in 1..u : t[p] = M[p]
        /\ u + 1 <= Len(t) /\ t[u + 1] = x
    BY <1>1, <1>6, <1>8, <2>1
  <2> QED
    BY <2>1, <2>2 DEF t, M, u, x
<1> QED
  BY <1>2, <1>9, <1>10, <1>11, <1>12

-------------------------------------------------------------------------------
(***************************************************************************)
(* What is read is what is to be read.                                      *)
(***************************************************************************)
LEMMA ReadFromBrace ==
    ASSUME NEW S, NEW t \in Seq(S), NEW d \in 1..Len(t), t[d].t = "open",
           \A p \in 1..(d - 1) : t[p].t # "open",
           NEW n, Chain(SubSeq(t, d, Len(t)), n), Stops(SubSeq(t, d, Len(t)), n)
    PROVE  _premier_objet_json(t) = FieldsOf(SubSeq(t, d, Len(t)), n)
<1> DEFINE Braces == {i \in DOMAIN t : t[i].t = "open"}
           c == CHOOSE i \in Braces : \A j \in Braces : i <= j
           s == SubSeq(t, d, Len(t))
<1>1. d \in Braces /\ \A j \in Braces : d <= j
  <2>1. d \in Braces /\ Len(t) \in Nat
    OBVIOUS
  <2>2. ASSUME NEW j \in Braces PROVE d <= j
    <3>1. j \in 1..Len(t) /\ t[j].t = "open"
      OBVIOUS
    <3> QED
      BY <3>1
  <2> QED
    BY <2>1, <2>2
<1>2. Braces \subseteq Int
  OBVIOUS
<1>3. c = d
  <2> HIDE DEF Braces
  <2>1. c \in Braces /\ \A j \in Braces : c <= j
    BY <1>1
  <2>2. c <= d /\ d <= c /\ c \in Int /\ d \in Int
    BY <1>1, <1>2, <2>1
  <2> HIDE DEF c
  <2> QED
    BY <2>2
<1>4. _premier_objet_json(t) = IF Braces = {} THEN NoFields
                               ELSE IF Decodable(SubSeq(t, c, Len(t)))
                                    THEN Decoded(SubSeq(t, c, Len(t)))
                                    ELSE _reparer_objet_tronque(SubSeq(t, c, Len(t)))
  BY DEF _premier_objet_json
<1>5. s \in Seq(S)
  OBVIOUS
<1> HIDE DEF c, Braces
<1>6. _premier_objet_json(t) = IF Decodable(s) THEN Decoded(s) ELSE _reparer_objet_tronque(s)
  BY <1>1, <1>3, <1>4
<1> HIDE DEF s
<1>7. Chain(s, n) /\ Stops(s, n)
  BY DEF s
<1> QED
  BY <1>5, <1>6, <1>7, ChainReads DEF s

LEMMA NothingRead ==
    ASSUME NEW t, \A p \in DOMAIN t : t[p].t # "open"
    PROVE  _premier_objet_json(t) = NoFields
  BY DEF _premier_objet_json

LEMMA NothingDue ==
    ASSUME NEW reply, Received(reply) = {}
    PROVE  FieldsDue(reply) = NoFields
  BY DEF FieldsDue, NoFields

LEMMA NoKeys ==
    ASSUME NEW s, NEW n, KeysOf(s, n) = {}
    PROVE  FieldsOf(s, n) = NoFields
  BY DEF FieldsOf, NoFields

(* A brace in the prose hides the object. *)
LEMMA BraceReading ==
    ASSUME NEW reply, IsReply(reply), reply.prose = "brace"
    PROVE  _premier_objet_json(Text(reply)) = NoFields
<1> DEFINE t == Text(reply)
           M == Meant(reply)
           u == Got(reply)
           S == TokenSet(reply)
           s == SubSeq(t, 1, Len(t))
<1>2. M \in Seq(S) /\ Len(M) >= 2 /\ M[1].t = "open" /\ M[2] = Mark("scrap")
  <2>1. reply.members \in Seq(Members)
    BY DEF IsReply
  <2> QED
    BY <2>1, BraceIs, MarkIs
<1>3. /\ t \in Seq(S) /\ u \in 0..Len(M) /\ u <= Len(t)
      /\ \A p \in 1..u : t[p] = M[p]
      /\ Len(t) = u \/ (u + 1 <= Len(t) /\ t[u + 1] = Mark("scrap"))
      /\ u < 2 => \A p \in 1..Len(t) : p <= u \/ t[p] = Mark("scrap")
  BY <1>2, TextIs, MarksAreTokens
<1>4. Mark("scrap").t = "scrap" /\ Len(t) \in Nat /\ Len(M) \in Nat
  BY <1>2, <1>3, MarkIs
<1> HIDE DEF t, M, u, S
<1>5. CASE u = 0
  <2>1. \A p \in 1..Len(t) : t[p] = Mark("scrap")
    BY <1>3, <1>5
  <2>2. \A p \in DOMAIN t : t[p].t # "open"
    BY <1>3, <1>4, <2>1
  <2>3. _premier_objet_json(t) = NoFields
    BY <2>2, NothingRead
  <2> QED
    BY <2>3 DEF t
<1>6. CASE u # 0
  <2>1. 1 \in 1..u /\ 1 \in 1..Len(t) /\ t[1] = M[1]
    BY <1>3, <1>4, <1>6
  <2>2. /\ s \in Seq(S) /\ Len(s) = Len(t)
        /\ \A i \in 1..Len(t) : s[i] = t[i]
    BY <1>3, <1>4
  <2>3. t[1].t = "open" /\ s[1].t = "open"
    BY <1>2, <2>1, <2>2
  <2>4. Len(t) = 1 \/ (2 <= Len(t) /\ t[2].t = "scrap")
    <3>1. CASE u = 1
      BY <1>3, <1>4, <3>1
    <3>2. CASE u # 1
      <4>1. 2 \in 1..u /\ 2 <= Len(t)
        BY <1>3, <1>4, <1>6, <3>2
      <4> QED
        BY <1>2, <1>3, <1>4, <4>1
    <3> QED
      BY <3>1, <3>2
  <2> HIDE DEF s
  <2>5. Chain(s, 1)
    <3>1. 1 \in 1..Len(s) /\ \A i \in 1..1 : i = 1
      BY <2>1, <2>2
    <3>2. \A i \in 1..1 : s[i].t \in Inside
      BY <2>3, <3>1 DEF Inside
    <3> QED
      BY <2>3, <3>1, <3>2 DEF Chain
  <2>6. Stops(s, 1)
    <3>1. Len(s) = 1 \/ (1 + 1 <= Len(s) /\ s[1 + 1].t = "scrap")
      BY <1>4, <2>2, <2>4
    <3> QED
      BY <3>1 DEF Stops
  <2>7. _premier_objet_json(t) = FieldsOf(s, 1)
    <3>1. \A p \in 1..(1 - 1) : t[p].t # "open"
      OBVIOUS
    <3> QED
      BY <1>3, <2>1, <2>3, <2>5, <2>6, <3>1, ReadFromBrace DEF s
  <2>8. KeysOf(s, 1) = {}
    BY DEF KeysOf
  <2> QED
    BY <2>7, <2>8, NoKeys DEF t
<1> QED
  BY <1>5, <1>6

(* Without a brace in the prose, the object is read up to where it stops.   *)
Upto(reply) == IF Got(reply) >= Closing(reply) THEN Closing(reply) - 2 ELSE Got(reply) - 1

LEMMA PlainReading ==
    ASSUME NEW reply, IsReply(reply), reply.prose = "plain", Got(reply) >= 2
    PROVE  LET s == SubSeq(Text(reply), 2, Len(Text(reply)))
               k == Upto(reply)
           IN  /\ _premier_objet_json(Text(reply)) = FieldsOf(s, k)
               /\ k \in Nat /\ k + 1 <= Got(reply)
               /\ \A i \in 1..k : s[i] = Meant(reply)[i + 1] /\ i + 1 \in 2..(Closing(reply) - 1)
<1> DEFINE t == Text(reply)
           M == Meant(reply)
           u == Got(reply)
           C == Closing(reply)
           k == Upto(reply)
           S == TokenSet(reply)
           s == SubSeq(t, 2, Len(t))
<1>1. reply.members \in Seq(Members)
  BY DEF IsReply
<1>2. /\ M \in Seq(S) /\ Len(M) = C + 3
      /\ M[1] = Mark("scrap") /\ M[2] = Mark("open") /\ M[C] = Mark("close")
  BY <1>1, MeantIs
<1>3. C \in Nat /\ C >= 3
  BY <1>1, PartsAre
<1>4. /\ t \in Seq(S) /\ u \in 0..Len(M) /\ u <= Len(t)
      /\ \A p \in 1..u : t[p] = M[p]
      /\ Len(t) = u \/ (u + 1 <= Len(t) /\ t[u + 1] = Mark("scrap"))
  BY <1>2, TextIs, MarksAreTokens
<1>5. /\ \A p \in 2..(C - 1) : M[p].t \in Inside /\ M[p + 1].t \in Follows[M[p].t]
      /\ M[C - 1].t \in {"open", "value", "more"}
  BY <1>1, MeantChain
<1>6. u >= 2 /\ k = IF u >= C THEN C - 2 ELSE u - 1
  BY DEF Upto
<1> HIDE DEF t, M, u, C, k, S
<1>7. u \in Nat /\ Len(t) \in Nat /\ Len(t) >= 2 /\ k \in Nat /\ k >= 1 /\ k + 1 <= u /\ k + 2 <= C
  <2>1. u \in Nat /\ Len(t) \in Nat
    BY <1>2, <1>3, <1>4
  <2> QED
    BY <1>3, <1>4, <1>6, <2>1
<1>8. s \in Seq(S) /\ Len(s) = Len(t) - 1 /\ \A i \in 1..(Len(t) - 1) : s[i] = t[i + 1]
  BY <1>4, <1>7
<1> HIDE DEF s
<1>9. ASSUME NEW i \in 1..k
      PROVE  s[i] = M[i + 1] /\ i + 1 \in 2..(C - 1)
  <2>1. i \in 1..(Len(t) - 1) /\ i + 1 \in 1..u /\ i + 1 \in 2..(C - 1)
    BY <1>3, <1>4, <1>7
  <2> QED
    BY <1>4, <1>8, <2>1
<1>10. Chain(s, k)
  <2>1. k \in 1..Len(s)
    BY <1>4, <1>7, <1>8
  <2>2. s[1].t = "open"
    <3>1. 1 \in 1..k
      BY <1>7
    <3>2. s[1] = M[1 + 1]
      BY <1>9, <3>1
    <3> QED
      BY <1>2, <3>2, MarkIs
  <2>3. \A i \in 1..k : s[i].t \in Inside
    BY <1>5, <1>9
  <2>4. ASSUME NEW i \in 1..(k - 1) PROVE s[i + 1].t \in Follows[s[i].t]
    <3>1. i \in 1..k /\ i + 1 \in 1..k
      BY <1>7
    <3>2. s[i] = M[i + 1] /\ s[i + 1] = M[(i + 1) + 1] /\ i + 1 \in 2..(C - 1)
      BY <1>9, <3>1
    <3> QED
      BY <1>5, <3>2
  <2> QED
    BY <2>1, <2>2, <2>3, <2>4 DEF Chain
<1>11. Stops(s, k)
  <2>1. CASE u >= C
    <3>1. k = C - 2 /\ k \in 1..k /\ k + 1 \in 1..(Len(t) - 1) /\ C \in 1..u
      BY <1>3, <1>4, <1>6, <1>7, <2>1
    <3>2. s[k + 1] = t[(k + 1) + 1] /\ (k + 1) + 1 = C
      BY <1>3, <1>8, <3>1
    <3>3. s[k + 1].t = "close" /\ k + 1 <= Len(s)
      BY <1>2, <1>4, <1>8, <3>1, <3>2, MarkIs
    <3>4. s[k] = M[k + 1] /\ k + 1 = C - 1
      BY <1>3, <1>9, <3>1
    <3> QED
      BY <1>5, <3>3, <3>4 DEF Stops
  <2>2. CASE ~(u >= C)
    <3>1. k = u - 1
      BY <1>6, <2>2
    <3>2. CASE Len(t) = u
      <4>1. k = Len(s)
        BY <1>8, <3>1, <3>2
      <4> QED
        BY <4>1 DEF Stops
    <3>3. CASE u + 1 <= Len(t) /\ t[u + 1] = Mark("scrap")
      <4>1. k + 1 \in 1..(Len(t) - 1) /\ (k + 1) + 1 = u + 1
        BY <1>7, <3>1, <3>3
      <4>2. s[k + 1] = t[u + 1] /\ k + 1 <= Len(s)
        BY <1>8, <4>1
      <4>3. s[k + 1].t = "scrap"
        BY <3>3, <4>2, MarkIs
      <4> QED
        BY <4>2, <4>3 DEF Stops
    <3> QED
      BY <1>4, <3>2, <3>3
  <2> QED
    BY <2>1, <2>2
<1>12. _premier_objet_json(t) = FieldsOf(s, k)
  <2>1. 2 \in 1..Len(t) /\ 2 \in 1..u /\ 1 \in 1..u
    BY <1>7
  <2>2. t[2].t = "open" /\ t[1].t = "scrap"
    BY <1>2, <1>4, <2>1, MarkIs
  <2>3. \A p \in 1..(2 - 1) : t[p].t # "open"
    <3>1. \A p \in 1..(2 - 1) : p = 1
      OBVIOUS
    <3> QED
      BY <2>2, <3>1
  <2> QED
    BY <1>4, <1>10, <1>11, <2>1, <2>2, <2>3, ReadFromBrace DEF s
<1> QED
  BY <1>7, <1>9, <1>12 DEF t, M, u, C, k, s

LEMMA PlainPlace ==
    ASSUME NEW reply, reply.prose = "plain", NEW i \in Nat, i > 0
    PROVE  Place(reply, i) = Spot(reply, i)
<1>1. Len(Prose(reply)) = 1
  BY DEF Prose
<1> QED
  BY <1>1 DEF Place, Spot

(* Which members were read, and how far.                                    *)
LEMMA ReceivedIs ==
    ASSUME NEW reply, IsReply(reply), reply.prose = "plain", Got(reply) >= 2,
           NEW i \in 1..Len(reply.members)
    PROVE  /\ i \in Received(reply) <=> Spot(reply, i) <= Upto(reply) + 1
           /\ Due(reply, i) = IF Spot(reply, i) + Longer(reply, i) <= Upto(reply) + 1
                              THEN reply.members[i].written ELSE reply.members[i].cut
<1> DEFINE P == Spot(reply, i)
           L == Longer(reply, i)
           C == Closing(reply)
           u == Got(reply)
           k == Upto(reply)
           o == reply.upto
<1>1. reply.members \in Seq(Members)
  BY DEF IsReply
<1>2. C \in Nat /\ C >= 3
  BY <1>1, PartsAre
<1>3. P \in Nat /\ L \in {0, 1} /\ P + L + 1 <= C
  BY <1>1, MeantMembers
<1>4. o \in 0..Len(Meant(reply)) /\ Len(Meant(reply)) = C + 3
  BY <1>1, MeantIs DEF IsReply
<1>5. (reply.end = "whole" => u = C + 3) /\ (reply.end # "whole" => u = o)
  BY <1>4 DEF Got
<1>6. u >= 2 /\ k = IF u >= C THEN C - 2 ELSE u - 1
  BY DEF Upto
<1>p. Place(reply, i) = P /\ i \in DOMAIN reply.members
  BY <1>1, PlainPlace
<1>7. i \in Received(reply) <=> (reply.end = "whole" \/ P <= o)
  BY <1>p DEF Received
<1>8. Due(reply, i) = IF reply.end = "whole" \/ P < o
                      THEN reply.members[i].written ELSE reply.members[i].cut
  BY <1>p DEF Due
<1>9. L = 0 => reply.members[i].written = reply.members[i].cut
  BY DEF Longer
<1> DEFINE w == reply.members[i].written
           c == reply.members[i].cut
           whole == reply.end = "whole"
<1> HIDE DEF P, L, C, u, k, o, w, c, whole
<1>10. o \in Int /\ u \in Int
  <2>1. o \in Int
    BY <1>2, <1>4
  <2>2. CASE whole
    <3>1. u = C + 3
      BY <1>5, <2>2 DEF whole
    <3> QED
      BY <1>2, <2>1, <3>1
  <2>3. CASE ~whole
    BY <1>5, <2>1, <2>3 DEF whole
  <2> QED
    BY <2>1, <2>2, <2>3
<1>11. (whole \/ P <= o) <=> P <= k + 1
  <2>1. CASE whole
    <3>1. u = C + 3
      BY <1>5, <2>1 DEF whole
    <3>2. P <= k + 1
      BY <1>2, <1>3, <1>6, <3>1
    <3> QED
      BY <2>1, <3>2
  <2>2. CASE ~whole
    <3>1. u = o
      BY <1>5, <2>2 DEF whole
    <3>2. P <= o <=> P <= k + 1
      BY <1>2, <1>3, <1>6, <1>10, <3>1
    <3> QED
      BY <2>2, <3>2
  <2> QED
    BY <2>1, <2>2
<1>12. L = 1 => ((whole \/ P < o) <=> P + L <= k + 1)
  <2> SUFFICES ASSUME L = 1 PROVE (whole \/ P < o) <=> P + 1 <= k + 1
    OBVIOUS
  <2>1. CASE whole
    <3>1. u = C + 3
      BY <1>5, <2>1 DEF whole
    <3>2. P + 1 <= k + 1
      BY <1>2, <1>3, <1>6, <3>1
    <3> QED
      BY <2>1, <3>2
  <2>2. CASE ~whole
    <3>1. u = o
      BY <1>5, <2>2 DEF whole
    <3>2. P < o <=> P + 1 <= k + 1
      BY <1>2, <1>3, <1>6, <1>10, <3>1
    <3> QED
      BY <2>2, <3>2
  <2> QED
    BY <2>1, <2>2
<1>13. Due(reply, i) = IF P + L <= k + 1 THEN w ELSE c
  <2>1. Due(reply, i) = IF whole \/ P < o THEN w ELSE c
    BY <1>8 DEF whole, w, c
  <2>2. CASE L = 0
    <3>1. w = c
      BY <1>9, <2>2 DEF w, c
    <3> QED
      BY <2>1, <3>1
  <2>3. CASE L = 1
    BY <1>12, <2>1, <2>3
  <2> QED
    BY <1>3, <2>2, <2>3
<1>14. i \in Received(reply) <=> P <= k + 1
  BY <1>7, <1>11 DEF whole
<1> QED
  BY <1>13, <1>14 DEF P, L, k, w, c

LEMMA FieldsAreDue ==
    ASSUME NEW reply, IsReply(reply), reply.prose = "plain", Got(reply) >= 2,
           NEW s, \A i \in 1..Upto(reply) : /\ s[i] = Meant(reply)[i + 1]
                                            /\ i + 1 \in 2..(Closing(reply) - 1),
           Upto(reply) \in Nat
    PROVE  FieldsOf(s, Upto(reply)) = FieldsDue(reply)
<1> DEFINE M == Meant(reply)
           k == Upto(reply)
           n == Len(reply.members)
           R == Received(reply)
           C == Closing(reply)
           K == KeysOf(s, k)
           Name(i) == reply.members[i].key
           Pos(i) == Spot(reply, i) - 2
           At(x) == {p \in K : s[p].key = x}
           last(x) == CHOOSE p \in At(x) : \A q \in At(x) : q <= p
           Said(x) == {i \in R : Name(i) = x}
           said(x) == CHOOSE i \in R : /\ Name(i) = x
                                       /\ \A j \in R : Name(j) = x => j <= i
           Read(p) == IF p + 2 <= k /\ s[p + 2].t = "more" THEN s[p + 2].value
                                                          ELSE s[p + 1].value
<1>1. reply.members \in Seq(Members)
  BY DEF IsReply
<1>2. n \in Nat /\ R \subseteq 1..n /\ C \in Nat /\ k \in Nat
  BY <1>1, PartsAre DEF Received
<1>3. ASSUME NEW i \in 1..n
      PROVE  /\ Spot(reply, i) \in Nat /\ Spot(reply, i) >= 4
             /\ Longer(reply, i) \in {0, 1}
             /\ After(reply, i) = Spot(reply, i) + Longer(reply, i) + 1
             /\ M[Spot(reply, i) - 1] = KeyOf(reply, i)
             /\ M[Spot(reply, i)] = ValueOf(reply, i)
             /\ Longer(reply, i) = 1 => M[Spot(reply, i) + 1] = MoreOf(reply, i)
             /\ M[After(reply, i)].t \in {"close", "comma"}
  BY <1>1, MeantMembers
<1>4. \A p \in 2..(C - 1) : M[p].t = "key" => \E i \in 1..n : p = Spot(reply, i) - 1
  BY <1>1, MeantChain
<1>5. \A p \in 1..k : s[p] = M[p + 1] /\ p + 1 \in 2..(C - 1)
  OBVIOUS
<1>6. \A i \in 1..n : i \in R <=> Spot(reply, i) <= k + 1
  BY ReceivedIs
<1>7. \A i \in 1..n : Due(reply, i) = IF Spot(reply, i) + Longer(reply, i) <= k + 1
                                      THEN reply.members[i].written ELSE reply.members[i].cut
  BY ReceivedIs
<1>8. FieldsOf(s, k) = [x \in {s[p].key : p \in K} |-> Read(last(x))]
  BY DEF FieldsOf
<1>9. FieldsDue(reply) = [x \in {Name(i) : i \in R} |-> Due(reply, said(x))]
  BY DEF FieldsDue
<1> HIDE DEF M, k, n, R, C
<1>10. ASSUME NEW i \in R
       PROVE  /\ i \in 1..n /\ Pos(i) \in K /\ Pos(i) \in Nat /\ Pos(i) + 1 \in 1..k
              /\ s[Pos(i)] = KeyOf(reply, i) /\ s[Pos(i) + 1] = ValueOf(reply, i)
  <2> DEFINE P == Spot(reply, i)
  <2>1. i \in 1..n /\ P \in Nat /\ P >= 4 /\ P <= k + 1
    BY <1>2, <1>3, <1>6
  <2>2. M[P - 1] = KeyOf(reply, i) /\ M[P] = ValueOf(reply, i)
    BY <1>3, <2>1
  <2> HIDE DEF P
  <2>3. /\ P - 2 \in 1..(k - 1) /\ P - 2 \in 1..k /\ P - 1 \in 1..k
        /\ (P - 2) + 1 = P - 1 /\ (P - 1) + 1 = P /\ P - 2 \in Nat
    BY <1>2, <2>1
  <2>4. s[P - 2] = KeyOf(reply, i)
    BY <1>5, <2>2, <2>3
  <2>5. s[P - 1] = ValueOf(reply, i)
    BY <1>5, <2>2, <2>3
  <2>6. P - 2 \in K
    BY <2>3, <2>4, TokenIs DEF KeysOf
  <2> QED
    BY <2>1, <2>3, <2>4, <2>5, <2>6 DEF P
<1>11. \A p \in K : \E i \in R : p = Pos(i)
  <2> SUFFICES ASSUME NEW p \in K PROVE \E i \in R : p = Pos(i)
    OBVIOUS
  <2>1. p \in 1..(k - 1) /\ s[p].t = "key"
    BY DEF KeysOf
  <2>2. p \in 1..k /\ p + 1 <= k
    BY <1>2, <2>1
  <2>3. s[p] = M[p + 1] /\ p + 1 \in 2..(C - 1)
    BY <1>5, <2>2
  <2>4. PICK i \in 1..n : p + 1 = Spot(reply, i) - 1
    BY <1>4, <2>1, <2>3
  <2>5. Spot(reply, i) \in Nat
    BY <1>3
  <2>6. p = Spot(reply, i) - 2 /\ Spot(reply, i) <= k + 1
    BY <1>2, <2>2, <2>4, <2>5
  <2>7. i \in R
    BY <1>6, <2>6
  <2> QED
    BY <2>6, <2>7
<1>12. \A i \in R : s[Pos(i)].key = Name(i)
  BY <1>10, TokenIs
<1>13. \A i, j \in R : Pos(j) <= Pos(i) <=> j <= i
  <2> SUFFICES ASSUME NEW i \in R, NEW j \in R PROVE Pos(j) <= Pos(i) <=> j <= i
    OBVIOUS
  <2>1. i \in Nat /\ i > 0 /\ j \in Nat /\ j > 0
    BY <1>2
  <2>2. /\ Spot(reply, i) \in Nat /\ Spot(reply, j) \in Nat
        /\ After(reply, i) > Spot(reply, i) /\ After(reply, j) > Spot(reply, j)
        /\ After(reply, i) \in Int /\ After(reply, j) \in Int
    BY <1>2, <1>3
  <2>3. i < j => After(reply, i) + 2 <= Spot(reply, j)
    BY <2>1, Places
  <2>4. j < i => After(reply, j) + 2 <= Spot(reply, i)
    BY <2>1, Places
  <2>5. CASE i < j
    BY <2>1, <2>2, <2>3, <2>5
  <2>6. CASE j < i
    BY <2>1, <2>2, <2>4, <2>6
  <2>7. CASE i = j
    BY <2>1, <2>2, <2>7
  <2> QED
    BY <2>1, <2>5, <2>6, <2>7
<1>14. ASSUME NEW i \in R PROVE Read(Pos(i)) = Due(reply, i)
  <2> DEFINE P == Spot(reply, i)
             L == Longer(reply, i)
             w == reply.members[i].written
             c == reply.members[i].cut
  <2>1. /\ i \in 1..n /\ P \in Nat /\ P >= 4 /\ L \in {0, 1}
        /\ (L = 1 => M[P + 1] = MoreOf(reply, i)) /\ M[P + L + 1].t \in {"close", "comma"}
    BY <1>2, <1>3
  <2>2. Due(reply, i) = IF P + L <= k + 1 THEN w ELSE c
    BY <1>7, <2>1
  <2>3. s[P - 2 + 1].value = c
    BY <1>10, TokenIs
  <2>4. MoreOf(reply, i).t = "more" /\ MoreOf(reply, i).value = w
    BY TokenIs
  <2>5. L = 0 => c = w
    BY DEF Longer
  <2>6. P - 2 + 2 = P
    BY <2>1
  <2>7. P <= k => s[P] = M[P + 1]
    <3> HIDE DEF P
    <3>1. P <= k => P \in 1..k
      BY <1>2, <2>1
    <3> QED
      BY <1>5, <3>1
  <2>8. Read(Pos(i)) = IF P <= k /\ s[P].t = "more" THEN s[P].value ELSE c
    BY <2>3, <2>6
  <2>9. P <= k + 1
    BY <1>6, <2>1
  <2> HIDE DEF P, L, w, c, Read, Pos
  <2>10. CASE L = 0
    <3>1. P <= k => s[P].t # "more"
      <4>1. P + L + 1 = P + 1
        BY <2>1, <2>10
      <4> QED
        BY <2>1, <2>7, <4>1
    <3>2. Read(Pos(i)) = c
      BY <2>8, <3>1
    <3> QED
      BY <2>2, <2>5, <2>10, <3>2
  <2>11. CASE L = 1
    <3>1. CASE P <= k
      <4>1. s[P].t = "more" /\ s[P].value = w
        BY <2>1, <2>4, <2>7, <2>11, <3>1
      <4>2. P + L <= k + 1
        BY <1>2, <2>1, <2>11, <3>1
      <4> QED
        BY <2>2, <2>8, <3>1, <4>1, <4>2
    <3>2. CASE ~(P <= k)
      <4>1. ~(P + L <= k + 1)
        BY <1>2, <2>1, <2>11, <3>2
      <4> QED
        BY <2>2, <2>8, <3>2, <4>1
    <3> QED
      BY <3>1, <3>2
  <2> QED
    BY <2>1, <2>10, <2>11
<1>15. {s[p].key : p \in K} = {Name(i) : i \in R}
  <2> HIDE DEF K, Pos, Name
  <2> QED
    BY <1>10, <1>11, <1>12
<1>16. ASSUME NEW x \in {Name(i) : i \in R}
       PROVE  said(x) \in R /\ last(x) = Pos(said(x))
  <2>1. PICK i0 \in R : Name(i0) = x
    OBVIOUS
  <2>2. Said(x) \subseteq 1..n /\ Said(x) # {}
    BY <1>2, <2>1
  <2>3. PICK m \in Said(x) : \A j \in Said(x) : j <= m
    <3> HIDE DEF Said
    <3> QED
      BY <1>2, <2>2, LastExists
  <2>4. /\ m \in R /\ Name(m) = x
        /\ \A j \in R : Name(j) = x => j <= m
    BY <2>3
  <2> DEFINE c == said(x)
  <2>5. c \in R /\ Name(c) = x /\ \A j \in R : Name(j) = x => j <= c
    <3> HIDE DEF Name
    <3> QED
      BY <2>4
  <2> HIDE DEF said, c, Name, Pos, K
  <2>6. Pos(c) \in At(x)
    BY <1>10, <1>12, <2>5
  <2>7. ASSUME NEW q \in At(x) PROVE q <= Pos(c)
    <3>1. PICK j \in R : q = Pos(j)
      BY <1>11
    <3>2. Name(j) = x
      BY <1>12, <3>1
    <3>3. j <= c
      BY <2>5, <3>2
    <3> QED
      BY <1>13, <2>5, <3>1, <3>3
  <2>8. \A q \in At(x) : q \in Nat
    BY <1>10, <1>11
  <2> DEFINE l == last(x)
  <2>9. l \in At(x) /\ \A q \in At(x) : q <= l
    <3> HIDE DEF At
    <3> QED
      BY <2>6, <2>7
  <2> HIDE DEF At, last, l
  <2>10. l = Pos(c)
    <3>1. l <= Pos(c) /\ Pos(c) <= l /\ l \in Nat /\ Pos(c) \in Nat
      BY <2>6, <2>7, <2>8, <2>9
    <3> QED
      BY <3>1
  <2> QED
    BY <2>5, <2>10 DEF l, c
<1> HIDE DEF K, Name, Pos, At, last, Said, said, Read
<1>17. \A x \in {Name(i) : i \in R} : Read(last(x)) = Due(reply, said(x))
  BY <1>14, <1>16
<1> QED
  BY <1>8, <1>9, <1>15, <1>17 DEF k

(* What the code reads of a reply without a brace in its prose is what was  *)
(* received of it.                                                          *)
LEMMA ReadingIsDue ==
    ASSUME NEW reply, IsReply(reply), reply.prose # "brace"
    PROVE  _premier_objet_json(Text(reply)) = FieldsDue(reply)
<1>1. reply.prose \in {"plain", "brace"} /\ reply.members \in Seq(Members)
  BY DEF IsReply
<1>3. CASE reply.prose = "plain" /\ Got(reply) >= 2
  <2>1. /\ _premier_objet_json(Text(reply)) =
              FieldsOf(SubSeq(Text(reply), 2, Len(Text(reply))), Upto(reply))
        /\ Upto(reply) \in Nat
        /\ \A i \in 1..Upto(reply) :
              /\ SubSeq(Text(reply), 2, Len(Text(reply)))[i] = Meant(reply)[i + 1]
              /\ i + 1 \in 2..(Closing(reply) - 1)
    BY <1>3, PlainReading
  <2> QED
    BY <1>3, <2>1, FieldsAreDue
<1>4. CASE reply.prose = "plain" /\ ~(Got(reply) >= 2)
  <2> DEFINE t == Text(reply)
             M == Meant(reply)
             u == Got(reply)
             S == TokenSet(reply)
  <2>1. M \in Seq(S) /\ M[1] = Mark("scrap") /\ Len(M) = Closing(reply) + 3
    BY <1>1, <1>4, MeantIs
  <2>2. /\ u \in 0..Len(M) /\ \A p \in 1..u : t[p] = M[p]
        /\ u < 2 => \A p \in 1..Len(t) : p <= u \/ t[p] = Mark("scrap")
        /\ t \in Seq(S)
    BY <2>1, TextIs, MarksAreTokens
  <2>3. Closing(reply) \in Nat
    BY <1>1, PartsAre
  <2>4. \A i \in 1..Len(reply.members) : Spot(reply, i) \in Nat /\ Spot(reply, i) >= 4
    BY <1>1, <1>4, MeantMembers
  <2>5. Received(reply) = {}
    <3> SUFFICES ASSUME NEW i \in Received(reply) PROVE FALSE
      OBVIOUS
    <3>1. i \in 1..Len(reply.members) /\ (reply.end = "whole" \/ Spot(reply, i) <= reply.upto)
      <4>1. i \in 1..Len(reply.members)
        BY <1>1 DEF Received
      <4>2. Place(reply, i) = Spot(reply, i)
        BY <1>1, <1>4, <4>1, PlainPlace
      <4> QED
        BY <4>1, <4>2 DEF Received
    <3>2. CASE reply.end = "whole"
      BY <1>4, <2>1, <2>3, <3>2 DEF Got
    <3>3. CASE reply.end # "whole"
      <4>1. u = reply.upto
        BY <3>3 DEF Got
      <4> QED
        BY <1>4, <2>2, <2>4, <3>1, <3>3, <4>1
    <3> QED
      BY <3>2, <3>3
  <2> HIDE DEF t, M, u, S
  <2>6. u < 2 /\ u \in Nat /\ (u = 0 \/ u = 1)
    BY <1>4, <2>1, <2>2, <2>3 DEF u
  <2>7. \A p \in 1..Len(t) : t[p] = Mark("scrap")
    <3> SUFFICES ASSUME NEW p \in 1..Len(t) PROVE t[p] = Mark("scrap")
      OBVIOUS
    <3>1. CASE p <= u
      <4>1. p = 1 /\ p \in 1..u
        BY <2>6, <3>1
      <4> QED
        BY <2>1, <2>2, <4>1
    <3>2. CASE ~(p <= u)
      BY <2>2, <2>6, <3>2
    <3> QED
      BY <3>1, <3>2
  <2>8. \A p \in DOMAIN t : t[p].t # "open"
    <3>1. DOMAIN t = 1..Len(t)
      BY <2>2
    <3> QED
      BY <2>7, <3>1, MarkIs
  <2> QED
    BY <2>5, <2>8, NothingRead, NothingDue DEF t
<1> QED
  BY <1>1, <1>3, <1>4

(* Nothing is invented: every field read is one the judge wrote.            *)
Written(reply, fields) ==
    \A k \in DOMAIN fields :
       \E m \in DOMAIN reply.members :
          /\ reply.members[m].key = k
          /\ fields[k] \in {reply.members[m].written, reply.members[m].cut}

LEMMA ReadingIsWritten ==
    ASSUME NEW reply, IsReply(reply)
    PROVE  Written(reply, _premier_objet_json(Text(reply)))
<1> DEFINE R == Received(reply)
           Name(i) == reply.members[i].key
           said(k) == CHOOSE i \in R : /\ Name(i) = k
                                       /\ \A j \in R : Name(j) = k => j <= i
           F == FieldsDue(reply)
<1>1. F = [k \in {Name(i) : i \in R} |-> Due(reply, said(k))]
  BY DEF FieldsDue
<1>2. R \subseteq DOMAIN reply.members
  BY DEF Received
<1>3. DOMAIN reply.members = 1..Len(reply.members) /\ Len(reply.members) \in Nat
  BY DEF IsReply
<1>4. ASSUME NEW k \in DOMAIN F
      PROVE  \E m \in DOMAIN reply.members :
                /\ Name(m) = k
                /\ F[k] \in {reply.members[m].written, reply.members[m].cut}
  <2>1. k \in {Name(i) : i \in R} /\ F[k] = Due(reply, said(k))
    BY <1>1
  <2> DEFINE Said == {i \in R : Name(i) = k}
  <2>2. Said \subseteq 1..Len(reply.members) /\ Said # {}
    BY <1>2, <1>3, <2>1
  <2>3. PICK m \in Said : \A j \in Said : j <= m
    <3> HIDE DEF Said
    <3> QED
      BY <1>3, <2>2, LastExists
  <2>4. m \in R /\ Name(m) = k /\ \A j \in R : Name(j) = k => j <= m
    BY <2>3
  <2>5. said(k) \in R /\ Name(said(k)) = k
    <3> HIDE DEF Name
    <3> QED
      BY <2>4
  <2>6. Due(reply, said(k)) \in {reply.members[said(k)].written, reply.members[said(k)].cut}
    BY DEF Due
  <2> HIDE DEF said, F
  <2> QED
    BY <1>2, <2>1, <2>5, <2>6
<1>5. Written(reply, F)
  <2> HIDE DEF F
  <2> QED
    BY <1>4 DEF Written
<1>6. CASE reply.prose = "brace"
  BY <1>6, BraceReading DEF Written, NoFields
<1> QED
  BY <1>5, <1>6, ReadingIsDue

-------------------------------------------------------------------------------
(***************************************************************************)
(* One check, and the branch that maps it over the claims.                  *)
(***************************************************************************)
LEMMA CheckShapes ==
    ASSUME NEW cs \in ClaimLists, files \in Loadable, NEW check \in Checks(cs)
    PROVE  \/ check.kind = "error"
           \/ check.kind = "failed" /\ check.found \in Found(cs, files)
           \/ /\ check.kind = "replied" /\ check.found \in Found(cs, files)
              /\ IsReply(check.reply)
<1>1. \/ check = [kind |-> "error"]
      \/ check \in [kind : {"failed"}, found : Found(cs, files)]
      \/ check \in [kind : {"replied"}, found : Found(cs, files), reply : Replies(cs, files)]
  BY DEF Checks
<1>2. CASE check = [kind |-> "error"]
  BY <1>2
<1>3. CASE check \in [kind : {"failed"}, found : Found(cs, files)]
  BY <1>3
<1>4. CASE check \in [kind : {"replied"}, found : Found(cs, files), reply : Replies(cs, files)]
  <2>1. check.kind = "replied" /\ check.found \in Found(cs, files)
        /\ check.reply \in Replies(cs, files)
    BY <1>4
  <2> QED
    BY <2>1, ReplyAssumption
<1> QED
  BY <1>1, <1>2, <1>3, <1>4

LEMMA FieldsAreValues ==
    ASSUME NEW reply, IsReply(reply), NEW key, NEW default, default.num \in Int
    PROVE  FieldOf(_premier_objet_json(Text(reply)), key, default).num \in Int
<1> DEFINE fields == _premier_objet_json(Text(reply))
<1>1. Written(reply, fields)
  BY ReadingIsWritten
<1> HIDE DEF fields
<1>2. CASE key \in DOMAIN fields
  <2>1. PICK m \in DOMAIN reply.members :
           fields[key] \in {reply.members[m].written, reply.members[m].cut}
    BY <1>1, <1>2 DEF Written
  <2>2. reply.members[m] \in Members
    BY DEF IsReply
  <2>3. reply.members[m].written.num \in Int /\ reply.members[m].cut.num \in Int
    BY <2>2 DEF Members, Values
  <2>4. FieldOf(fields, key, default) = fields[key]
    BY <1>2 DEF FieldOf
  <2> QED
    BY <2>1, <2>3, <2>4 DEF fields
<1>3. CASE key \notin DOMAIN fields
  BY <1>3 DEF FieldOf, fields
<1> QED
  BY <1>2, <1>3

LEMMA DetailIsNumber ==
    ASSUME NEW cs \in ClaimLists, files \in Loadable, NEW check \in Checks(cs),
           check.kind # "error", ~Panne(check)
    PROVE  verify_claim_detail(check).confidence \in Int
<1>1. CASE Evidences(check) = <<>>
  <2>1. verify_claim_detail(check) = DontKnow
    BY <1>1 DEF verify_claim_detail
  <2> QED
    BY <2>1 DEF DontKnow
<1>2. CASE Evidences(check) # <<>>
  <2> DEFINE c == FieldOf(Reading(check), "confidence", Num(0)).num
  <2>1. check.kind = "replied" /\ IsReply(check.reply)
    BY <1>2, CheckShapes DEF Panne
  <2>2. Num(0).num \in Int
    BY DEF Num, Value
  <2>3. c \in Int
    BY <2>1, <2>2, FieldsAreValues DEF Reading
  <2>4. verify_claim_detail(check) = Judged(Reading(check), Evidences(check))
    BY <1>2 DEF verify_claim_detail
  <2>5. \/ Judged(Reading(check), Evidences(check)) = DontKnow
        \/ Judged(Reading(check), Evidences(check)).confidence = c
    BY DEF Judged
  <2> HIDE DEF c
  <2> QED
    BY <2>3, <2>4, <2>5 DEF DontKnow
<1> QED
  BY <1>1, <1>2

(* The exception that ends the map, if any, is the one of the first claim.  *)
LEMMA BranchOutcome ==
    ASSUME NEW cs \in ClaimLists, NEW checks
    PROVE  LET o == verify_claims(cs, checks)
           IN  /\ o.state \in {"ended", "raised"} /\ o.panne \in BOOLEAN
               /\ o.panne => \E i \in DOMAIN cs : Panne(checks[i])
               /\ o.panne => o.verdicts = <<>>
               /\ (o.state = "ended" /\ ~o.panne) =>
                     /\ \A i \in DOMAIN cs : checks[i].kind # "error" /\ ~Panne(checks[i])
                     /\ o.verdicts = [i \in DOMAIN cs |->
                                         Scored(cs[i].id, verify_claim_detail(checks[i]))]
<1> DEFINE Failing == {i \in DOMAIN cs : checks[i].kind = "error" \/ Panne(checks[i])}
           first   == CHOOSE i \in Failing : \A j \in Failing : i <= j
           o == verify_claims(cs, checks)
<1>1. CASE Failing = {}
  <2>1. o = [state |-> "ended", panne |-> FALSE,
             verdicts |-> [i \in DOMAIN cs |->
                              Scored(cs[i].id, verify_claim_detail(checks[i]))]]
    BY <1>1 DEF verify_claims
  <2>2. \A i \in DOMAIN cs : checks[i].kind # "error" /\ ~Panne(checks[i])
    BY <1>1
  <2> QED
    BY <2>1, <2>2
<1>2. CASE Failing # {}
  <2>1. o = [state |-> IF checks[first].kind = "error" THEN "raised" ELSE "ended",
             panne |-> checks[first].kind # "error", verdicts |-> <<>>]
    BY <1>2 DEF verify_claims
  <2>2. first \in Failing
    <3>1. Failing \subseteq Nat
      BY ListOfClaims
    <3> HIDE DEF Failing
    <3>2. \E i \in Failing : \A j \in Failing : i <= j
      BY <3>1, <1>2, FirstExists
    <3> QED
      BY <3>2
  <2> HIDE DEF first
  <2>3. first \in DOMAIN cs /\ (checks[first].kind = "error" \/ Panne(checks[first]))
    BY <2>2
  <2> HIDE DEF o
  <2>4. CASE checks[first].kind = "error"
    <3>1. o.state = "raised" /\ o.panne = FALSE
      BY <2>1, <2>4
    <3> QED
      BY <3>1 DEF o
  <2>5. CASE checks[first].kind # "error"
    <3>1. o.state = "ended" /\ o.panne = TRUE /\ o.verdicts = <<>>
      BY <2>1, <2>5
    <3> QED
      BY <3>1, <2>3, <2>5 DEF o
  <2> QED
    BY <2>4, <2>5
<1> QED
  BY <1>1, <1>2

(* An id that one claim has brings back the value of this claim.            *)
LEMMA GetOwn ==
    ASSUME NEW cs \in ClaimLists, DistinctIds(cs), NEW w, NEW i \in DOMAIN cs, NEW default
    PROVE  Get([j \in DOMAIN cs |-> Scored(cs[j].id, w[j])], cs[i].id, default) = w[i]
<1> DEFINE scores == [j \in DOMAIN cs |-> Scored(cs[j].id, w[j])]
           Same == {j \in DOMAIN scores : scores[j].id = cs[i].id}
<1>1. \A j \in DOMAIN cs : scores[j].id = cs[j].id /\ scores[j].value = w[j]
  BY DEF Scored
<1>2. Same = {i}
  BY <1>1 DEF DistinctIds
<1>3. Get(scores, cs[i].id, default)
        = IF Same = {} THEN default
          ELSE scores[CHOOSE k \in Same : \A j \in Same : j <= k].value
  BY DEF Get
<1> HIDE DEF scores, Same
<1>4. (CHOOSE k \in {i} : \A j \in {i} : j <= k) = i
  <2>1. i \in Nat
    BY ListOfClaims
  <2> QED
    BY <2>1
<1> QED
  BY <1>1, <1>2, <1>3, <1>4 DEF scores

LEMMA GetNothing ==
    ASSUME NEW id, NEW default
    PROVE  Get(<<>>, id, default) = default
  BY DEF Get

-------------------------------------------------------------------------------
(***************************************************************************)
(* The inductive invariant.                                                 *)
(***************************************************************************)
IInv == TypeOK /\ ClaimInv /\ RagInv /\ SelfcheckInv /\ ControlInv

LEMMA InitHolds == Init => IInv
<1> SUFFICES ASSUME Init PROVE IInv
  OBVIOUS
<1> USE DEF Init
<1>1. TypeOK
  <2>1. Len(fused) = 0 /\ 0 \in 0..MaxElements
    BY BoundAssumption
  <2> QED
    BY <2>1 DEF TypeOK, Steps, NoAnswer, NoResult
<1>2. ClaimInv
  BY NoClaims DEF ClaimInv
<1>3. RagInv
  BY DEF RagInv
<1>4. SelfcheckInv
  BY DEF SelfcheckInv
<1>5. ControlInv
  BY DEF ControlInv
<1> QED
  BY <1>1, <1>2, <1>3, <1>4, <1>5 DEF IInv

(* The part of the invariant that says what a step leaves alone.            *)
LEMMA ClaimsKept ==
    ASSUME ClaimInv, UNCHANGED claims PROVE ClaimInv'
  BY DEF ClaimInv

LEMMA SameFiles ==
    ASSUME UNCHANGED files
    PROVE  \A cs, checks : verify_claims(cs, checks)' = verify_claims(cs, checks)
<1>1. \A check : Evidences(check)' = Evidences(check)
  BY DEF Evidences
<1>2. \A check : Heard(check)' = Heard(check)
  BY <1>1 DEF Heard
<1>3. \A check : Panne(check)' = Panne(check)
  BY <1>1, <1>2 DEF Panne
<1>4. \A check : verify_claim_detail(check)' = verify_claim_detail(check)
  BY <1>1 DEF verify_claim_detail
<1> QED
  <2> TAKE cs, checks
  <2> DEFINE Failing == {i \in DOMAIN cs : checks[i].kind = "error" \/ Panne(checks[i])}
             verdicts == [i \in DOMAIN cs |-> Scored(cs[i].id, verify_claim_detail(checks[i]))]
             Ended(F, v) == LET first == CHOOSE i \in F : \A j \in F : i <= j
                 IN IF F = {} THEN [state |-> "ended", panne |-> FALSE, verdicts |-> v]
                    ELSE [state |-> IF checks[first].kind = "error" THEN "raised" ELSE "ended",
                          panne |-> checks[first].kind # "error",
                          verdicts |-> <<>>]
  <2>1. Failing' = Failing
    BY <1>3
  <2>2. verdicts' = verdicts
    BY <1>4
  <2>3. verify_claims(cs, checks) = Ended(Failing, verdicts)
    BY DEF verify_claims
  <2>4. verify_claims(cs, checks)' = Ended(Failing', verdicts')
    BY DEF verify_claims
  <2> HIDE DEF Ended, Failing, verdicts
  <2> QED
    BY <2>1, <2>2, <2>3, <2>4

LEMMA RagKept ==
    ASSUME RagInv, UNCHANGED <<files, claims, rag>> PROVE RagInv'
<1>1. Checks(claims)' = Checks(claims)
  BY DEF Checks
<1>2. verify_claims(claims, rag.checks)' = verify_claims(claims, rag.checks)
  BY SameFiles
<1> QED
  BY <1>1, <1>2 DEF RagInv

LEMMA SelfcheckKept ==
    ASSUME SelfcheckInv, UNCHANGED <<claims, selfcheck>> PROVE SelfcheckInv'
  BY DEF SelfcheckInv, Measured

LEMMA GenerateStep == IInv /\ generate_answer /\ UNCHANGED files => IInv'
<1> SUFFICES ASSUME IInv, generate_answer, UNCHANGED files PROVE IInv'
  OBVIOUS
<1> USE DEF IInv, generate_answer
<1>1. TypeOK'
  BY DEF TypeOK, Steps
<1>2. ControlInv'
  BY DEF ControlInv
<1> QED
  BY <1>1, <1>2, ClaimsKept, RagKept, SelfcheckKept

LEMMA ExtractStep == IInv /\ extract_claims /\ UNCHANGED files => IInv'
<1> SUFFICES ASSUME IInv, extract_claims, UNCHANGED files PROVE IInv'
  OBVIOUS
<1> USE DEF IInv
<1>1. UNCHANGED <<files, answer, result, fused>> /\ step = "extract"
  BY DEF extract_claims
<1>2. /\ claims = <<>> /\ rag.state = "idle" /\ selfcheck.state = "idle"
      /\ result = NoResult /\ fused = <<>>
  BY <1>1 DEF ControlInv
<1>3. ASSUME NEW cs \in ClaimLists, DistinctIds(cs), Branch(cs)
      PROVE  IInv'
  <2>1. /\ claims' = cs /\ step' = "join_rag"
        /\ rag' = [rag EXCEPT !.state = "running"]
        /\ selfcheck' = [selfcheck EXCEPT !.state = "sampling"]
    BY <1>3 DEF Branch
  <2>2. ClaimInv'
    BY <1>3, <2>1 DEF ClaimInv, DistinctIds
  <2>3. /\ rag'.state = "running" /\ rag'.panne = rag.panne
        /\ rag' = [state |-> rag'.state, panne |-> rag'.panne,
                   verdicts |-> rag'.verdicts, checks |-> rag'.checks]
    BY <2>1 DEF RagInv
  <2>4. RagInv'
    BY <2>3 DEF RagInv
  <2>5. /\ selfcheck'.state = "sampling" /\ selfcheck'.scores = <<>>
        /\ selfcheck' = [state |-> selfcheck'.state, scores |-> selfcheck'.scores]
    BY <2>1, <1>2 DEF SelfcheckInv
  <2>6. SelfcheckInv'
    BY <2>5 DEF SelfcheckInv
  <2>7. ControlInv'
    BY <1>1, <1>2, <2>1 DEF ControlInv
  <2>8. TypeOK'
    <3>1. \A i \in DOMAIN cs : cs[i].text \in Texts
      BY ListOfClaims
    <3> QED
      BY <1>1, <2>1, <2>3, <2>5, <3>1 DEF TypeOK, Steps
  <2> QED
    BY <2>2, <2>4, <2>6, <2>7, <2>8
<1>4. ASSUME step' = "raised", UNCHANGED <<claims, rag, selfcheck>>
      PROVE  IInv'
  <2>1. TypeOK'
    BY <1>1, <1>4 DEF TypeOK, Steps
  <2>2. ControlInv'
    BY <1>1, <1>2, <1>4 DEF ControlInv
  <2> QED
    BY <1>1, <1>4, <2>1, <2>2, ClaimsKept, RagKept, SelfcheckKept
<1>5. Branch(<<>>) => IInv'
  BY <1>3, NoClaims
<1>6. ASSUME NEW m \in 1..MaxElements,
             NEW elements \in [1..m -> Texts \cup {Blank, NotText}],
             Branch(do_extraction(elements))
      PROVE  IInv'
  BY <1>3, <1>6, ExtractedClaims
<1> QED
  BY <1>4, <1>5, <1>6 DEF extract_claims

LEMMA RagStep == IInv /\ RagBranch /\ UNCHANGED files => IInv'
<1> SUFFICES ASSUME IInv, RagBranch, UNCHANGED files PROVE IInv'
  OBVIOUS
<1> USE DEF IInv
<1>1. UNCHANGED <<files, step, answer, claims, selfcheck, result, fused>> /\ rag.state = "running"
  BY DEF RagBranch
<1>2. PICK checks \in [DOMAIN claims -> Checks(claims)] :
         rag' = [state |-> verify_claims(claims, checks).state,
                 panne |-> verify_claims(claims, checks).panne,
                 verdicts |-> verify_claims(claims, checks).verdicts, checks |-> checks]
  BY DEF RagBranch
<1> DEFINE o == verify_claims(claims, checks)
<1>3. o.state \in {"ended", "raised"} /\ o.panne \in BOOLEAN
  BY BranchOutcome DEF ClaimInv
<1>4. o = [state |-> o.state, panne |-> o.panne, verdicts |-> o.verdicts]
  BY DEF verify_claims
<1>5. /\ rag'.state = o.state /\ rag'.panne = o.panne /\ rag'.verdicts = o.verdicts
      /\ rag'.checks = checks
      /\ rag' = [state |-> rag'.state, panne |-> rag'.panne,
                 verdicts |-> rag'.verdicts, checks |-> rag'.checks]
  <2> HIDE DEF o
  <2> QED
    BY <1>2 DEF o
<1>6. RagInv'
  <2>1. Checks(claims)' = Checks(claims)
    BY <1>1 DEF Checks
  <2>2. rag'.checks \in [DOMAIN claims' -> Checks(claims)']
    BY <1>1, <1>5, <2>1
  <2>3. [state |-> rag'.state, panne |-> rag'.panne, verdicts |-> rag'.verdicts]
           = verify_claims(claims', rag'.checks)
    <3> HIDE DEF o
    <3>1. [state |-> rag'.state, panne |-> rag'.panne, verdicts |-> rag'.verdicts] = o
      BY <1>4, <1>5
    <3> QED
      BY <3>1, <1>1, <1>5 DEF o
  <2>4. verify_claims(claims, rag.checks)' = verify_claims(claims', rag'.checks)
    BY SameFiles, <1>1
  <2> HIDE DEF o
  <2> QED
    BY <1>3, <1>5, <2>2, <2>3, <2>4 DEF RagInv
<1>7. step \notin {"answer", "extract", "join_selfcheck", "leave", "fuse", "done"}
  BY <1>1 DEF ControlInv
<1>8. ControlInv'
  BY <1>1, <1>7 DEF ControlInv
<1>9. TypeOK'
  BY <1>1, <1>3, <1>5 DEF TypeOK
<1> QED
  BY <1>1, <1>6, <1>8, <1>9, ClaimsKept, SelfcheckKept

LEMMA SampleStep == IInv /\ SampleBranch /\ UNCHANGED files => IInv'
<1> SUFFICES ASSUME IInv, SampleBranch, UNCHANGED files PROVE IInv'
  OBVIOUS
<1> USE DEF IInv
<1>1. UNCHANGED <<files, step, answer, claims, rag, result, fused>>
      /\ selfcheck.state = "sampling"
  BY DEF SampleBranch
<1>2. /\ selfcheck'.state \in {"ended", "scoring", "raised"}
      /\ selfcheck'.state = "ended" => claims = <<>>
      /\ selfcheck'.scores = selfcheck.scores /\ selfcheck.scores = <<>>
      /\ selfcheck' = [state |-> selfcheck'.state, scores |-> selfcheck'.scores]
  BY <1>1 DEF SampleBranch, SelfcheckInv
<1>3. SelfcheckInv'
  <2>1. ASSUME claims = <<>> PROVE Measured(<<>>)
    <3>1. <<>> \in [DOMAIN claims -> Divergences(claims)]
      BY <2>1
    <3>2. <<>> = [i \in DOMAIN claims |-> Scored(claims[i].id, <<>>[i])]
      BY <2>1
    <3> QED
      BY <3>1, <3>2 DEF Measured
  <2>2. claims = <<>> => Measured(<<>>)'
    BY <2>1, <1>1 DEF Measured
  <2> QED
    BY <1>1, <1>2, <2>2 DEF SelfcheckInv
<1>4. step \notin {"answer", "extract", "leave", "fuse", "done"}
  BY <1>1 DEF ControlInv
<1>5. ControlInv'
  BY <1>1, <1>4 DEF ControlInv
<1>6. TypeOK'
  BY <1>1, <1>2 DEF TypeOK
<1> QED
  BY <1>1, <1>3, <1>5, <1>6, ClaimsKept, RagKept

LEMMA ScoreStep == IInv /\ ScoreBranch /\ UNCHANGED files => IInv'
<1> SUFFICES ASSUME IInv, ScoreBranch, UNCHANGED files PROVE IInv'
  OBVIOUS
<1> USE DEF IInv
<1>1. UNCHANGED <<files, step, answer, claims, rag, result, fused>>
      /\ selfcheck.state = "scoring" /\ selfcheck.scores = <<>>
  BY DEF ScoreBranch, SelfcheckInv
<1>2. \/ selfcheck' = [selfcheck EXCEPT !.state = "raised"]
      \/ \E d \in [DOMAIN claims -> Divergences(claims)] :
            selfcheck' = [state |-> "ended",
                          scores |-> [i \in DOMAIN claims |-> Scored(claims[i].id, d[i])]]
  BY DEF ScoreBranch
<1>3. SelfcheckInv' /\ selfcheck'.state \in {"raised", "ended"}
  <2>1. CASE selfcheck' = [selfcheck EXCEPT !.state = "raised"]
    <3>1. selfcheck' = [state |-> "raised", scores |-> <<>>]
      BY <1>1, <2>1 DEF SelfcheckInv
    <3> QED
      BY <3>1 DEF SelfcheckInv
  <2>2. ASSUME NEW d \in [DOMAIN claims -> Divergences(claims)],
               selfcheck' = [state |-> "ended",
                             scores |-> [i \in DOMAIN claims |-> Scored(claims[i].id, d[i])]]
        PROVE  SelfcheckInv' /\ selfcheck'.state \in {"raised", "ended"}
    <3> DEFINE s == [i \in DOMAIN claims |-> Scored(claims[i].id, d[i])]
    <3>1. Measured(s)'
      BY <1>1 DEF Measured
    <3>2. selfcheck' = [state |-> "ended", scores |-> s]
      BY <2>2
    <3>3. selfcheck'.state = "ended" /\ selfcheck'.scores = s
      <4> HIDE DEF s
      <4> QED
        BY <3>2
    <3>4. Measured(selfcheck.scores)'
      BY <3>1, <3>3, <1>1 DEF Measured
    <3> HIDE DEF s
    <3> QED
      BY <3>2, <3>3, <3>4 DEF SelfcheckInv
  <2> QED
    BY <1>2, <2>1, <2>2
<1>4. step \notin {"answer", "extract", "leave", "fuse", "done"}
  BY <1>1 DEF ControlInv
<1>5. ControlInv'
  BY <1>1, <1>4 DEF ControlInv
<1>6. TypeOK'
  BY <1>1, <1>3 DEF TypeOK
<1> QED
  BY <1>1, <1>3, <1>5, <1>6, ClaimsKept, RagKept

LEMMA JoinStep == IInv /\ (JoinRag \/ JoinSelfcheck) /\ UNCHANGED files => IInv'
<1> SUFFICES ASSUME IInv, JoinRag \/ JoinSelfcheck, UNCHANGED files PROVE IInv'
  OBVIOUS
<1> USE DEF IInv, JoinRag, JoinSelfcheck
<1>1. TypeOK'
  BY DEF TypeOK, Steps
<1>2. ControlInv'
  BY DEF ControlInv
<1> QED
  BY <1>1, <1>2, ClaimsKept, RagKept, SelfcheckKept

LEMMA LeaveStep == IInv /\ Leave /\ UNCHANGED files => IInv'
<1> SUFFICES ASSUME IInv, Leave, UNCHANGED files PROVE IInv'
  OBVIOUS
<1> USE DEF IInv, Leave
<1>1. TypeOK'
  BY DEF TypeOK, Steps, RagInv
<1>2. ControlInv'
  BY DEF ControlInv, Outcome
<1> QED
  BY <1>1, <1>2, ClaimsKept, RagKept, SelfcheckKept

LEMMA FuseStep == IInv /\ fuse /\ UNCHANGED files => IInv'
<1> SUFFICES ASSUME IInv, fuse, UNCHANGED files PROVE IInv'
  OBVIOUS
<1> USE DEF IInv
<1>1. UNCHANGED <<files, answer, claims, rag, selfcheck, result>> /\ step = "fuse" /\ step' = "done"
  BY DEF fuse
<1>2. /\ result = Outcome /\ rag.state = "ended" /\ selfcheck.state = "ended"
  BY <1>1 DEF ControlInv
<1>3. result.panne = rag.panne /\ result.rag_scores = rag.verdicts
      /\ result.selfcheck_scores = selfcheck.scores
  BY <1>2 DEF Outcome
<1>4. fused' = [i \in DOMAIN claims |->
                   FusedVerdict(rag.panne,
                                Get(rag.verdicts, claims[i].id, NoRag),
                                Get(selfcheck.scores, claims[i].id, NoDivergence))]
  BY <1>3 DEF fuse
<1>5. ControlInv'
  BY <1>1, <1>2, <1>4 DEF ControlInv, Outcome
<1>6. TypeOK'
  <2>1. PICK n \in 0..MaxElements : DOMAIN claims = 1..n
    BY ListOfClaims DEF ClaimInv
  <2>2. DOMAIN fused' = 1..n /\ n \in Nat
    BY <1>4, <2>1, BoundAssumption
  <2>3. Len(fused') = n
    BY <2>2
  <2> QED
    BY <1>1, <2>3 DEF TypeOK, Steps
<1> QED
  BY <1>1, <1>5, <1>6, ClaimsKept, RagKept, SelfcheckKept

LEMMA StutterStep == IInv /\ UNCHANGED vars => IInv'
<1> SUFFICES ASSUME IInv, UNCHANGED vars PROVE IInv'
  OBVIOUS
<1> USE DEF IInv, vars
<1>1. TypeOK'
  BY DEF TypeOK
<1>2. ControlInv'
  BY DEF ControlInv, Outcome
<1> QED
  BY <1>1, <1>2, ClaimsKept, RagKept, SelfcheckKept

LEMMA NextHolds == IInv /\ [Next]_vars => IInv'
  BY GenerateStep, ExtractStep, RagStep, SampleStep, ScoreStep, JoinStep, LeaveStep,
     FuseStep, StutterStep
  DEF Next, Work, Done

LEMMA Invariant == Spec => []IInv
  BY InitHolds, NextHolds, PTL DEF Spec


-------------------------------------------------------------------------------
(***************************************************************************)
(* What a search brings back: texts of the metadata, which are the texts of *)
(* the vectors found when both files come from one build.                   *)
(***************************************************************************)
LEMMA IndexedLines ==
    ASSUME NEW b \in DOMAIN Builds
    PROVE  LET M == Indexed(Builds[b])
           IN  /\ Len(M) \in Nat /\ Len(M) > 0 /\ DOMAIN M = 1..Len(M)
               /\ \A k \in DOMAIN M : M[k].label \in {"SUPPORTS", "REFUTES"}
<1> DEFINE corpus == Builds[b]
           S == {i \in DOMAIN corpus : /\ corpus[i].label \in {"SUPPORTS", "REFUTES"}
                                       /\ corpus[i].id # -1}
           M == Indexed(corpus)
<1>1. corpus \in Seq(Lines) /\ M # <<>>
  BY BuildsAssumption
<1>2. PICK n \in Nat : DOMAIN corpus = 1..n
  BY <1>1
<1>3. S \subseteq 1..n
  BY <1>2
<1>4. M = [k \in DOMAIN InOrder(S) |-> corpus[InOrder(S)[k]]]
  BY DEF Indexed
<1>5. \A i \in S : corpus[i].label \in {"SUPPORTS", "REFUTES"}
  OBVIOUS
<1> HIDE DEF S, M, corpus
<1>6. /\ Cardinality(S) \in Nat
      /\ DOMAIN InOrder(S) = 1..Cardinality(S)
      /\ \A k \in 1..Cardinality(S) : InOrder(S)[k] \in S
  <2>1. n \in Nat
    BY <1>2
  <2>2. /\ Cardinality(S) \in 0..n
        /\ DOMAIN InOrder(S) = 1..Cardinality(S)
        /\ InOrder(S) \in [1..Cardinality(S) -> S]
    BY <1>3, <2>1, InOrderSelects
  <2> QED
    BY <2>1, <2>2
<1>7. DOMAIN M = 1..Cardinality(S) /\ Len(M) = Cardinality(S)
  BY <1>4, <1>6
<1>8. \A k \in DOMAIN M : M[k].label \in {"SUPPORTS", "REFUTES"}
  BY <1>4, <1>5, <1>6, <1>7
<1>9. Cardinality(S) # 0
  <2>1. ASSUME Cardinality(S) = 0 PROVE M = <<>>
    <3>1. DOMAIN InOrder(S) = {}
      BY <1>6, <2>1
    <3> QED
      BY <1>4, <3>1
  <2> QED
    BY <2>1, <1>1 DEF M, corpus
<1> QED
  BY <1>6, <1>7, <1>8, <1>9 DEF M, corpus

LEMMA LoadedLines ==
    ASSUME files \in Loadable
    PROVE  /\ files.index \in DOMAIN Builds /\ files.metadata \in DOMAIN Builds
           /\ Len(Vectors(files)) \in Nat /\ Len(Vectors(files)) > 0
           /\ Len(Metadata(files)) \in Nat /\ Len(Metadata(files)) > 0
           /\ DOMAIN Metadata(files) = 1..Len(Metadata(files))
           /\ \A k \in DOMAIN Metadata(files) :
                 Metadata(files)[k].label \in {"SUPPORTS", "REFUTES"}
<1>1. files.index \in DOMAIN Builds /\ files.metadata \in DOMAIN Builds
  BY DEF Loadable
<1> QED
  BY <1>1, IndexedLines DEF Vectors, Metadata

(* The texts kept, in the order of the vectors found.                       *)
LEMMA RetrievedLines ==
    ASSUME files \in Loadable, NEW cs, NEW found \in Found(cs, files)
    PROVE  LET E == retrieve(found, files)
           IN  /\ DOMAIN E = 1..Len(E) /\ Len(E) \in 0..top_k
               /\ \A k \in DOMAIN E : E[k].label \in {"SUPPORTS", "REFUTES"}
               /\ files.index = files.metadata =>
                     \A k \in DOMAIN E : /\ k \in 1..top_k /\ found[k] # Missing
                                         /\ E[k] = Vectors(files)[found[k] + 1]
<1> DEFINE M == Metadata(files)
           S == {i \in DOMAIN found : 0 <= found[i] /\ found[i] < Len(M)}
           E == retrieve(found, files)
           V == Len(Vectors(files))
<1>1. /\ DOMAIN found = 1..3
      /\ \A i \in 1..3 : \/ found[i] \in 0..(V - 1)
                         \/ found[i] = Missing /\ i > V
      /\ \A i, j \in 1..3 : i # j /\ found[i] = found[j] => found[i] = Missing
  BY DEF Found, top_k
<1>2. S \subseteq 1..3
  BY <1>1
<1>3. E = [k \in DOMAIN InOrder(S) |-> M[found[InOrder(S)[k]] + 1]]
  BY DEF retrieve
<1>4. /\ V \in Nat /\ V > 0 /\ Len(M) \in Nat /\ DOMAIN M = 1..Len(M)
      /\ \A k \in DOMAIN M : M[k].label \in {"SUPPORTS", "REFUTES"}
  BY LoadedLines
<1>5. \A i \in S : found[i] + 1 \in DOMAIN M
  <2> TAKE i \in S
  <2>1. i \in 1..3 /\ 0 <= found[i] /\ found[i] < Len(M)
    BY <1>1
  <2>2. found[i] \in Int
    BY <2>1, <1>1, <1>4 DEF Missing
  <2> QED
    BY <2>1, <2>2, <1>4
<1>6. ASSUME files.index = files.metadata
      PROVE  M = Vectors(files) /\ \E m \in 0..3 : S = 1..m /\ \A i \in 1..m : found[i] # Missing
  <2>1. M = Vectors(files) /\ Len(M) = V
    BY <1>6 DEF Vectors, Metadata
  <2>2. S = {i \in 1..3 : found[i] # Missing}
    BY <1>1, <1>4, <2>1 DEF Missing
  <2>3. \A i \in 1..3 : i <= V => found[i] # Missing
    BY <1>1, <1>4 DEF Missing
  <2>4. \A i \in 1..3 : i > V => found[i] = Missing
    <3> HIDE DEF V
    <3>1. SUFFICES ASSUME NEW i \in 1..3, i > V, found[i] \in 0..(V - 1) PROVE FALSE
      BY <1>1
    <3>2. \A j \in 1..V : found[j] \in 0..(V - 1) /\ found[j] # found[i]
      BY <1>1, <1>4, <3>1 DEF Missing
    <3>3. V \in {1, 2}
      BY <1>4, <3>1
    <3>4. CASE V = 1
      BY <3>1, <3>2, <3>4
    <3>5. CASE V = 2
      <4>1. found[1] \in {0, 1} /\ found[2] \in {0, 1} /\ found[i] \in {0, 1}
        BY <3>1, <3>2, <3>5
      <4>2. found[1] # found[2]
        BY <1>1, <3>5, <4>1 DEF Missing
      <4>3. found[1] # found[i] /\ found[2] # found[i]
        BY <3>2, <3>5
      <4> QED
        BY <4>1, <4>2, <4>3
    <3> QED
      BY <3>3, <3>4, <3>5
  <2> DEFINE m == IF V < 3 THEN V ELSE 3
  <2>5. m \in 0..3 /\ S = 1..m /\ \A i \in 1..m : found[i] # Missing
    <3> HIDE DEF V, S
    <3> QED
      BY <1>4, <2>2, <2>3, <2>4
  <2> QED
    BY <2>1, <2>5
<1> HIDE DEF S, M, E, V
<1>7. /\ Cardinality(S) \in 0..3
      /\ DOMAIN InOrder(S) = 1..Cardinality(S)
      /\ \A k \in 1..Cardinality(S) : InOrder(S)[k] \in S
  BY <1>2, InOrderSelects
<1>8. DOMAIN E = 1..Cardinality(S) /\ Len(E) = Cardinality(S)
  BY <1>3, <1>7
<1>9. \A k \in DOMAIN E : E[k].label \in {"SUPPORTS", "REFUTES"}
  BY <1>3, <1>4, <1>5, <1>7, <1>8
<1>10. ASSUME files.index = files.metadata, NEW k \in DOMAIN E
       PROVE  k \in 1..top_k /\ found[k] # Missing /\ E[k] = Vectors(files)[found[k] + 1]
  <2>1. M = Vectors(files)
    BY <1>6, <1>10
  <2>2. PICK m \in 0..3 : S = 1..m /\ \A i \in 1..m : found[i] # Missing
    BY <1>6, <1>10
  <2>3. InOrder(S) = [l \in 1..m |-> l]
    BY <2>2, InOrderPrefix
  <2>4. k \in 1..m
    BY <1>3, <1>10, <2>3
  <2> QED
    BY <1>3, <2>1, <2>2, <2>3, <2>4 DEF top_k
<1> QED
  BY <1>7, <1>8, <1>9, <1>10 DEF E, top_k

(* The fields read that a FEVER verdict needs are those of one member each. *)
LEMMA FieldIsMember ==
    ASSUME NEW reply, IsReply(reply), NEW key, NEW default,
           LET v == FieldOf(_premier_objet_json(Text(reply)), key, default)
           IN  v # default
    PROVE  LET v == FieldOf(_premier_objet_json(Text(reply)), key, default)
           IN  \E m \in DOMAIN reply.members :
                  /\ reply.members[m].key = key
                  /\ v \in {reply.members[m].written, reply.members[m].cut}
                  /\ v.type # "number" => v = reply.members[m].written
                  /\ v.type = "string" => v.num = 0
                  /\ v = Value(v.type, v.str, v.num)
<1> DEFINE fields == _premier_objet_json(Text(reply))
           v == FieldOf(fields, key, default)
<1>1. Written(reply, fields)
  BY ReadingIsWritten
<1>2. key \in DOMAIN fields /\ v = fields[key]
  BY DEF FieldOf
<1> HIDE DEF fields
<1>3. PICK m \in DOMAIN reply.members :
         /\ reply.members[m].key = key
         /\ fields[key] \in {reply.members[m].written, reply.members[m].cut}
  BY <1>1, <1>2 DEF Written
<1>4. reply.members[m] \in Members
  BY DEF IsReply
<1>5. /\ reply.members[m].written \in Values /\ reply.members[m].cut \in Values
      /\ reply.members[m].cut # reply.members[m].written => reply.members[m].cut.type = "number"
  BY <1>4 DEF Members
<1>6. v \in Values
  BY <1>2, <1>3, <1>5
<1> HIDE DEF v
<1>7. /\ v.type = "string" => v.num = 0
      /\ v = Value(v.type, v.str, v.num)
  BY <1>6 DEF Values, Value
<1>8. v.type # "number" => v = reply.members[m].written
  BY <1>2, <1>3, <1>5
<1> QED
  BY <1>2, <1>3, <1>7, <1>8 DEF v, fields

(* A FEVER verdict: what the judge wrote, and the text it cites.            *)
LEMMA DetailIsProof ==
    ASSUME NEW check, Evidences(check) # <<>> => IsReply(check.reply),
           verify_claim_detail(check).verdict \in Fever
    PROVE  LET v == verify_claim_detail(check)
           IN  /\ Evidences(check) # <<>>
               /\ Str(v.verdict) \in Wrote(check.reply, "verdict")
               /\ \E m \in DOMAIN check.reply.members :
                  \E used \in {check.reply.members[m].written, check.reply.members[m].cut} :
                     /\ check.reply.members[m].key = "used_evidence_index"
                     /\ used.type \in {"number", "list"}
                     /\ used.num \in 0..(Len(Evidences(check)) - 1)
                     /\ v.evidence = Evidences(check)[used.num + 1]
<1> DEFINE fields == Reading(check)
           E == Evidences(check)
           v == verify_claim_detail(check)
           given == FieldOf(fields, "verdict", Null)
           used == UsedIndex(fields)
<1>1. DontKnow.verdict \notin Fever
  BY DEF DontKnow, Fever
<1>2. E # <<>> /\ v = Judged(fields, E)
  BY <1>1 DEF verify_claim_detail
<1>3. IsReply(check.reply)
  BY <1>2
<1>4. /\ RAG_VERDICT_TO_JUDGMENT(given) \in Fever /\ index_valide(fields, E)
      /\ v.verdict = RAG_VERDICT_TO_JUDGMENT(given)
      /\ v.evidence = E[used.num + 1]
  <2> HIDE DEF fields, E
  <2> QED
    BY <1>1, <1>2 DEF Judged
<1>5. given.type = "string" /\ given.str = v.verdict
  <2> HIDE DEF given
  <2> QED
    BY <1>4 DEF RAG_VERDICT_TO_JUDGMENT, Fever
<1>6. given # Null
  <2>1. Null.type = "null"
    BY DEF Null, Value
  <2>2. given.type # "null"
    BY <1>5
  <2> HIDE DEF given
  <2> QED
    BY <2>1, <2>2
<1>7. PICK m \in DOMAIN check.reply.members :
         /\ check.reply.members[m].key = "verdict"
         /\ given.type # "number" => given = check.reply.members[m].written
         /\ given.type = "string" => given.num = 0
         /\ given = Value(given.type, given.str, given.num)
  BY <1>3, <1>6, FieldIsMember DEF Reading
<1>8. Str(v.verdict) \in Wrote(check.reply, "verdict")
  <2> HIDE DEF given, v
  <2>1. given = Str(v.verdict)
    BY <1>5, <1>7 DEF Str
  <2>2. given = check.reply.members[m].written
    BY <1>5, <1>7
  <2> QED
    BY <1>7, <2>1, <2>2 DEF Wrote
<1>9. used.type \in {"number", "list"} /\ used.num \in 0..(Len(E) - 1)
  BY <1>4 DEF index_valide
<1>10. used # Null
  <2>1. Null.type = "null"
    BY DEF Null, Value
  <2>2. used.type # "null"
    BY <1>9
  <2> HIDE DEF used
  <2> QED
    BY <2>1, <2>2
<1>11. PICK n \in DOMAIN check.reply.members :
          /\ check.reply.members[n].key = "used_evidence_index"
          /\ used \in {check.reply.members[n].written, check.reply.members[n].cut}
  BY <1>3, <1>10, FieldIsMember DEF Reading, UsedIndex
<1> QED
  BY <1>2, <1>4, <1>8, <1>9, <1>11

-------------------------------------------------------------------------------
(***************************************************************************)
(* What the invariant says of a question that has its verdicts.             *)
(***************************************************************************)
LEMMA BranchesEnded ==
    ASSUME IInv, step = "done"
    PROVE  /\ rag.state = "ended" /\ rag.panne \in BOOLEAN
           /\ rag.checks \in [DOMAIN claims -> Checks(claims)]
           /\ rag.panne = verify_claims(claims, rag.checks).panne
           /\ rag.verdicts = verify_claims(claims, rag.checks).verdicts
           /\ verify_claims(claims, rag.checks).state = "ended"
           /\ Measured(selfcheck.scores)
           /\ result = Outcome
           /\ DOMAIN fused = DOMAIN claims
<1>1. rag.state = "ended" /\ selfcheck.state = "ended" /\ result = Outcome
  BY DEF IInv, ControlInv
<1>2. [state |-> rag.state, panne |-> rag.panne, verdicts |-> rag.verdicts]
         = verify_claims(claims, rag.checks)
  BY <1>1 DEF IInv, RagInv
<1> DEFINE o == verify_claims(claims, rag.checks)
<1>3. o.state = rag.state /\ o.panne = rag.panne /\ o.verdicts = rag.verdicts
  <2>1. o = [state |-> rag.state, panne |-> rag.panne, verdicts |-> rag.verdicts]
    BY <1>2
  <2> HIDE DEF o
  <2> QED
    BY <2>1
<1>4. DOMAIN fused = DOMAIN claims
  BY DEF IInv, ControlInv
<1> QED
  BY <1>1, <1>3, <1>4 DEF IInv, RagInv, SelfcheckInv

LEMMA OwnDivergence ==
    ASSUME IInv, step = "done", NEW i \in DOMAIN claims
    PROVE  /\ selfcheck.scores[i].value \in Percent
           /\ Get(selfcheck.scores, claims[i].id, NoDivergence) = selfcheck.scores[i].value
<1>1. PICK d \in [DOMAIN claims -> Divergences(claims)] :
         selfcheck.scores = [j \in DOMAIN claims |-> Scored(claims[j].id, d[j])]
  BY BranchesEnded DEF Measured
<1>2. claims \in ClaimLists /\ DistinctIds(claims)
  BY DEF IInv, ClaimInv, DistinctIds
<1>3. selfcheck.scores[i].value = d[i]
  BY <1>1 DEF Scored
<1>4. d[i] \in Percent
  BY <1>2, DivergenceAssumption
<1>5. Get(selfcheck.scores, claims[i].id, NoDivergence) = d[i]
  BY <1>1, <1>2, GetOwn
<1> QED
  BY <1>3, <1>4, <1>5

LEMMA OwnCheck ==
    ASSUME IInv, step = "done", ~rag.panne, NEW i \in DOMAIN claims
    PROVE  /\ rag.checks[i] \in Checks(claims)
           /\ rag.checks[i].kind # "error" /\ ~Panne(rag.checks[i])
           /\ rag.verdicts[i].value = verify_claim_detail(rag.checks[i])
           /\ verify_claim_detail(rag.checks[i]).confidence \in Int
           /\ Get(rag.verdicts, claims[i].id, NoRag) = verify_claim_detail(rag.checks[i])
<1>1. claims \in ClaimLists /\ DistinctIds(claims) /\ files \in Loadable
  BY DEF IInv, TypeOK, ClaimInv, DistinctIds
<1> DEFINE checks == rag.checks
           w == [j \in DOMAIN claims |-> verify_claim_detail(checks[j])]
<1>2. /\ \A j \in DOMAIN claims : checks[j].kind # "error" /\ ~Panne(checks[j])
      /\ rag.verdicts = [j \in DOMAIN claims |->
                            Scored(claims[j].id, verify_claim_detail(checks[j]))]
  BY <1>1, BranchesEnded, BranchOutcome
<1>3. checks[i] \in Checks(claims)
  BY BranchesEnded
<1>4. rag.verdicts = [j \in DOMAIN claims |-> Scored(claims[j].id, w[j])]
  BY <1>2
<1>5. w[i] = verify_claim_detail(checks[i])
  OBVIOUS
<1>6. rag.verdicts[i].value = w[i]
  BY <1>4 DEF Scored
<1>7. verify_claim_detail(checks[i]).confidence \in Int
  BY <1>1, <1>2, <1>3, DetailIsNumber
<1> HIDE DEF w
<1>8. Get([j \in DOMAIN claims |-> Scored(claims[j].id, w[j])], claims[i].id, NoRag) = w[i]
  BY <1>1, GetOwn
<1> QED
  BY <1>2, <1>3, <1>4, <1>5, <1>6, <1>7, <1>8

(* The verdict on a claim, from what its own two signals were.              *)
LEMMA OwnVerdict ==
    ASSUME IInv, step = "done", NEW i \in DOMAIN claims
    PROVE  /\ rag.panne => fused[i] = FusedVerdict(TRUE, NoRag, selfcheck.scores[i].value)
           /\ ~rag.panne =>
                 fused[i] = FusedVerdict(FALSE, verify_claim_detail(rag.checks[i]),
                                         selfcheck.scores[i].value)
<1>1. fused[i] = FusedVerdict(rag.panne,
                              Get(rag.verdicts, claims[i].id, NoRag),
                              Get(selfcheck.scores, claims[i].id, NoDivergence))
  BY DEF IInv, ControlInv
<1>2. rag.panne \in BOOLEAN
  BY BranchesEnded
<1>3. ASSUME rag.panne
      PROVE  fused[i] = FusedVerdict(TRUE, NoRag, selfcheck.scores[i].value)
  <2>1. rag.panne = TRUE
    BY <1>2, <1>3
  <2> QED
    BY <1>1, <2>1, FusedPanne
<1>4. ASSUME ~rag.panne
      PROVE  fused[i] = FusedVerdict(FALSE, verify_claim_detail(rag.checks[i]),
                                     selfcheck.scores[i].value)
  <2>1. rag.panne = FALSE
    BY <1>2, <1>4
  <2>2. Get(rag.verdicts, claims[i].id, NoRag) = verify_claim_detail(rag.checks[i])
    BY <1>4, OwnCheck
  <2> QED
    BY <1>1, <2>1, <2>2, OwnDivergence
<1> QED
  BY <1>3, <1>4

LEMMA PanneHolds == IInv => PanneIsTotal
<1> SUFFICES ASSUME IInv, step = "done" PROVE PanneIsTotal
  BY DEF PanneIsTotal
<1>1. DOMAIN fused = DOMAIN claims
  BY BranchesEnded
<1>2. ASSUME NEW i \in DOMAIN fused PROVE (fused[i].verdict = "PANNE") <=> rag.panne
  <2>1. i \in DOMAIN claims
    BY <1>1
  <2>2. selfcheck.scores[i].value \in Percent \cup {NoDivergence}
    BY <2>1, OwnDivergence
  <2>3. ASSUME rag.panne PROVE fused[i].verdict = "PANNE"
    <3>1. fused[i] = FusedVerdict(TRUE, NoRag, selfcheck.scores[i].value)
      BY <2>1, <2>3, OwnVerdict
    <3>2. FusedVerdict(TRUE, NoRag, selfcheck.scores[i].value)
            = [verdict |-> "PANNE", confidence |-> <<0, 1>>,
               fondement |-> "AUCUN", evidence |-> NoEvidence]
      BY FusedPanne
    <3>3. fused[i] = [verdict |-> "PANNE", confidence |-> <<0, 1>>,
                      fondement |-> "AUCUN", evidence |-> NoEvidence]
      BY <3>1, <3>2
    <3> QED
      BY <3>3
  <2>4. ASSUME ~rag.panne PROVE fused[i].verdict # "PANNE"
    <3>1. fused[i] = FusedVerdict(FALSE, verify_claim_detail(rag.checks[i]),
                                  selfcheck.scores[i].value)
      BY <2>1, <2>4, OwnVerdict
    <3>2. verify_claim_detail(rag.checks[i]).confidence \in Int
      BY <2>1, <2>4, OwnCheck
    <3> QED
      BY <2>2, <3>1, <3>2, FusedIsComparable
  <2> QED
    BY <2>3, <2>4
<1>3. claims \in ClaimLists
  BY DEF IInv, ClaimInv
<1>4. rag.panne => (\E i \in DOMAIN claims : Panne(rag.checks[i])) /\ rag.verdicts = <<>>
  BY <1>3, BranchesEnded, BranchOutcome
<1>5. ~rag.panne => ~ \E i \in DOMAIN claims : Panne(rag.checks[i])
  BY OwnCheck
<1>6. result.rag_scores = rag.verdicts
  BY BranchesEnded DEF Outcome
<1> QED
  BY <1>1, <1>2, <1>4, <1>5, <1>6 DEF PanneIsTotal

LEMMA OwnHolds == IInv => VerdictIsOwn
  BY OwnVerdict DEF VerdictIsOwn

LEMMA ComparableHolds == ComparableSettings /\ IInv => ConfidenceIsComparable
<1> SUFFICES ASSUME ComparableSettings, IInv, NEW i \in DOMAIN fused
             PROVE  LET f == fused[i].confidence IN
                      /\ 0 <= f[1] /\ f[1] <= f[2] /\ f[2] > 0
                      /\ fused[i].verdict \in {"PANNE", "NOT_ENOUGH_INFO"} => f[1] = 0
                      /\ (fused[i].verdict \in {"SUPPORTED", "CONTRADICTED"}
                             /\ fused[i].fondement = "CONVICTION") =>
                            100 * f[1] >= FUSION_SEUIL_VRAI * f[2]
  BY DEF ConfidenceIsComparable
<1>1. step = "done"
  BY DEF IInv, ControlInv
<1>2. i \in DOMAIN claims
  BY <1>1, BranchesEnded
<1>3. selfcheck.scores[i].value \in Percent \cup {NoDivergence}
  BY <1>1, <1>2, OwnDivergence
<1>4. PICK panne, v :
         /\ panne \in BOOLEAN /\ v.confidence \in Int
         /\ fused[i] = FusedVerdict(panne, v, selfcheck.scores[i].value)
  <2>1. NoRag.confidence \in Int
    BY DEF NoRag
  <2>2. CASE rag.panne
    BY <1>1, <1>2, <2>1, <2>2, OwnVerdict
  <2>3. CASE ~rag.panne
    BY <1>1, <1>2, <2>3, OwnVerdict, OwnCheck
  <2> QED
    BY <2>2, <2>3
<1>5. FUSION_SEUIL_VRAI \in Int
  BY Settings
<1> DEFINE f == fused[i].confidence
<1>6. /\ 0 <= f[1] /\ f[1] <= f[2] /\ f[2] > 0
      /\ fused[i].verdict \in {"PANNE", "NOT_ENOUGH_INFO"} => f[1] = 0
      /\ (fused[i].verdict \in FirmVerdicts /\ fused[i].fondement = "CONVICTION") =>
            FUSION_SEUIL_VRAI * f[2] <= 100 * f[1]
  BY <1>3, <1>4, FusedIsComparable
<1> QED
  BY <1>6 DEF FirmVerdicts

LEMMA NeverReversedHolds == AsymmetricSettings /\ IInv => CategoricalNeverReversed
<1> SUFFICES ASSUME AsymmetricSettings, IInv, step = "done", ~rag.panne,
                    NEW i \in DOMAIN claims, rag.verdicts[i].value.confidence = 100
             PROVE  /\ rag.verdicts[i].value.verdict = "LIKELY_TRUE" =>
                          fused[i].verdict # "CONTRADICTED"
                    /\ rag.verdicts[i].value.verdict = "LIKELY_FALSE" =>
                          fused[i].verdict # "SUPPORTED"
  BY DEF CategoricalNeverReversed
<1> DEFINE v == verify_claim_detail(rag.checks[i])
           d == selfcheck.scores[i].value
<1>1. rag.verdicts[i].value = v /\ v.confidence \in Int
  BY OwnCheck
<1>2. d \in Percent
  BY OwnDivergence
<1>3. fused[i] = FusedVerdict(FALSE, v, d)
  BY OwnVerdict
<1>4. v.confidence = 100
  BY <1>1
<1> HIDE DEF v, d
<1>5. PICK e \in Percent : fused[i].verdict = fuse_claim(v, e).verdict
  <2>1. d \in Percent \cup {NoDivergence}
    BY <1>2
  <2>2. PICK e \in Percent : FusedVerdict(FALSE, v, d) =
                 [verdict    |-> fuse_claim(v, e).verdict,
                  confidence |-> Clamp(fuse_claim(v, e).confidence),
                  fondement  |-> fuse_claim(v, e).fondement,
                  evidence   |-> IF fuse_claim(v, e).fondement = "PREUVE_FEVER"
                                 THEN v.evidence ELSE NoEvidence]
    BY <1>1, <2>1, FusedWithoutPanne
  <2> DEFINE c == fuse_claim(v, e)
             ev == IF c.fondement = "PREUVE_FEVER" THEN v.evidence ELSE NoEvidence
  <2>3. fused[i] = [verdict    |-> c.verdict,
                    confidence |-> Clamp(c.confidence),
                    fondement  |-> c.fondement,
                    evidence   |-> ev]
    BY <1>3, <2>2
  <2>4. fused[i].verdict = c.verdict
    <3> HIDE DEF c, ev
    <3> QED
      BY <2>3
  <2> QED
    BY <2>4
<1> QED
  BY <1>1, <1>4, <1>5, CategoricalHolds

(* The evidence shown, from the verdict of the RAG.                         *)
LEMMA EvidenceShown ==
    ASSUME NEW v, v.confidence \in Int, NEW d \in Percent
    PROVE  LET r == FusedVerdict(FALSE, v, d)
           IN  /\ r.fondement = "PREUVE_FEVER" <=> v.verdict \in Fever
               /\ r.evidence = IF v.verdict \in Fever THEN v.evidence ELSE NoEvidence
               /\ v.verdict \in Fever =>
                     v.verdict = IF r.verdict = "SUPPORTED" THEN "FEVER_CONFIRMS"
                                                            ELSE "FEVER_REFUTES"
<1> DEFINE f == fuse_claim(v, d)
           r == FusedVerdict(FALSE, v, d)
           ev == IF f.fondement = "PREUVE_FEVER" THEN v.evidence ELSE NoEvidence
<1>1. r.verdict = f.verdict /\ r.fondement = f.fondement /\ r.evidence = ev
  <2>1. d \in Percent \cup {NoDivergence} /\ d # NoDivergence
    BY DEF Percent, NoDivergence
  <2>2. r = [verdict |-> f.verdict, confidence |-> Clamp(f.confidence),
             fondement |-> f.fondement, evidence |-> ev]
    BY <2>1, FusedWithoutPanne
  <2> HIDE DEF f, ev, r
  <2> QED
    BY <2>2
<1>2. /\ v.verdict = "FEVER_CONFIRMS" =>
            f = Fused("SUPPORTED", <<v.confidence, 100>>, "PREUVE_FEVER")
      /\ v.verdict = "FEVER_REFUTES" =>
            f = Fused("CONTRADICTED", <<v.confidence, 100>>, "PREUVE_FEVER")
      /\ v.verdict \notin Fever => \/ f = SelfCheckAlone(selfcheck_belief(d))
                                   \/ f = Arbitrated(rag_belief(v), selfcheck_belief(d))
  BY DEF fuse_claim, Fever
<1>3. SelfCheckAlone(selfcheck_belief(d)).fondement \in {"CONVICTION", "AUCUN"}
  BY DEF SelfCheckAlone, Fused
<1>4. Arbitrated(rag_belief(v), selfcheck_belief(d)).fondement = "CONVICTION"
  BY DEF Arbitrated, Fused
<1> HIDE DEF f
<1>5. /\ v.verdict = "FEVER_CONFIRMS" => f.verdict = "SUPPORTED" /\ f.fondement = "PREUVE_FEVER"
      /\ v.verdict = "FEVER_REFUTES" => f.verdict = "CONTRADICTED" /\ f.fondement = "PREUVE_FEVER"
      /\ v.verdict \notin Fever => f.fondement # "PREUVE_FEVER"
  BY <1>2, <1>3, <1>4 DEF Fused
<1>6. /\ r.fondement = "PREUVE_FEVER" <=> v.verdict \in Fever
      /\ v.verdict \in Fever => r.evidence = v.evidence
      /\ v.verdict \notin Fever => r.evidence = NoEvidence
      /\ v.verdict = "FEVER_CONFIRMS" => r.verdict = "SUPPORTED"
      /\ v.verdict = "FEVER_REFUTES" => r.verdict = "CONTRADICTED"
  <2> HIDE DEF r
  <2> QED
    BY <1>1, <1>5 DEF Fever
<1> HIDE DEF r
<1>7. v.verdict \in Fever =>
         v.verdict = IF r.verdict = "SUPPORTED" THEN "FEVER_CONFIRMS" ELSE "FEVER_REFUTES"
  BY <1>6 DEF Fever
<1>8. r.evidence = IF v.verdict \in Fever THEN v.evidence ELSE NoEvidence
  BY <1>6
<1> QED
  BY <1>6, <1>7, <1>8 DEF r

LEMMA CitedHolds == OneDigitCitations /\ IInv => ProofIsCited
<1> SUFFICES ASSUME OneDigitCitations, IInv, step = "done", NEW i \in DOMAIN fused
             PROVE  /\ fused[i].evidence # NoEvidence <=> fused[i].fondement = "PREUVE_FEVER"
                    /\ fused[i].evidence # NoEvidence =>
                         LET check == rag.checks[i]
                             Cited == {k \in 1..top_k : /\ check.found[k] # Missing
                                 /\ \E used \in Wrote(check.reply, "used_evidence_index") :
                                       used.type \in {"number", "list"} /\ used.num = k - 1}
                         IN  /\ check.kind = "replied"
                             /\ fused[i].evidence.label # "NOT ENOUGH INFO"
                             /\ files.index = files.metadata =>
                                   \E k \in Cited :
                                      fused[i].evidence = Vectors(files)[check.found[k] + 1]
                             /\ Str(IF fused[i].verdict = "SUPPORTED" THEN "FEVER_CONFIRMS"
                                                                      ELSE "FEVER_REFUTES")
                                   \in Wrote(check.reply, "verdict")
  BY DEF ProofIsCited
<1> DEFINE check == rag.checks[i]
           v == verify_claim_detail(check)
           E == Evidences(check)
<1>1. i \in DOMAIN claims /\ claims \in ClaimLists /\ files \in Loadable
  BY BranchesEnded DEF IInv, ClaimInv, TypeOK
<1>2. CASE rag.panne
  <2>1. fused[i] = FusedVerdict(TRUE, NoRag, selfcheck.scores[i].value)
    BY <1>1, <1>2, OwnVerdict
  <2>2. FusedVerdict(TRUE, NoRag, selfcheck.scores[i].value)
          = [verdict |-> "PANNE", confidence |-> <<0, 1>>,
             fondement |-> "AUCUN", evidence |-> NoEvidence]
    BY FusedPanne
  <2>3. fused[i] = [verdict |-> "PANNE", confidence |-> <<0, 1>>,
                    fondement |-> "AUCUN", evidence |-> NoEvidence]
    BY <2>1, <2>2
  <2>4. fused[i].evidence = NoEvidence /\ fused[i].fondement = "AUCUN"
    BY <2>3
  <2> QED
    BY <2>4
<1>3. CASE ~rag.panne
  <2>1. /\ check \in Checks(claims) /\ check.kind # "error" /\ ~Panne(check)
        /\ v.confidence \in Int
    BY <1>1, <1>3, OwnCheck
  <2>2. fused[i] = FusedVerdict(FALSE, v, selfcheck.scores[i].value)
    BY <1>1, <1>3, OwnVerdict
  <2>3. selfcheck.scores[i].value \in Percent
    BY <1>1, OwnDivergence
  <2>4. /\ fused[i].fondement = "PREUVE_FEVER" <=> v.verdict \in Fever
        /\ fused[i].evidence = IF v.verdict \in Fever THEN v.evidence ELSE NoEvidence
        /\ v.verdict \in Fever =>
              v.verdict = IF fused[i].verdict = "SUPPORTED" THEN "FEVER_CONFIRMS"
                                                            ELSE "FEVER_REFUTES"
    <3> DEFINE d == selfcheck.scores[i].value
               r == FusedVerdict(FALSE, v, d)
    <3>1. v.confidence \in Int /\ d \in Percent /\ fused[i] = r
      BY <2>1, <2>2, <2>3
    <3> HIDE DEF v, d
    <3>2. /\ r.fondement = "PREUVE_FEVER" <=> v.verdict \in Fever
          /\ r.evidence = IF v.verdict \in Fever THEN v.evidence ELSE NoEvidence
          /\ v.verdict \in Fever =>
                v.verdict = IF r.verdict = "SUPPORTED" THEN "FEVER_CONFIRMS"
                                                       ELSE "FEVER_REFUTES"
      BY <3>1, EvidenceShown
    <3> HIDE DEF r
    <3> QED
      BY <3>1, <3>2
  <2>5. CASE v.verdict \notin Fever
    <3> HIDE DEF v, check
    <3> QED
      BY <2>4, <2>5 DEF check
  <2>6. CASE v.verdict \in Fever
    <3>1. E # <<>> => check.kind = "replied" /\ IsReply(check.reply)
      BY <1>1, <2>1, CheckShapes DEF Panne
    <3>2. /\ E # <<>>
          /\ Str(v.verdict) \in Wrote(check.reply, "verdict")
          /\ \E m \in DOMAIN check.reply.members :
             \E used \in {check.reply.members[m].written, check.reply.members[m].cut} :
                /\ check.reply.members[m].key = "used_evidence_index"
                /\ used.type \in {"number", "list"}
                /\ used.num \in 0..(Len(E) - 1)
                /\ v.evidence = E[used.num + 1]
      BY <2>6, <3>1, DetailIsProof
    <3>m. PICK m \in DOMAIN check.reply.members :
             \E used \in {check.reply.members[m].written, check.reply.members[m].cut} :
                /\ check.reply.members[m].key = "used_evidence_index"
                /\ used.type \in {"number", "list"}
                /\ used.num \in 0..(Len(E) - 1)
                /\ v.evidence = E[used.num + 1]
      BY <3>2
    <3>3. PICK used \in {check.reply.members[m].written, check.reply.members[m].cut} :
             /\ check.reply.members[m].key = "used_evidence_index"
             /\ used.type \in {"number", "list"}
             /\ used.num \in 0..(Len(E) - 1)
             /\ v.evidence = E[used.num + 1]
      BY <3>m
    <3>4. check.kind = "replied" /\ check.found \in Found(claims, files)
          /\ check.reply \in Replies(claims, files)
      BY <2>1, <3>1, <3>2 DEF Checks
    <3>5. used \in Wrote(check.reply, "used_evidence_index")
      <4>1. check.reply.members[m].cut = check.reply.members[m].written
        BY <1>1, <3>3, <3>4 DEF OneDigitCitations
      <4>2. used = check.reply.members[m].written
        BY <3>3, <4>1
      <4> QED
        BY <3>3, <4>2 DEF Wrote
    <3> DEFINE k == used.num + 1
    <3>6. /\ DOMAIN E = 1..Len(E) /\ Len(E) \in 0..top_k
          /\ \A n \in DOMAIN E : E[n].label \in {"SUPPORTS", "REFUTES"}
          /\ files.index = files.metadata =>
                \A n \in DOMAIN E : /\ n \in 1..top_k /\ check.found[n] # Missing
                                    /\ E[n] = Vectors(files)[check.found[n] + 1]
      BY <1>1, <3>4, RetrievedLines DEF Evidences
    <3>7. k \in DOMAIN E /\ used.num = k - 1
      <4>1. Len(E) \in Nat
        BY <3>6 DEF top_k
      <4> HIDE DEF E
      <4> QED
        BY <3>3, <3>6, <4>1
    <3>8. fused[i].evidence = E[k]
      BY <2>4, <2>6, <3>3
    <3>9. fused[i].evidence.label \in {"SUPPORTS", "REFUTES"}
      BY <3>6, <3>7, <3>8
    <3>10. fused[i].evidence # NoEvidence
      BY <3>9 DEF NoEvidence
    <3>11. Str(IF fused[i].verdict = "SUPPORTED" THEN "FEVER_CONFIRMS" ELSE "FEVER_REFUTES")
              \in Wrote(check.reply, "verdict")
      BY <2>4, <2>6, <3>2
    <3> HIDE DEF E, v, k
    <3>12. ASSUME files.index = files.metadata
           PROVE  /\ k \in 1..top_k /\ check.found[k] # Missing
                  /\ fused[i].evidence = Vectors(files)[check.found[k] + 1]
      BY <3>6, <3>7, <3>8, <3>12
    <3> QED
      BY <2>4, <2>6, <3>3, <3>4, <3>5, <3>7, <3>9, <3>10, <3>11, <3>12
  <2> QED
    BY <2>5, <2>6
<1>4. rag.panne \in BOOLEAN
  BY BranchesEnded
<1> QED
  BY <1>2, <1>3, <1>4

LEMMA HeardCheck ==
    ASSUME IInv, step = "done", ~rag.panne,
           NEW i \in {c \in DOMAIN claims : Heard(rag.checks[c])}
    PROVE  /\ i \in DOMAIN claims /\ Evidences(rag.checks[i]) # <<>>
           /\ IsReply(rag.checks[i].reply)
           /\ rag.verdicts[i].value = verify_claim_detail(rag.checks[i])
<1> DEFINE check == rag.checks[i]
<1>1. /\ i \in DOMAIN claims /\ claims \in ClaimLists /\ files \in Loadable
      /\ Evidences(check) # <<>>
  BY DEF IInv, ClaimInv, TypeOK, Heard
<1>2. /\ check \in Checks(claims) /\ check.kind # "error" /\ ~Panne(check)
      /\ rag.verdicts[i].value = verify_claim_detail(check)
  BY <1>1, OwnCheck
<1>3. IsReply(check.reply)
  BY <1>1, <1>2, CheckShapes DEF Panne
<1> QED
  BY <1>1, <1>2, <1>3

LEMMA HeardHolds == IInv => JudgeIsHeard
<1> SUFFICES ASSUME IInv, step = "done", ~rag.panne,
                    NEW i \in {c \in DOMAIN claims : Heard(rag.checks[c])},
                    rag.checks[i].reply.prose # "brace"
             PROVE  AsWritten(i)
  BY DEF JudgeIsHeard
<1> DEFINE check == rag.checks[i]
<1>1. /\ i \in DOMAIN claims /\ Evidences(check) # <<>>
      /\ IsReply(check.reply)
      /\ rag.verdicts[i].value = verify_claim_detail(check)
  BY HeardCheck
<1>2. Reading(check) = FieldsDue(check.reply)
  BY <1>1, ReadingIsDue DEF Reading
<1> QED
  BY <1>1, <1>2 DEF verify_claim_detail, AsWritten

(* Behind a brace nothing is heard, however complete the reply is.          *)
HiddenIsIgnorance ==
    (step = "done" /\ ~rag.panne) =>
        \A i \in {c \in DOMAIN claims : Heard(rag.checks[c])} :
            rag.checks[i].reply.prose = "brace" => rag.verdicts[i].value = DontKnow

LEMMA HiddenHolds == IInv => HiddenIsIgnorance
<1> SUFFICES ASSUME IInv, step = "done", ~rag.panne,
                    NEW i \in {c \in DOMAIN claims : Heard(rag.checks[c])},
                    rag.checks[i].reply.prose = "brace"
             PROVE  rag.verdicts[i].value = DontKnow
  BY DEF HiddenIsIgnorance
<1> DEFINE check == rag.checks[i]
           E == Evidences(check)
<1>1. /\ E # <<>> /\ IsReply(check.reply)
      /\ rag.verdicts[i].value = verify_claim_detail(check)
  BY HeardCheck
<1>2. Reading(check) = NoFields
  BY <1>1, BraceReading DEF Reading
<1>3. FieldOf(NoFields, "verdict", Null) = Null /\ FieldOf(NoFields, "confidence", Num(0)) = Num(0)
  BY DEF FieldOf, NoFields
<1>4. RAG_VERDICT_TO_JUDGMENT(Null) = "I_DONT_KNOWN"
  BY DEF RAG_VERDICT_TO_JUDGMENT, Null, Value
<1>5. Num(0).num = 0 /\ "I_DONT_KNOWN" \notin Fever
  BY DEF Num, Value, Fever
<1>6. Judged(NoFields, E) = DontKnow
  <2> HIDE DEF E
  <2> QED
    BY <1>3, <1>4, <1>5 DEF Judged, DontKnow
<1> QED
  BY <1>1, <1>2, <1>6 DEF verify_claim_detail

-------------------------------------------------------------------------------
(***************************************************************************)
(* No branch is at work once the `with` of the two threads is left.         *)
(***************************************************************************)
LEMMA AtWorkInit == Init => NoBranchLeftBehind
  BY DEF Init, NoBranchLeftBehind

LEMMA AtWorkNext == IInv /\ NoBranchLeftBehind /\ [Next]_vars => NoBranchLeftBehind'
<1> SUFFICES ASSUME IInv, NoBranchLeftBehind, [Next]_vars PROVE NoBranchLeftBehind'
  OBVIOUS
<1> USE DEF NoBranchLeftBehind, Busy
<1>1. CASE generate_answer \/ extract_claims
  BY <1>1 DEF generate_answer, extract_claims, Branch, IInv, ControlInv
<1>2. CASE RagBranch \/ SampleBranch \/ ScoreBranch
  BY <1>2 DEF RagBranch, SampleBranch, ScoreBranch
<1>3. CASE JoinRag \/ JoinSelfcheck
  BY <1>3 DEF JoinRag, JoinSelfcheck
<1>4. CASE Leave \/ fuse
  BY <1>4 DEF Leave, fuse
<1>5. CASE UNCHANGED vars
  BY <1>5 DEF vars
<1> QED
  BY <1>1, <1>2, <1>3, <1>4, <1>5 DEF Next, Work, Done

-------------------------------------------------------------------------------
(***************************************************************************)
(* The theorems.                                                            *)
(***************************************************************************)
(* Every variable keeps its shape, and the two loaded files are those of    *)
(* one build or of two in a row.                                            *)
THEOREM TypeCorrect == Spec => []TypeOK
  BY Invariant, PTL DEF IInv

(* `compute_signals` comes out of its `with`, by a result or an exception,  *)
(* only when neither thread works on the question any more.                 *)
THEOREM BranchesAreLeft == Spec => []NoBranchLeftBehind
  BY Invariant, AtWorkInit, AtWorkNext, PTL DEF Spec

(* R1: the failure of the RAG on one claim is the verdict on all of them,   *)
(* for any number of claims and wherever it failed; without it each claim   *)
(* is judged.                                                               *)
THEOREM PanneOnAll == Spec => []PanneIsTotal
  BY Invariant, PanneHolds, PTL

(* The scores of the two branches meet by claim_id: each claim is fused     *)
(* with what was found about itself, for any list an extraction renders.    *)
THEOREM VerdictsAreOwn == Spec => []VerdictIsOwn
  BY Invariant, OwnHolds, PTL

(* R3, R4 and R5 announce confidences on one scale, for any numbers of the  *)
(* judge and any settings that keep to what params.py explains.             *)
THEOREM ConfidencesCompare ==
    ASSUME ComparableSettings
    PROVE  Spec => []ConfidenceIsComparable
<1>1. IInv => ConfidenceIsComparable
  BY ComparableHolds
<1> QED
  BY <1>1, Invariant, PTL

(* Wherever a reply is cut or broken and whatever follows its object, the   *)
(* code reads the fields received of it, all of them and no other, and the  *)
(* verdict is theirs, when no brace stands before the object. When one      *)
(* does, no field is read, even of a complete object, and the verdict of    *)
(* the judge becomes an ignorance: see JudgeIsHeardInAnyProse.              *)
THEOREM JudgesAreHeard == Spec => [](JudgeIsHeard /\ HiddenIsIgnorance)
  BY Invariant, HeardHolds, HiddenHolds, PTL

(* SelfCheck brings a categorical judgment of the RAG down to undecided at  *)
(* most, for any weights that keep to what params.py explains.              *)
THEOREM CategoricalStands ==
    ASSUME AsymmetricSettings
    PROVE  Spec => []CategoricalNeverReversed
<1>1. IInv => CategoricalNeverReversed
  BY NeverReversedHolds
<1> QED
  BY <1>1, Invariant, PTL

(* A verdict shown as proved by FEVER is what the judge wrote about an      *)
(* excerpt it cited, whatever broke in its reply, and an excerpt of the     *)
(* index is the text of the vector found when both files are of one build.  *)
THEOREM ProofsAreCited ==
    ASSUME OneDigitCitations
    PROVE  Spec => []ProofIsCited
<1>1. IInv => ProofIsCited
  BY CitedHolds
<1> QED
  BY <1>1, Invariant, PTL

(* The steps that a question may still take: six of the calling thread, one *)
(* of the RAG branch, two of SelfCheck's.                                   *)
CallerLeft == CASE step = "answer"                   -> 6
                [] step = "extract"                  -> 5
                [] step = "join_rag"                 -> 4
                [] step = "join_selfcheck"           -> 3
                [] step = "leave"                    -> 2
                [] step \in {"leave_raising", "fuse"} -> 1
                [] OTHER                             -> 0
RagLeft == IF rag.state \in {"idle", "running"} THEN 1 ELSE 0
SelfcheckLeft == CASE selfcheck.state \in {"idle", "sampling"} -> 2
                   [] selfcheck.state = "scoring"              -> 1
                   [] OTHER                                    -> 0
StepsLeft == CallerLeft + RagLeft + SelfcheckLeft

LEMMA LeftType ==
    /\ CallerLeft \in 0..6 /\ RagLeft \in 0..1 /\ SelfcheckLeft \in 0..2
    /\ CallerLeft' \in 0..6 /\ RagLeft' \in 0..1 /\ SelfcheckLeft' \in 0..2
  BY DEF CallerLeft, RagLeft, SelfcheckLeft

LEMMA LeftSum == /\ StepsLeft = CallerLeft + RagLeft + SelfcheckLeft
                 /\ StepsLeft' = CallerLeft' + RagLeft' + SelfcheckLeft'
  BY DEF StepsLeft, CallerLeft, RagLeft, SelfcheckLeft

LEMMA WorkForward == ASSUME IInv, Work PROVE StepsLeft' < StepsLeft
<1>a. PICK c \in 0..6, r \in 0..1, s \in 0..2 :
         c = CallerLeft /\ r = RagLeft /\ s = SelfcheckLeft
  BY LeftType
<1>b. PICK x \in 0..6, y \in 0..1, z \in 0..2 :
         x = CallerLeft' /\ y = RagLeft' /\ z = SelfcheckLeft'
  BY LeftType
<1>c. x + y + z < c + r + s => StepsLeft' < StepsLeft
  BY <1>a, <1>b, LeftSum
<1>1. CASE generate_answer
  <2>1. CallerLeft' < CallerLeft
    BY <1>1 DEF generate_answer, CallerLeft
  <2> QED
    BY <1>1, <2>1, <1>a, <1>b, <1>c DEF generate_answer, RagLeft, SelfcheckLeft
<1>2. CASE extract_claims
  <2>1. CallerLeft' < CallerLeft
    BY <1>2 DEF extract_claims, Branch, CallerLeft
  <2>2. RagLeft = 1 /\ SelfcheckLeft = 2
    BY <1>2 DEF extract_claims, IInv, ControlInv, RagLeft, SelfcheckLeft
  <2>3. x < c /\ y <= r /\ z <= s
    BY <2>1, <2>2, <1>a, <1>b
  <2> QED
    BY <2>3, <1>c
<1>3. CASE RagBranch
  <2>1. rag.state = "running" /\ rag'.state \in {"ended", "raised"}
    BY <1>3 DEF RagBranch, verify_claims
  <2>2. RagLeft = 1 /\ RagLeft' = 0
    BY <2>1 DEF RagLeft
  <2> QED
    BY <1>3, <2>2, <1>a, <1>b, <1>c DEF RagBranch, CallerLeft, SelfcheckLeft
<1>4. CASE SampleBranch
  <2>1. selfcheck.state = "sampling" /\ selfcheck'.state \in {"ended", "scoring", "raised"}
    BY <1>4 DEF SampleBranch, IInv, SelfcheckInv
  <2>2. SelfcheckLeft' < SelfcheckLeft
    BY <2>1 DEF SelfcheckLeft
  <2> QED
    BY <1>4, <2>2, <1>a, <1>b, <1>c DEF SampleBranch, CallerLeft, RagLeft
<1>5. CASE ScoreBranch
  <2>1. selfcheck.state = "scoring" /\ selfcheck'.state \in {"ended", "raised"}
    BY <1>5 DEF ScoreBranch, IInv, SelfcheckInv
  <2>2. SelfcheckLeft' < SelfcheckLeft
    BY <2>1 DEF SelfcheckLeft
  <2> QED
    BY <1>5, <2>2, <1>a, <1>b, <1>c DEF ScoreBranch, CallerLeft, RagLeft
<1>6. CASE JoinRag \/ JoinSelfcheck \/ Leave \/ fuse
  <2>1. CallerLeft' < CallerLeft
    BY <1>6 DEF JoinRag, JoinSelfcheck, Leave, fuse, CallerLeft
  <2>2. RagLeft' = RagLeft /\ SelfcheckLeft' = SelfcheckLeft
    BY <1>6 DEF JoinRag, JoinSelfcheck, Leave, fuse, RagLeft, SelfcheckLeft
  <2>3. x < c /\ y <= r /\ z <= s
    BY <2>1, <2>2, <1>a, <1>b
  <2> QED
    BY <2>3, <1>c
<1> QED
  BY <1>1, <1>2, <1>3, <1>4, <1>5, <1>6 DEF Work

(* A question takes nine steps at most, however many claims it has and      *)
(* whatever fails: no branch is run again after a failure, and the calling  *)
(* thread never goes back.                                                  *)
THEOREM QuestionGoesForward ==
    Spec => [](StepsLeft \in 0..9) /\ [][StepsLeft' < StepsLeft]_vars
<1>1. StepsLeft \in 0..9
  BY LeftType DEF StepsLeft
<1>2. IInv /\ [Next]_vars => [StepsLeft' < StepsLeft]_vars
  BY WorkForward DEF Next, Done
<1> QED
  BY <1>1, <1>2, Invariant, PTL DEF Spec
===============================================================================
