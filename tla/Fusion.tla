-------------------------------- MODULE Fusion --------------------------------
(***************************************************************************)
(* The fusion rules of berlue/pipeline/fusion.py (R1 to R5) as operators.   *)
(*                                                                          *)
(* Quantities between 0 and 1 are integer percentages. A belief on the      *)
(* false <-> true axis is an integer between 0 and Unit == 2 * HALF, where  *)
(* HALF is a common multiple that keeps both half-lines of                  *)
(* `selfcheck_belief` exact; a score and a confidence are fractions         *)
(* <<numerator, denominator>>. The model is exact where the code rounds in  *)
(* floating point.                                                          *)
(*                                                                          *)
(* RawScoreConfidence and EitherBound are mutated forms of the definition   *)
(* that follows each: no specification uses them, they show which property  *)
(* notices the mistake.                                                     *)
(***************************************************************************)
EXTENDS Integers

CONSTANTS
    FUSION_WEIGHT_RAG, FUSION_WEIGHT_SELFCHECK_CHARGE,
    FUSION_WEIGHT_SELFCHECK_DECHARGE, FUSION_DIVERGENCE_NEUTRE,
    FUSION_BANDE_RAG_MIN, FUSION_BANDE_RAG_MAX,
    FUSION_SELFCHECK_SEUIL_HAUT, FUSION_SELFCHECK_SEUIL_BAS,
    FUSION_DECOTE_SIGNAL_SEUL, FUSION_SEUIL_FAUX, FUSION_SEUIL_VRAI,
    DEAD_ZONE,
    HALF                    \* the neutral belief 0.5, in belief units

Percent == 0..100

(* params.py reads the settings from the environment: any percentages, with *)
(* a neutral point off the ends of the axis and a RAG weight that is not 0. *)
ASSUME FusionAssumption ==
    /\ FUSION_WEIGHT_RAG \in Percent \ {0}
    /\ FUSION_WEIGHT_SELFCHECK_CHARGE \in Percent
    /\ FUSION_WEIGHT_SELFCHECK_DECHARGE \in Percent
    /\ FUSION_DIVERGENCE_NEUTRE \in 1..99
    /\ FUSION_BANDE_RAG_MIN \in Percent /\ FUSION_BANDE_RAG_MAX \in Percent
    /\ FUSION_SELFCHECK_SEUIL_HAUT \in Percent
    /\ FUSION_SELFCHECK_SEUIL_BAS \in Percent
    /\ FUSION_DECOTE_SIGNAL_SEUL \in Percent
    /\ FUSION_SEUIL_FAUX \in Percent /\ FUSION_SEUIL_VRAI \in Percent
    /\ DEAD_ZONE \in Percent
    /\ HALF \in Nat \ {0}
    /\ \A k \in {100, FUSION_DIVERGENCE_NEUTRE, 100 - FUSION_DIVERGENCE_NEUTRE} :
          HALF = k * (HALF \div k)

Unit == 2 * HALF

Judgments == {"FEVER_CONFIRMS", "FEVER_REFUTES",
              "LIKELY_TRUE", "LIKELY_FALSE", "I_DONT_KNOWN"}

(* `None` where the code has no Evidence, or no RagVerdict for the claim. *)
NoEvidence == [label |-> "None"]
NoRag == [verdict |-> "None", confidence |-> 0, evidence |-> NoEvidence]

Fever == {"FEVER_CONFIRMS", "FEVER_REFUTES"}

rag_belief(rag) ==
    CASE rag.verdict = "LIKELY_TRUE"  -> HALF + rag.confidence * (HALF \div 100)
      [] rag.verdict = "LIKELY_FALSE" -> HALF - rag.confidence * (HALF \div 100)
      [] OTHER                        -> HALF

selfcheck_belief(divergence) ==
    LET d0 == FUSION_DIVERGENCE_NEUTRE
    IN  IF divergence <= d0
        THEN HALF + (HALF \div d0) * (d0 - divergence)
        ELSE HALF - (HALF \div (100 - d0)) * (divergence - d0)

Below(belief, percent) == 100 * belief < percent * Unit
Above(belief, percent) == 100 * belief > percent * Unit

Distance(belief) == IF belief >= HALF THEN belief - HALF ELSE HALF - belief

_direction(belief) == IF Below(Distance(belief), DEAD_ZONE) THEN 0
                      ELSE IF belief > HALF THEN 1 ELSE -1

SelfCheckWeight(sc) == IF sc < HALF THEN FUSION_WEIGHT_SELFCHECK_CHARGE
                                    ELSE FUSION_WEIGHT_SELFCHECK_DECHARGE

(* The arbitrated score, a fraction: between 0 and 1 when both beliefs are. *)
Score(belief, sc) ==
    <<FUSION_WEIGHT_RAG * belief + SelfCheckWeight(sc) * sc,
      (FUSION_WEIGHT_RAG + SelfCheckWeight(sc)) * Unit>>

_classify(score) ==
    IF 100 * score[1] < FUSION_SEUIL_FAUX * score[2] THEN "CONTRADICTED"
    ELSE IF 100 * score[1] > FUSION_SEUIL_VRAI * score[2] THEN "SUPPORTED"
    ELSE "NOT_ENOUGH_INFO"

RawScoreConfidence(verdict, score) ==
    IF verdict = "NOT_ENOUGH_INFO" THEN <<0, 1>> ELSE score

_confidence(verdict, score) ==
    CASE verdict = "SUPPORTED"    -> score
      [] verdict = "CONTRADICTED" -> <<score[2] - score[1], score[2]>>
      [] OTHER                    -> <<0, 1>>

Fused(verdict, confidence, fondement) ==
    [verdict |-> verdict, confidence |-> confidence, fondement |-> fondement]

(* R3: the RAG does not conclude, SelfCheck decides alone at its extremes. *)
SelfCheckAlone(sc) ==
    IF Above(sc, FUSION_SELFCHECK_SEUIL_HAUT) \/ Below(sc, FUSION_SELFCHECK_SEUIL_BAS)
    THEN Fused(IF Above(sc, FUSION_SELFCHECK_SEUIL_HAUT)
               THEN "SUPPORTED" ELSE "CONTRADICTED",
               <<100 * HALF + Distance(sc) * FUSION_DECOTE_SIGNAL_SEUL, 100 * Unit>>,
               "CONVICTION")
    ELSE Fused("NOT_ENOUGH_INFO", <<0, 1>>, "AUCUN")

EitherBound(belief) == \/ ~Below(belief, FUSION_BANDE_RAG_MIN)
                       \/ ~Above(belief, FUSION_BANDE_RAG_MAX)

InBand(belief) == /\ ~Below(belief, FUSION_BANDE_RAG_MIN)
                  /\ ~Above(belief, FUSION_BANDE_RAG_MAX)

(* R4 when both signals lean the same way, R5 otherwise. *)
Arbitrated(belief, sc) ==
    LET score   == Score(belief, sc)
        lean    == _direction(belief)
        verdict == IF lean # 0 /\ lean = _direction(sc)
                   THEN IF lean > 0 THEN "SUPPORTED" ELSE "CONTRADICTED"
                   ELSE _classify(score)
    IN  Fused(verdict, _confidence(verdict, score), "CONVICTION")

fuse_claim(rag, divergence) ==
    LET sc     == selfcheck_belief(divergence)
        belief == rag_belief(rag)
    IN  CASE rag.verdict = "FEVER_CONFIRMS" ->
                Fused("SUPPORTED", <<rag.confidence, 100>>, "PREUVE_FEVER")
          [] rag.verdict = "FEVER_REFUTES" ->
                Fused("CONTRADICTED", <<rag.confidence, 100>>, "PREUVE_FEVER")
          [] rag.verdict \notin Fever /\ InBand(belief) -> SelfCheckAlone(sc)
          [] OTHER -> Arbitrated(belief, sc)

(* `min(max(confidence, 0.0), 1.0)`: the judge LLM's confidence is any      *)
(* number.                                                                  *)
Clamp(f) == IF f[1] < 0 THEN <<0, 1>>
            ELSE IF f[1] > f[2] THEN <<1, 1>> ELSE f

(* What params.py explains beside the settings, and nothing checks when the *)
(* environment changes one: the thresholds are symmetrical at worst, a firm *)
(* signal of one side alone is worth the threshold of the arbitrated score, *)
(* and SelfCheck does not weigh enough to reverse a categorical RAG.        *)
ComparableSettings ==
    /\ FUSION_SEUIL_FAUX + FUSION_SEUIL_VRAI <= 100
    /\ FUSION_SEUIL_VRAI <= 50 + DEAD_ZONE
    /\ 50 \in FUSION_SELFCHECK_SEUIL_BAS..FUSION_SELFCHECK_SEUIL_HAUT
    /\ \A seuil \in {FUSION_SELFCHECK_SEUIL_HAUT - 50, 50 - FUSION_SELFCHECK_SEUIL_BAS} :
          100 * FUSION_SEUIL_VRAI <= 5000 + seuil * FUSION_DECOTE_SIGNAL_SEUL

AsymmetricSettings ==
    LET W == FUSION_WEIGHT_RAG
        C == FUSION_WEIGHT_SELFCHECK_CHARGE
        D == FUSION_WEIGHT_SELFCHECK_DECHARGE
    IN  /\ 0 < FUSION_BANDE_RAG_MIN /\ FUSION_BANDE_RAG_MAX < 100
        /\ FUSION_SEUIL_FAUX * (W + C) <= 100 * W      \* a RAG that says "true"
        /\ FUSION_SEUIL_FAUX * (W + D) <= 100 * W + 50 * D
        /\ 50 * C <= FUSION_SEUIL_VRAI * (W + C)       \* one that says "false"
        /\ 100 * D <= FUSION_SEUIL_VRAI * (W + D)

NoDivergence == -1          \* no SelfCheck score for the claim

(* What `do_fusion` renders for one claim: R1, then fuse_claim, the clamp   *)
(* and the evidence, kept for FEVER proofs only.                            *)
FusedVerdict(panne, rag, divergence) ==
    IF panne
    THEN [verdict |-> "PANNE", confidence |-> <<0, 1>>,
          fondement |-> "AUCUN", evidence |-> NoEvidence]
    ELSE LET f == fuse_claim(rag, IF divergence = NoDivergence
                                  THEN FUSION_DIVERGENCE_NEUTRE
                                  ELSE divergence)
         IN  [verdict |-> f.verdict, confidence |-> Clamp(f.confidence),
              fondement |-> f.fondement,
              evidence |-> IF f.fondement = "PREUVE_FEVER" THEN rag.evidence
                                                           ELSE NoEvidence]
===============================================================================
