------------------------------ MODULE MCPipeline ------------------------------
(***************************************************************************)
(* Model-checking instance of Pipeline: the settings berlue/params.py       *)
(* ships, up to two claims, possibly of the same text. The first text meets *)
(* complete replies on whole grids of confidences and divergences when it   *)
(* is the only claim, the second one every broken or strange reply; two     *)
(* claims meet a few of each.                                               *)
(*                                                                          *)
(* The grids of confidences and divergences straddle every threshold.       *)
(* Divergences on which a score falls exactly ON one (0.10, 0.20, 0.35,     *)
(* 0.80) are left out: floating point breaks those ties either way, and a   *)
(* mean of softmax outputs does not hit them.                               *)
(***************************************************************************)
EXTENDS Pipeline

CONSTANTS t1, t2

(* The settings params.py ships keep the promises it explains beside them.  *)
ASSUME ShippedSettings == ComparableSettings /\ AsymmetricSettings

MCTexts == {t1, t2}

Reply(prose, members, upto, end) ==
    [prose |-> prose, members |-> members, upto |-> upto, end |-> end]

Verdict(v)    == Field("verdict", v)
Confidence(c) == Field("confidence", Num(c))
Cites(v)      == Field("used_evidence_index", v)
Reasoning     == Field("reasoning", Str("text"))

Whole(members) == Reply("plain", members, 0, "whole")

(* Complete replies: what is judged, on the whole grid of confidences.      *)
Announced == {-20, 150} \cup {5 * k : k \in 0..20} \cup {19, 21, 22, 39, 41}

Judgment(v, c, used) == Whole(<<Reasoning, Cites(used), Verdict(Str(v)), Confidence(c)>>)

Convictions == {Judgment(v, c, Null) : v \in {"LIKELY_TRUE", "LIKELY_FALSE"}, c \in Announced}

Proofs == {Judgment(v, c, used) : v \in Fever, c \in {-20, 90, 150},
              used \in {Null, Num(0), Num(2), Num(3), Num(-1), ListOf(1), Bool(100)}}

(* Replies cut, broken or strange, in both orders of the fields.            *)
Layouts ==
    {<<Reasoning, Cites(Num(0)), Verdict(Str("FEVER_REFUTES")),
       Member("confidence", Num(95), Num(90))>>,
     <<Verdict(Str("LIKELY_TRUE")), Member("confidence", Num(100), Num(0)),
       Verdict(Str("FEVER_CONFIRMS")), Cites(ListOf(0))>>}

Broken == {Reply(prose, members, upto, end) :
              prose \in {"plain", "brace"}, members \in Layouts,
              upto \in 2..16, end \in {"cut", "half", "mistake"}}

(* A complete reply, behind a brace that opens no object.                   *)
Wordy == Reply("brace", <<Reasoning, Cites(Num(0)), Verdict(Str("FEVER_REFUTES")), Confidence(95)>>,
               0, "whole")

Strange == {Whole(<<>>), Whole(<<Verdict(Object)>>), Whole(<<Verdict(Null)>>),
            Whole(<<Verdict(ListOf(0)), Confidence(80)>>),
            Whole(<<Verdict(Str("SUPPORTS")), Confidence(80)>>),
            Whole(<<Verdict(Str("LIKELY_TRUE")), Field("confidence", Null)>>),
            Whole(<<Verdict(Str("LIKELY_FALSE")), Field("confidence", Bool(100))>>),
            Whole(<<Verdict(Str("LIKELY_FALSE")), Field("confidence", Bool(0))>>),
            Whole(<<Verdict(Str("FEVER_REFUTES")), Cites(Num(0)), Field("confidence", Numeral(90))>>),
            Whole(<<Verdict(Str("LIKELY_TRUE")), Field("confidence", Str("high"))>>),
            Whole(<<Verdict(Str("FEVER_CONFIRMS")), Cites(EmptyList)>>), Wordy}

MCReplies(cs, loaded) ==
    CASE Len(cs) = 1 /\ cs[1].text = t1        -> Convictions
      [] Len(cs) = 1 /\ cs[1].text # t1        ->
            IF loaded = [index |-> 1, metadata |-> 1] THEN Proofs \cup Broken \cup Strange
                                                      ELSE Proofs
      [] OTHER                                 ->
            {Judgment("FEVER_CONFIRMS", 90, Num(0)), Judgment("FEVER_REFUTES", 90, Num(1)),
             Judgment("LIKELY_FALSE", 100, Null), Whole(<<Verdict(Object)>>)}

(* Two builds: the second corpus keeps one line only.                       *)
Line(id, label) == [id |-> id, label |-> label]
MCBuilds == << <<Line(1, "SUPPORTS"), Line(2, "NOT ENOUGH INFO"), Line(3, "REFUTES"),
                 Line(4, "REFUTES"), Line(-1, "SUPPORTS"), Line(5, "SUPPORTS")>>,
               <<Line(2, "NOT ENOUGH INFO"), Line(3, "REFUTES")>> >>

(* The grids and the pairs of claims meet files of one build, two claims    *)
(* the vectors of the second one with the texts of the first too.           *)
MCSearches(cs, loaded) ==
    LET from == <<loaded.index, loaded.metadata>> IN
    CASE cs = <<>> \/ from = <<1, 1>>                       -> {<<0, 2, 1>>}
      [] Len(cs) = 1 /\ cs[1].text = t2 /\ from = <<1, 2>> -> {<<0, 2, 1>>, <<3, 1, 2>>}
      [] Len(cs) = 1 /\ cs[1].text = t2 /\ from[1] = 2     -> {<<0, -1, -1>>}
      [] Len(cs) = 2 /\ from = <<2, 1>>                     -> {<<0, -1, -1>>}
      [] OTHER                                              -> {}

MCDivergences(cs) ==
    IF Len(cs) = 1 /\ cs[1].text = t1
    THEN ({5 * j : j \in 0..20} \ {10, 20, 35, 80})
         \cup {2, 11, 19, 21, 34, 49, 51, 66, 79, 81}
    ELSE {5, 60, 95}

ASSUME CitationsAssumption == OneDigitCitations
===============================================================================
