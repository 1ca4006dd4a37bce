------------------------------ MODULE MCDatasets ------------------------------
(* Model-checking instances of Datasets: three lines in each dataset, of     *)
(* which one question is in both. The permutation is a rotation.             *)
EXTENDS Datasets

Line(q, right, wrong) == [question |-> q, right |-> right, wrong |-> wrong]
MCLines == [halueval   |-> <<Line(3, 1, 1), Line(1, 1, 1), Line(5, 1, 1)>>,
            truthfulqa |-> <<Line(4, 1, 2), Line(2, 0, 1), Line(3, 1, 1)>>]
MCPlace == [n \in 1..6 |-> [i \in 1..n |-> 1 + ((i + 1) % n)]]
MCTrainSize(n, percent) == (n * percent) \div 100
MCBoth == {KNOWN_DATASETS}
MCSettings == {KNOWN_DATASETS, {"halueval"}, {"truthfulqa"}}
MCOneRatio == {60}
MCRatios == {40, 70}
===============================================================================
