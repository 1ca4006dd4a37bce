------------------------------- MODULE MCEvalRun -------------------------------
(***************************************************************************)
(* Instances of EvalRun: two examples, a claim that the shipped settings    *)
(* decide and the others leave undecided, and one that is always red.       *)
(***************************************************************************)
EXTENDS EvalRun

MCStatus(st, c) == IF c = "wrong" THEN "red"
                   ELSE IF st = "shipped" THEN "green" ELSE "orange"

MCTruth == [e \in 1..NExamples |-> e % 2 = 1]

(* Example 1 is shared by the two processes, the others are w1's alone. *)
MCSlice == [w \in Workers |-> IF w = "w1" THEN <<0, NExamples>> ELSE <<0, 1>>]
===============================================================================
