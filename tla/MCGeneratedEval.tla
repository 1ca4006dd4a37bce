---------------------------- MODULE MCGeneratedEval ----------------------------
(***************************************************************************)
(* Instances of GeneratedEval: one process works on both questions, another *)
(* on the first; purges with this scope's own values in any combination, or *)
(* the documented purge of another dataset of the same model.               *)
(***************************************************************************)
EXTENDS GeneratedEval

MCSlice == [p \in Evaluators |-> IF p = "w1" THEN <<0, 2>> ELSE <<0, 1>>]

Columns == {"dataset", "ratio", "model_id", "pipeline_version", "generation_version",
            "eval_version", "judge_model"}
OwnPurges == [scope : {"all", "results", "matrices", "fusion"},
              filters : UNION {[C -> {"own"}] : C \in SUBSET Columns}]
OtherDataset == {[scope |-> "all", filters |-> [dataset |-> "other", model_id |-> "own"]]}
===============================================================================
