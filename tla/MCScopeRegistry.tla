---------------------------- MODULE MCScopeRegistry ----------------------------
(***************************************************************************)
(* Instances of ScopeRegistry: a command and a service, whose scopes differ *)
(* by their table or by their dataset.                                      *)
(***************************************************************************)
EXTENDS ScopeRegistry

Key(t, d) == [c \in ColumnsOf(t) |-> IF c = "dataset" THEN d ELSE "own"]
Doc(t, d, q) == [scope |-> [table |-> t, key |-> Key(t, d)], question |-> q]

MCRows == {Doc("eval_predictions", "halueval", 1), Doc("eval_predictions", "halueval", 2),
           Doc("eval_signals", "halueval", 1)}
MCCalls == [p \in Processes |-> IF p = "command" THEN {"push"} ELSE {"model"}]
MCConcurrency == [p \in Processes |-> IF p = "service" THEN 2 ELSE 1]
MCPurges == {[scope |-> "all", filters |-> [dataset |-> "halueval", judge_model |-> "other"]],
             [scope |-> "fusion", filters |-> << >>]}

(* A command that runs the baseline of mode 2, one question.                *)
BaselineRows == {Doc("eval_baseline_generated", "halueval", 1)}
BaselineCalls == [p \in Processes |-> {"baseline"}]
===============================================================================
