----------------------------- MODULE MCPredictCache -----------------------------
(***************************************************************************)
(* Instances of PredictCache: a small, a big and an unreadable tag, and     *)
(* demands that are smaller, bigger and incomparable to one another.        *)
(***************************************************************************)
EXTENDS PredictCache

MCTags == {"3b", "8b", "latest"}
MCSize == [t \in MCTags |-> CASE t = "3b" -> 3 [] t = "8b" -> 8 [] OTHER -> NoSize]
MCDemands == {<<"3b", "3b", "3b">>, <<"8b", "3b", "3b">>, <<"latest", "3b", "8b">>}

MCOn == [r \in Requests |-> IF r = "r1" THEN "gcp" ELSE "local"]
================================================================================
