----------------------------- MODULE WriteOnceTable -----------------------------
(***************************************************************************)
(* What a table of individual results promises (docs/evaluation/storage.md, *)
(* `INSERT OR IGNORE` of berlue/evaluation/result_store.py): a row, once    *)
(* written, keeps its value whoever computes it again; it only disappears   *)
(* by a purge, and whole rows at a time.                                    *)
(***************************************************************************)
CONSTANTS Keys,             \* the keys of the table
          Values,           \* what a row may hold
          NoRow             \* absence of a row

VARIABLE table

Init == table \in [Keys -> Values \cup {NoRow}]

Insert(k, v) == /\ table[k] = NoRow
                /\ table' = [table EXCEPT ![k] = v]

Delete(K) == table' = [k \in Keys |-> IF k \in K THEN NoRow ELSE table[k]]

Next == \/ \E k \in Keys, v \in Values : Insert(k, v)
        \/ \E K \in SUBSET Keys : Delete(K)

Spec == Init /\ [][Next]_table
===============================================================================
