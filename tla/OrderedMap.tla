------------------------------ MODULE OrderedMap ------------------------------
(***************************************************************************)
(* What `map_parallele` (berlue/pipeline/parallel.py) promises its callers, *)
(* whatever the number of threads: one atomic answer, either the results in *)
(* the order of the inputs, or the exception of the first input, in input   *)
(* order, on which the mapped function fails.                               *)
(*                                                                          *)
(* An element is its rank and the result of the function on an element is   *)
(* that rank again: results are only ever compared for identity.            *)
(***************************************************************************)
EXTENDS Naturals

CONSTANT MaxItems           \* bound on the length of the list

VARIABLES n,                \* length of the list
          fails,            \* the ranks on which the mapped function raises
          outcome           \* what the caller has received so far

Pending     == [kind |-> "pending"]
Returned(l) == [kind |-> "returned", list |-> l]
Raised(i)   == [kind |-> "raised", rank |-> i]

(* The answer that the contract allows, the only one. *)
Correct(o) ==
    \/ /\ fails = {}
       /\ o = Returned([i \in 1..n |-> i])
    \/ \E i \in fails : /\ \A j \in fails : i <= j
                        /\ o = Raised(i)

Init == /\ n \in 0..MaxItems
        /\ fails \in SUBSET (1..n)
        /\ outcome = Pending

Answer == /\ outcome = Pending
          /\ Correct(outcome')
          /\ UNCHANGED <<n, fails>>

vars == <<n, fails, outcome>>

Spec == Init /\ [][Answer]_vars
===============================================================================
