--------------------------------- MODULE Lists ---------------------------------
(***************************************************************************)
(* What a loop that keeps some elements of a list, or one over `sorted`,    *)
(* goes through: positions, or numbers, in increasing order. Shared by the  *)
(* components that read, filter and number lists.                           *)
(***************************************************************************)
EXTENDS Integers, FiniteSets

InOrder(numbers) ==
    [k \in 1..Cardinality(numbers) |->
        CHOOSE n \in numbers : Cardinality({m \in numbers : m <= n}) = k]
===============================================================================
