---------------------------- MODULE MCPooledCalls ----------------------------
(***************************************************************************)
(* Instance of PooledCalls. Every call of `fn` on Firestore takes a dozen   *)
(* steps that no lock orders: these lists are run by two threads, those of  *)
(* three elements without a failing one.                                    *)
(***************************************************************************)
EXTENDS PooledCalls

MCWorkerChoices == {0, 2, 3}
MCLives == {3, 5}

MCInit == /\ PInit
          /\ kind = "store" => /\ maxWorkers = 2
                               /\ n = 2 \/ (n = 3 /\ fails = {})

MCSpec == MCInit /\ [][PNext]_pvars /\ PFairness
===============================================================================
