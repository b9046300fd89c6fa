---------------------------- MODULE MC_WorkerBook ----------------------------
(* The worker's book and wallet on a small instance: a live and a paper     *)
(* instance, two interchangeable tokens, one crash and one fault.           *)
EXTENDS Worker, TLC

MCBase == <<"live", "paper">>
MCUnits == [m \in Mints |-> 10^6]
MCMoves == {-1, 1}
MCSymmetry == Permutations(Mints)
=============================================================================
