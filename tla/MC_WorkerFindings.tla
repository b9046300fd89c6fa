-------------------------- MODULE MC_WorkerFindings --------------------------
(* Instances on which the worker does what its documentation says it does   *)
(* not do.                                                                  *)
EXTENDS Worker

PaperOnly == <<"paper">>
LiveFirst == <<"live", "paper">>
SixDecimals == [m \in Mints |-> 10^6]
EightDecimals == [m \in Mints |-> 10^8]
MCMoves == {1}
=============================================================================
