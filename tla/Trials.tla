------------------------------- MODULE Trials -------------------------------
(* What the stages of a parameter set are, with everything that moves sets  *)
(* from one to the next taken away: refused or admitted on arrival, tried   *)
(* once, then superseded or promoted for good; only refused and superseded  *)
(* sets are ever forgotten, and only a forgotten one may arrive again.      *)

CONSTANT Bundles

VARIABLE stage

Successors == [
    absent |-> {"rejected", "pending"},
    rejected |-> {"absent"},
    pending |-> {"shadow"},
    shadow |-> {"superseded", "promoted"},
    superseded |-> {"absent"},
    promoted |-> {}]

Init == stage = [s \in Bundles |-> "absent"]

Next ==
    /\ stage' \in [Bundles -> DOMAIN Successors]
    /\ \A s \in Bundles : stage'[s] # stage[s] => stage'[s] \in Successors[stage[s]]

Spec == Init /\ [][Next]_stage
=============================================================================
