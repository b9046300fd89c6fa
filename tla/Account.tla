------------------------------- MODULE Account -------------------------------
(***************************************************************************)
(* What a trading instance promises its owner, with the worker's ticks,    *)
(* commands, restarts and failures taken away: a purse per instance and,   *)
(* per token, at most one stake in the market.  A stake is paid from the   *)
(* purse when it is placed and only comes back, once, by being settled; a  *)
(* token is not staked on again before the cooldown has passed.            *)
(***************************************************************************)
EXTENDS Integers

CONSTANTS Instances, Mints, StartBalance,
          Cooldown      \* config min_seconds_between_entries_same_mint

VARIABLES
    cash,       \* cash[i]
    stake,      \* stake[i][m]: {} when flat, {s} when s is in the market
    entered,    \* entered[i][m]: the times at which stakes were placed
    clock

accountVars == <<cash, stake, entered, clock>>

Init ==
    /\ cash = [i \in Instances |-> StartBalance]
    /\ stake = [i \in Instances |-> [m \in Mints |-> {}]]
    /\ entered = [i \in Instances |-> [m \in Mints |-> {}]]
    /\ clock = 1

Place(i, m) ==
    /\ stake[i][m] = {}
    /\ \A t \in entered[i][m] : clock - t >= Cooldown
    /\ \E s \in stake'[i][m] :
         /\ s \in Nat \ {0}
         /\ stake' = [stake EXCEPT ![i][m] = {s}]
         /\ cash' = [cash EXCEPT ![i] = @ - s]
    /\ entered' = [entered EXCEPT ![i][m] = @ \cup {clock}]
    /\ UNCHANGED clock

\* The market decides what a stake returns, never less than nothing.
Settle(i, m) ==
    /\ stake[i][m] # {}
    /\ stake' = [stake EXCEPT ![i][m] = {}]
    /\ cash'[i] - cash[i] \in Nat
    /\ cash' = [cash EXCEPT ![i] = cash'[i]]
    /\ UNCHANGED <<entered, clock>>

Pass ==
    /\ clock' = clock + 1
    /\ UNCHANGED <<cash, stake, entered>>

Next ==
    \/ \E i \in Instances, m \in Mints : Place(i, m) \/ Settle(i, m)
    \/ Pass

Spec == Init /\ [][Next]_accountVars
=============================================================================
