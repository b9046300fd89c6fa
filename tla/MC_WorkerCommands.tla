-------------------------- MODULE MC_WorkerCommands --------------------------
(***************************************************************************)
(* The worker under its operator and its clock.  A behaviour follows one   *)
(* of four scenarios, so that the state spaces add up instead of           *)
(* multiplying: everything the dashboard may ask for, the kill switch      *)
(* engaged and released again and again, and the brakes on overtrading     *)
(* over the turn of a day, for the paper book and for a shadow run that    *)
(* begins, is dropped or is promoted on the way.                           *)
(* InScenario is the CONSTRAINT of the run.                                *)
(***************************************************************************)
EXTENDS Worker

MCBase == <<"live", "paper">>
MCUnits == [m \in Mints |-> 10^6]
MCMoves == {-1}

\* breaks: crashes and faults together.
Scenarios ==
    [commands |-> [ops |-> Ops, requests |-> 2, trader |-> "live", entries |-> 1,
                   until |-> 1, breaks |-> 1],
     kill |-> [ops |-> KillOps, requests |-> 3, trader |-> "paper", entries |-> 1,
               until |-> 1, breaks |-> 1],
     pace |-> [ops |-> {"set_shadow"}, requests |-> 1, trader |-> "paper", entries |-> 3,
               until |-> MaxNow, breaks |-> 0],
     trial |-> [ops |-> {"set_shadow"}, requests |-> 2, trader |-> "shadow", entries |-> 3,
                until |-> MaxNow, breaks |-> 0]]

\* The tokens are alike until one is bought: the first order is for this one.
First == CHOOSE m \in Mints : TRUE

\* A request the dashboard has begun counts as queued, a fill that waits to be
\* recorded as entered: where a scenario stops the worker, it has another step
\* (EndScan for an order, no promotion, an outcome without a fault), and it
\* never stops WebQueueKill. So FairSpec assumes here what it assumes elsewhere.
Requests == Len(commands) + (IF webPc = "idle" THEN 0 ELSE 1)
Entered == Len(positions) + (IF pc = "OpenDb" THEN 1 ELSE 0)

Fits(s) ==
    /\ webPc \in {"idle"} \cup s.ops
    /\ \A c \in DOMAIN commands : commands[c].op \in s.ops
    /\ Requests <= s.requests
    /\ \A p \in DOMAIN positions : positions[p].instance = s.trader
    /\ pc = "OpenDb" \/ (pc = "Scan" /\ cands # Mints) => Serving = s.trader
    /\ Entered <= s.entries
    /\ now <= s.until
    /\ crashes + faults <= s.breaks

InScenario ==
    /\ \E name \in DOMAIN Scenarios : Fits(Scenarios[name])
    /\ cands = {First} => positions # << >>
    /\ positions # << >> => positions[1].mint = First
    /\ \A m \in Mints \ {First} : wallet[m] = 0
=============================================================================
