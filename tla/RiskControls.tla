---------------------------- MODULE RiskControls ----------------------------
(***************************************************************************)
(* The four persisted switches that stand between a signal and an order:   *)
(* the run flag (engine_run), the kill switch and the circuit breaker      *)
(* (solbot/risk.py) and the reconciliation halt (solbot/recovery.py).  All *)
(* four are kv rows: a crash leaves them as they are.                      *)
(***************************************************************************)
EXTENDS Integers

CONSTANT CircuitLosses      \* config circuit_consecutive_losses

ASSUME CircuitLossesAssumption == CircuitLosses \in Nat \ {0}

VARIABLES
    run,        \* RUN_KEY: the bot has been started
    kill,       \* kill switch engaged
    circuit,    \* [tripped, losses]: the breaker and its loss streak
    halt        \* reconciliation halt in force

controlVars == <<run, kill, circuit, halt>>

ControlsInit ==
    /\ run = TRUE
    /\ kill = FALSE
    /\ circuit = [tripped |-> FALSE, losses |-> 0]
    /\ halt = FALSE

ControlsTypeOK ==
    /\ run \in BOOLEAN
    /\ kill \in BOOLEAN
    /\ circuit \in [tripped : BOOLEAN, losses : Nat]
    /\ halt \in BOOLEAN

----------------------------------------------------------------------------
(* Operations: each is one kv write *)

SetRun(on) == run' = on /\ UNCHANGED <<kill, circuit, halt>>

SetKill(on) == kill' = on /\ UNCHANGED <<run, circuit, halt>>

ResetCircuit ==
    /\ circuit' = [tripped |-> FALSE, losses |-> 0]
    /\ UNCHANGED <<run, kill, halt>>

SetHalt(on) == halt' = on /\ UNCHANGED <<run, kill, circuit>>

\* The breaker after a closed trade of this profit.
AfterTrade(pnl) ==
    LET streak == IF pnl < 0 THEN circuit.losses + 1 ELSE 0
    IN  [tripped |-> circuit.tripped \/ streak >= CircuitLosses,
         losses |-> streak]

RecordTradeResult(pnl) ==
    /\ circuit' = AfterTrade(pnl)
    /\ UNCHANGED <<run, kill, halt>>

\* check_daily_drawdown: whether the day's drawdown is over the threshold is
\* the market's choice here.
CheckDailyDrawdown(breached) ==
    /\ circuit' = [circuit EXCEPT !.tripped = @ \/ breached]
    /\ UNCHANGED <<run, kill, halt>>

----------------------------------------------------------------------------
(* Gates *)

\* Engine.trading_enabled: read once at the top of a tick.  The breaker is not
\* part of it.
TradingEnabled == run /\ ~kill /\ ~halt

\* Bugs for the mutants: the gate forgets the breaker, or the kill switch.
KillSwitchOnly == ~kill
BreakerOnly == ~circuit.tripped

\* risk.can_open_position: read once per instance and scan.
CanOpenPosition == ~kill /\ ~circuit.tripped
=============================================================================
