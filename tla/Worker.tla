-------------------------------- MODULE Worker --------------------------------
(***************************************************************************)
(* The trading worker (solbot/engine.py), the dashboard that steers it     *)
(* (solbot/web/routes.py) and the wallet it trades with.                   *)
(*                                                                         *)
(* The worker is one thread that runs tick after tick: drain the command   *)
(* queue, check that trading is enabled, manage open positions, scan for   *)
(* entries on the hot and then on the broad tier, do the housekeeping.     *)
(* pc says where in a tick it is.  Whatever happens between two points     *)
(* where another process can act is one action; a swap and the SQLite      *)
(* transaction that records it are two, since the process may die between  *)
(* them.  Strategy, prices, safety and sizing decide which of the allowed  *)
(* steps is taken: here that choice is free.                               *)
(***************************************************************************)
EXTENDS Portfolio, RiskControls, CommandQueue

CONSTANTS
    Base,               \* <<"paper">> or <<"live", "paper">>: see build_instances
    OnChain,            \* the instances whose executor is a LiveExecutor
    UnitsPerToken,      \* UnitsPerToken[m]: 10 to the power of the token's decimals
    Sizes,              \* order sizes liquidity and volatility may lead to
    Moves,              \* profits a sale may make on top of its cost basis
    MaxPositionPct,     \* config max_position_pct_of_wallet, in percent
    MaxDeployedPct,     \* config max_total_deployed_pct, in percent
    MaxTradesPerDay,    \* config max_trades_per_day; 0 switches the throttle off
    MinGap,             \* config min_seconds_between_entries
    SameMintGap,        \* config min_seconds_between_entries_same_mint
    DayLength,          \* seconds in a UTC day
    MaxNow, MaxPositions, MaxCommands, MaxCrashes, MaxFaults    \* bounds

ASSUME WorkerAssumption ==
    /\ Base \in Seq(Instances) /\ Base # << >>
    /\ "shadow" \in Instances
    /\ OnChain \subseteq {Base[1]}
    /\ UnitsPerToken \in [Mints -> Nat \ {0}]
    /\ Sizes \subseteq Nat \ {0}
    /\ Moves \subseteq Int
    /\ {MaxPositionPct, MaxDeployedPct, MaxTradesPerDay, MinGap, SameMintGap} \subseteq Nat
    /\ DayLength \in Nat \ {0}
    /\ {MaxNow, MaxPositions, MaxCommands, MaxCrashes, MaxFaults} \subseteq Nat

VARIABLES
    \* kv rows, as durable as the book
    shadow,     \* shadow_overrides is not empty
    \* the worker's memory, lost in a crash
    pc,         \* the point of the tick
    running,    \* Engine.instances
    tier,       \* which scan this part of the tick serves: halted, hot, broad
    turn,       \* index in running of the instance being served
    todo,       \* commands left of the snapshot drain_commands took
    book,       \* positions left of the snapshot _manage_instance took
    cands,      \* mints left of the prices _entries_for_instance walks
    swap,       \* a reported fill that is not recorded yet
    \* outside the worker
    wallet,     \* wallet[m]: token units the on-chain wallet holds
    now,        \* wall clock
    webPc,      \* a kill or release request the dashboard is half way through
    crashes, faults,    \* how often the environment has struck
    \* history
    asked,      \* what the operator last asked of the kill switch
    late,       \* entries submitted since the kill switch was last engaged
    resetAt,    \* Len(trades) when the breaker was last reset
    raisedAt,   \* Len(commands) when a reconciliation halt was last raised
    torn        \* which pair of writes a fault has separated

memoryVars == <<running, tier, turn, todo, book, cands, swap>>
outsideVars == <<wallet, now, webPc, crashes, faults>>
historyVars == <<asked, late, resetAt, raisedAt, torn>>
vars == <<portfolioVars, controlVars, commands, shadow, pc, memoryVars,
          outsideVars, historyVars>>

Primary == Base[1]

\* swap carries the request's flag on to Finish when a manual close is settled.
NoSwap == [side |-> "none", manual |-> FALSE]

Swaps ==
    [side : {"none"}, manual : BOOLEAN]
    \cup [side : {"buy", "sell"}, manual : BOOLEAN, instance : Instances,
          mint : Mints, id : Nat, usd : Nat]

Points == {"Down", "Drain", "Command", "Finish", "Manage", "CloseDb", "RiskDb",
           "Gate", "Scan", "OpenDb", "Broad", "Housekeeping"}

KillOps == {"kill_switch", "release_kill_switch"}

\* Engine.build_instances: the shadow instance exists while there are overrides.
BuildInstances(sh) == IF sh THEN Append(Base, "shadow") ELSE Base

Init ==
    /\ PortfolioInit
    /\ ControlsInit
    /\ QueueInit
    /\ shadow = FALSE
    /\ pc = "Down"
    /\ running = Base
    /\ tier = "halted"
    /\ turn = 1
    /\ todo = {} /\ book = {} /\ cands = {}
    /\ swap = NoSwap
    /\ wallet = [m \in Mints |-> 0]
    /\ now = 1
    /\ webPc = "idle"
    /\ crashes = 0 /\ faults = 0
    /\ asked = "release"
    /\ late = 0
    /\ resetAt = 0 /\ raisedAt = 0
    /\ torn = {}

Goto(point) == pc' = point

Serving == running[turn]

----------------------------------------------------------------------------
(* Swaps *)

\* A bug for the mutants: a token's scale is taken to be five decimals.
FiveDecimals(m, qty) == (qty * 100000) \div UnitsPerToken[m]

\* What LiveExecutor.sell takes out of the wallet for a quantity: _close gives
\* it no decimals, so it assumes six, whatever the token's own scale is.
SellAmount(m, qty) == (qty * 1000000) \div UnitsPerToken[m]

(***************************************************************************)
(* How a swap may end.  filled: it landed and says so; refused: it did not *)
(* land (slippage, congestion, no route, a revert) and says so; unseen: it *)
(* landed but /execute answered with an error, so buy and sell return      *)
(* ok = False; ghost: it was never confirmed, and confirm's "timeout" is   *)
(* not "failed", so they return ok = True.  The last two need a fault and  *)
(* a LiveExecutor.                                                         *)
(***************************************************************************)
Outcome(i, outcome) ==
    \/ /\ outcome \in {"filled", "refused"}
       /\ UNCHANGED <<faults, torn>>
    \/ /\ i \in OnChain
       /\ outcome \in {"unseen", "ghost"}
       /\ faults < MaxFaults
       /\ faults' = faults + 1
       /\ torn' = torn \cup {"wallet"}

Landed(outcome) == outcome \in {"filled", "unseen"}

Reported(outcome) == outcome \in {"filled", "ghost"}

\* The tokens an on-chain swap that landed moves in (or, negative, out).
MoveTokens(i, m, amount, outcome) ==
    wallet' = IF i \in OnChain /\ Landed(outcome)
              THEN [wallet EXCEPT ![m] = @ + amount] ELSE wallet

(***************************************************************************)
(* The swap of Engine._close, which exits and manual closes share.  The    *)
(* chain can only give what the wallet holds.                              *)
(***************************************************************************)
SubmitSell(p, manual, refusedTo) ==
    LET i == positions[p].instance
        m == positions[p].mint
        amount == IF i \in OnChain THEN SellAmount(m, positions[p].size_usd)
                                   ELSE positions[p].size_usd
    IN  \E outcome \in {"filled", "refused", "unseen", "ghost"}, gain \in Moves :
        /\ Outcome(i, outcome)
        /\ i \in OnChain /\ Landed(outcome) => amount <= wallet[m]
        /\ i \notin OnChain => outcome = "filled"
        /\ MoveTokens(i, m, -amount, outcome)
        /\ IF Reported(outcome)
           THEN /\ swap' = [side |-> "sell", instance |-> i, mint |-> m, id |-> p,
                            usd |-> IF amount + gain > 0 THEN amount + gain ELSE 0,
                            manual |-> manual]
                /\ Goto("CloseDb")
           ELSE /\ UNCHANGED swap
                /\ Goto(refusedTo)

----------------------------------------------------------------------------
(* Start *)

\* A bug for the mutants: only balances nobody tracks are looked for.
UntrackedOnly(seen) == \E m \in Mints : seen[m] > 0 /\ PositionFor(Primary, m) = {}

\* recovery._compare_wallet: every way the two can disagree about what is held.
\* Its 2% tolerance is below one unit.
Discrepant(seen) ==
    \/ \E p \in OpenPositions(Primary) : seen[positions[p].mint] # positions[p].size_usd
    \/ \E m \in Mints : seen[m] > 0 /\ PositionFor(Primary, m) = {}

(***************************************************************************)
(* Engine.startup: rebuild the instances, recover the primary one.  When   *)
(* it trades on chain the wallet is compared with the book; a wallet that  *)
(* cannot be read halts like one that disagrees, and nothing here clears a *)
(* halt.  get_token_balances drops the accounts of a token program whose   *)
(* lookup fails: hidden is what it misses.                                 *)
(***************************************************************************)
Startup ==
    /\ pc = "Down"
    /\ running' = BuildInstances(shadow)
    /\ \E hidden \in SUBSET {m \in Mints : wallet[m] > 0}, unreadable \in BOOLEAN :
         /\ Primary \notin OnChain => hidden = {} /\ ~unreadable
         /\ unreadable => hidden = {}
         /\ IF hidden = {} /\ ~unreadable THEN UNCHANGED faults
            ELSE faults < MaxFaults /\ faults' = faults + 1
         /\ LET seen == [m \in Mints |-> IF m \in hidden THEN 0 ELSE wallet[m]]
            IN  IF Primary \in OnChain /\ (unreadable \/ Discrepant(seen))
                THEN SetHalt(TRUE) /\ raisedAt' = Len(commands)
                ELSE UNCHANGED <<controlVars, raisedAt>>
    /\ Goto("Drain")
    /\ UNCHANGED <<portfolioVars, commands, shadow, tier, turn, todo, book, cands,
                   swap, wallet, now, webPc, crashes, asked, late, resetAt, torn>>

(* The process dies: its memory is gone, SQLite and the chain keep theirs. *)
Crash ==
    /\ pc # "Down"
    /\ crashes < MaxCrashes
    /\ crashes' = crashes + 1
    /\ Goto("Down")
    /\ running' = Base /\ tier' = "halted" /\ turn' = 1
    /\ todo' = {} /\ book' = {} /\ cands' = {} /\ swap' = NoSwap
    /\ torn' = torn \cup (IF pc = "RiskDb" THEN {"breaker"}
                          ELSE IF swap.side # "none" THEN {"wallet"} ELSE {})
    /\ UNCHANGED <<portfolioVars, controlVars, commands, shadow, wallet, now, webPc,
                   faults, asked, late, resetAt, raisedAt>>

----------------------------------------------------------------------------
(* Engine.drain_commands *)

Drain ==
    /\ pc = "Drain"
    /\ todo' = PendingCommands
    /\ Goto("Command")
    /\ UNCHANGED <<portfolioVars, controlVars, commands, shadow, running, tier, turn,
                   book, cands, swap, outsideVars, historyVars>>

\* A bug for the mutants: the snapshot is taken in no particular order.
AnyOf(c) == c \in todo

\* The snapshot is ordered by id.
NextCommand(c) == c \in todo /\ \A d \in todo : c <= d

\* A kill switch write, whoever makes it.
WriteKill(on) ==
    /\ SetKill(on)
    /\ late' = IF on /\ kill THEN late ELSE 0

\* The commands that write one switch.
HandleControl ==
    /\ pc = "Command"
    /\ \E c \in todo :
         /\ NextCommand(c)
         /\ LET op == commands[c].op IN
            \/ op = "start" /\ SetRun(TRUE) /\ UNCHANGED <<late, resetAt>>
            \/ op = "stop" /\ SetRun(FALSE) /\ UNCHANGED <<late, resetAt>>
            \/ op = "kill_switch" /\ WriteKill(TRUE) /\ UNCHANGED resetAt
            \/ op = "release_kill_switch" /\ WriteKill(FALSE) /\ UNCHANGED resetAt
            \/ op = "reset_circuit" /\ ResetCircuit /\ resetAt' = Len(trades)
               /\ UNCHANGED late
            \/ op = "clear_reconcile_halt" /\ SetHalt(FALSE)
               /\ UNCHANGED <<late, resetAt>>
    /\ Goto("Finish")
    /\ UNCHANGED <<portfolioVars, commands, shadow, memoryVars, outsideVars, asked, raisedAt,
                   torn>>

\* set_shadow writes the overrides and rebuilds the instances at once.
HandleSetShadow ==
    /\ pc = "Command"
    /\ \E c \in todo :
         /\ NextCommand(c) /\ commands[c].op = "set_shadow"
         /\ shadow' = (commands[c].arg = 1)
         /\ running' = BuildInstances(shadow')
    /\ Goto("Finish")
    /\ UNCHANGED <<portfolioVars, controlVars, commands, tier, turn, todo, book, cands,
                   swap, outsideVars, historyVars>>

\* An open position of a running instance: the only ones _manual_close finds.
Closable(p) ==
    \E k \in DOMAIN running : p \in OpenPositions(running[k])

HandleManualClose ==
    /\ pc = "Command"
    /\ \E c \in todo :
         /\ NextCommand(c) /\ commands[c].op = "close_position"
         /\ IF Closable(commands[c].arg)
            THEN SubmitSell(commands[c].arg, TRUE, "Finish")
            ELSE Goto("Finish") /\ UNCHANGED <<swap, wallet, faults, torn>>
    /\ UNCHANGED <<portfolioVars, controlVars, commands, shadow, running, tier, turn,
                   todo, book, cands, now, webPc, crashes, asked, late, resetAt, raisedAt>>

Finish ==
    /\ pc = "Finish"
    /\ \E c \in todo :
         /\ NextCommand(c)
         /\ FinishCommand(c, "done")
         /\ todo' = todo \ {c}
    /\ swap' = NoSwap
    /\ Goto("Command")
    /\ UNCHANGED <<portfolioVars, controlVars, shadow, running, tier, turn, book, cands,
                   outsideVars, historyVars>>

\* drain_commands catches what a handler raises: here the price fetch of a
\* manual close on a token no scan has priced yet.
CommandFails ==
    /\ pc = "Command"
    /\ faults < MaxFaults
    /\ faults' = faults + 1
    /\ \E c \in todo :
         /\ NextCommand(c)
         /\ commands[c].op = "close_position" /\ Closable(commands[c].arg)
         /\ FinishCommand(c, "failed")
         /\ todo' = todo \ {c}
    /\ UNCHANGED <<portfolioVars, controlVars, shadow, pc, running, tier, turn, book,
                   cands, swap, wallet, now, webPc, crashes, historyVars>>

----------------------------------------------------------------------------
(* Engine.tick *)

\* Leave this tick; Engine.run starts the next one.
EndTick ==
    /\ Goto("Drain")
    /\ tier' = "halted" /\ turn' = 1 /\ book' = {} /\ cands' = {}

(* The commands are drained: read the switches once.  A tick that may not  *)
(* trade still manages what is open; one that may serves the hot tier if   *)
(* it is due.                                                              *)
BeginTick ==
    /\ pc = "Command" /\ todo = {}
    /\ \/ /\ ~TradingEnabled
          /\ tier' = "halted"
          /\ book' = OpenPositions(running[1])
          /\ Goto("Manage")
       \/ /\ TradingEnabled
          /\ tier' = "hot"
          /\ book' = OpenPositions(running[1])
          /\ Goto("Manage")
       \/ /\ TradingEnabled
          /\ Goto("Broad")
          /\ UNCHANGED <<tier, book>>
    /\ UNCHANGED <<portfolioVars, controlVars, commands, shadow, running, turn, todo,
                   cands, swap, outsideVars, historyVars>>

----------------------------------------------------------------------------
(* Engine._manage_instance and _close *)

\* A bug for the mutants: the position being sold stays in the snapshot.
FromSold(p) == {q \in book : q >= p}

\* What is left of the snapshot after position p.
After(p) == {q \in book : q > p}

\* One position of the snapshot is sold; those before it were held, because
\* they had no price or no exit condition fired.
Exit ==
    /\ pc = "Manage"
    /\ \E p \in book :
         /\ book' = After(p)
         /\ SubmitSell(p, FALSE, "Manage")
    /\ UNCHANGED <<portfolioVars, controlVars, commands, shadow, running, tier, turn,
                   todo, cands, now, webPc, crashes, asked, late, resetAt, raisedAt>>

\* The rest of the snapshot is held: serve the next instance, or end the phase.
\* Entries follow only on the hot tier, and only if the scan returned prices.
ManageNext ==
    /\ pc = "Manage"
    /\ IF turn < Len(running)
       THEN /\ turn' = turn + 1
            /\ book' = OpenPositions(running[turn + 1])
            /\ UNCHANGED <<pc, tier, cands>>
       ELSE \/ tier = "halted" /\ EndTick
            \/ /\ tier = "hot"
               /\ \E priced \in BOOLEAN : Goto(IF priced THEN "Gate" ELSE "Broad")
               /\ turn' = 1 /\ book' = {}
               /\ UNCHANGED <<tier, cands>>
    /\ UNCHANGED <<portfolioVars, controlVars, commands, shadow, running, todo, swap,
                   outsideVars, historyVars>>

\* Where _close returns to.
AfterClose == IF swap.manual THEN "Finish" ELSE "Manage"

Settled == [NoSwap EXCEPT !.manual = swap.manual]

\* A bug for the mutants: a comparison run drives the breaker too.
AnyInstance(i) == i = i

\* Only the primary instance drives the breaker.
DrivesBreaker(i) == i = Primary

\* Portfolio.close_position.
CloseDb ==
    /\ pc = "CloseDb"
    /\ ClosePosition(swap.id, swap.usd)
    /\ swap' = Settled
    /\ Goto(IF DrivesBreaker(swap.instance) THEN "RiskDb" ELSE AfterClose)
    /\ UNCHANGED <<controlVars, commands, shadow, running, tier, turn, todo, book, cands,
                   outsideVars, historyVars>>

\* risk.record_trade_result, a write of its own after the close has committed.
RiskDb ==
    /\ pc = "RiskDb"
    /\ RecordTradeResult(trades[Len(trades)].pnl_usd)
    /\ Goto(AfterClose)
    /\ UNCHANGED <<portfolioVars, commands, shadow, memoryVars, outsideVars, historyVars>>

----------------------------------------------------------------------------
(* Engine.look_for_entries *)

DayStart == (now \div DayLength) * DayLength

EntriesToday(i) ==
    {p \in DOMAIN positions :
        positions[p].instance = i /\ positions[p].entry_ts >= DayStart}

Rows(i, m) ==
    {p \in DOMAIN positions : positions[p].instance = i /\ positions[p].mint = m}

Within(gap, ids) == \E p \in ids : now - positions[p].entry_ts < gap

\* A bug for the mutants: the day's entries are not counted.
GapOnly(i) ==
    /\ MaxTradesPerDay > 0
    /\ Within(MinGap, {p \in DOMAIN positions : positions[p].instance = i})

\* Engine._throttle: a cap of 0 switches the gap off as well.
Throttled(i) ==
    /\ MaxTradesPerDay > 0
    /\ \/ Cardinality(EntriesToday(i)) >= MaxTradesPerDay
       \/ Within(MinGap, {p \in DOMAIN positions : positions[p].instance = i})

\* A bug for the mutants: the cooldown forgets a token once it is sold.
CoolingOffWhileOpen(i, m) == Within(SameMintGap, PositionFor(i, m))

\* Engine._cooling_off.
CoolingOff(i, m) == Within(SameMintGap, Rows(i, m))

\* The gate and the throttle are read once; the prices that follow are not
\* asked again.
GatePass ==
    /\ pc = "Gate" /\ turn <= Len(running)
    /\ CanOpenPosition /\ ~Throttled(Serving)
    /\ cands' = Mints
    /\ Goto("Scan")
    /\ UNCHANGED <<portfolioVars, controlVars, commands, shadow, running, tier, turn,
                   todo, book, swap, outsideVars, historyVars>>

GateRefuse ==
    /\ pc = "Gate" /\ turn <= Len(running)
    /\ ~CanOpenPosition \/ Throttled(Serving)
    /\ turn' = turn + 1
    /\ UNCHANGED <<portfolioVars, controlVars, commands, shadow, pc, running, tier, todo,
                   book, cands, swap, outsideVars, historyVars>>

\* Engine.tick's broad tier: not due, due with prices, or a scan that failed.
ServeBroad ==
    /\ pc = "Broad"
    /\ \/ EndTick
       \/ /\ Goto("Gate")
          /\ tier' = "broad"
          /\ UNCHANGED <<turn, book, cands>>
       \/ /\ Goto("Housekeeping")
          /\ UNCHANGED <<tier, turn, book, cands>>
    /\ UNCHANGED <<portfolioVars, controlVars, commands, shadow, running, todo, swap,
                   outsideVars, historyVars>>

\* Every instance has had its scan.
GateDone ==
    /\ pc = "Gate" /\ turn > Len(running)
    /\ turn' = 1
    /\ Goto(IF tier = "hot" THEN "Broad" ELSE "Housekeeping")
    /\ UNCHANGED <<portfolioVars, controlVars, commands, shadow, running, tier, todo,
                   book, cands, swap, outsideVars, historyVars>>

\* A bug for the mutants: the budget is the wallet's, whatever is deployed.
UnbudgetedRoom(i, size) ==
    /\ size * 100 <= MaxPositionPct * WalletUsd(i)
    /\ size * 100 <= MaxDeployedPct * WalletUsd(i)

\* risk.size_position stays inside both caps; the engine passes it no SOL
\* balance, so the gas reserve is never taken off.
Room(i, size) ==
    /\ size * 100 <= MaxPositionPct * WalletUsd(i)
    /\ (DeployedUsd(i) + size) * 100 <= MaxDeployedPct * WalletUsd(i)

\* What one price of the scan must pass before its signal is looked at; the
\* safety, correlation, signal and review gates only narrow it further.
Candidate(i, m) ==
    /\ m \in cands
    /\ PositionFor(i, m) = {}
    /\ ~CoolingOff(i, m)

(* A candidate passed every gate and its order is sent: the rest of the    *)
(* loop body and the swap of Engine._open.                                 *)
Enter ==
    /\ pc = "Scan"
    /\ Len(positions) < MaxPositions
    /\ \E m \in Mints, size \in Sizes, outcome \in {"filled", "refused", "unseen", "ghost"} :
         /\ Candidate(Serving, m)
         /\ Room(Serving, size)
         /\ Outcome(Serving, outcome)
         /\ MoveTokens(Serving, m, size, outcome)
         /\ cands' = cands \ {m}
         /\ late' = IF kill THEN late + 1 ELSE late
         /\ IF Reported(outcome)
            THEN /\ swap' = [side |-> "buy", instance |-> Serving, mint |-> m, id |-> 0,
                             usd |-> size, manual |-> FALSE]
                 /\ Goto("OpenDb")
            ELSE UNCHANGED <<swap, pc>>
    /\ UNCHANGED <<portfolioVars, controlVars, commands, shadow, running, tier, turn,
                   todo, book, now, webPc, crashes, asked, resetAt, raisedAt>>

\* Portfolio.open_position.
OpenDb ==
    /\ pc = "OpenDb"
    /\ OpenPosition(swap.instance, swap.mint, swap.usd, now)
    /\ swap' = NoSwap
    /\ Goto("Scan")
    /\ UNCHANGED <<controlVars, commands, shadow, running, tier, turn, todo, book, cands,
                   outsideVars, historyVars>>

\* The prices that are left are skipped, or the deployed budget is used up.
EndScan ==
    /\ pc = "Scan"
    /\ cands' = {}
    /\ turn' = turn + 1
    /\ Goto("Gate")
    /\ UNCHANGED <<portfolioVars, controlVars, commands, shadow, running, tier, todo,
                   book, swap, outsideVars, historyVars>>

----------------------------------------------------------------------------
(* Housekeeping, failed writes, time *)

(* Engine.housekeeping: the equity check may trip the breaker, and a       *)
(* promotion ends the shadow run - it clears the overrides, queues an      *)
(* empty set_shadow and rebuilds the instances.                            *)
Housekeeping ==
    /\ pc = "Housekeeping"
    /\ \E breached \in BOOLEAN : CheckDailyDrawdown(breached)
    /\ \/ UNCHANGED <<shadow, running, commands>>
       \/ /\ shadow /\ Len(commands) < MaxCommands
          /\ shadow' = FALSE
          /\ running' = BuildInstances(FALSE)
          /\ Enqueue("set_shadow", 0)
    /\ EndTick
    /\ UNCHANGED <<portfolioVars, todo, swap, outsideVars, historyVars>>

(* SQLite refuses a write (locked, disk full).  Engine.run catches what    *)
(* aborts a tick and starts the next one; drain_commands catches it first  *)
(* when a manual close is being handled.  The worker does not restart, so  *)
(* nothing reconciles.                                                     *)
DbError ==
    /\ pc \in {"OpenDb", "CloseDb", "RiskDb"}
    /\ faults < MaxFaults
    /\ faults' = faults + 1
    /\ torn' = torn \cup (IF pc = "RiskDb" THEN {"breaker"} ELSE {"wallet"})
    /\ swap' = NoSwap
    /\ IF swap.manual
       THEN /\ \E c \in todo :
                 /\ NextCommand(c)
                 /\ FinishCommand(c, "failed")
                 /\ todo' = todo \ {c}
            /\ Goto("Command")
            /\ UNCHANGED <<tier, turn, book, cands>>
       ELSE EndTick /\ UNCHANGED <<commands, todo>>
    /\ UNCHANGED <<portfolioVars, controlVars, shadow, running, wallet, now, webPc,
                   crashes, asked, late, resetAt, raisedAt>>

\* The answer of a command cannot be written: drain_commands tries "failed"
\* instead, and if that fails too the tick ends with the command still pending.
FinishError ==
    /\ pc = "Finish"
    /\ faults < MaxFaults
    /\ faults' = faults + 1
    /\ swap' = NoSwap
    /\ \/ /\ \E c \in todo :
               /\ NextCommand(c)
               /\ FinishCommand(c, "failed")
               /\ todo' = todo \ {c}
          /\ Goto("Command")
          /\ UNCHANGED <<tier, turn, book, cands>>
       \/ /\ todo' = {}
          /\ EndTick
          /\ UNCHANGED commands
    /\ UNCHANGED <<portfolioVars, controlVars, shadow, running, wallet, now, webPc,
                   crashes, historyVars>>

\* Engine.run survives whatever a tick raises: a scan, a read, a signal.
Abort ==
    /\ pc \in {"Manage", "Gate", "Scan", "Broad", "Housekeeping"}
    /\ EndTick
    /\ UNCHANGED <<portfolioVars, controlVars, commands, shadow, running, todo, swap,
                   outsideVars, historyVars>>

Tick ==
    /\ now < MaxNow
    /\ now' = now + 1
    /\ UNCHANGED <<portfolioVars, controlVars, commands, shadow, pc, memoryVars, wallet,
                   webPc, crashes, faults, historyVars>>

----------------------------------------------------------------------------
(* The dashboard: one operator, one request at a time *)

webUnchanged == <<portfolioVars, shadow, pc, memoryVars, wallet, now, crashes,
                  resetAt, raisedAt, torn>>

\* The page offers what lifts a switch only while that switch is on.
Offered(op) ==
    /\ op = "reset_circuit" => circuit.tripped
    /\ op = "clear_reconcile_halt" => halt
    /\ op = "release_kill_switch" => kill

\* The requests that only queue a command.
WebEnqueue ==
    /\ webPc = "idle" /\ Len(commands) < MaxCommands
    /\ \E op \in Ops \ KillOps, arg \in 0..MaxPositions :
         /\ op = "close_position" => arg \in DOMAIN positions /\ positions[arg].status = "open"
         /\ op = "set_shadow" => arg \in {0, 1}
         /\ op \notin {"close_position", "set_shadow"} => arg = 0
         /\ Offered(op)
         /\ Enqueue(op, arg)
    /\ UNCHANGED <<webUnchanged, controlVars, webPc, faults, asked, late>>

\* The kill switch "must not depend on a live worker": the dashboard writes the
\* switch itself, then queues the command as well.
WebWriteKill ==
    /\ webPc = "idle" /\ Len(commands) < MaxCommands
    /\ \E op \in KillOps \cap Ops :
         /\ Offered(op)
         /\ WriteKill(op = "kill_switch")
         /\ asked' = IF op = "kill_switch" THEN "engage" ELSE "release"
         /\ webPc' = op
    /\ UNCHANGED <<webUnchanged, commands, faults>>

\* A bug for the mutants: for an engage the direct write is thought to be enough.
QueueReleasesOnly ==
    /\ webPc # "idle"
    /\ IF webPc = "kill_switch" THEN UNCHANGED commands ELSE Enqueue(webPc, 0)
    /\ webPc' = "idle"
    /\ UNCHANGED <<webUnchanged, controlVars, faults, asked, late>>

WebQueueKill ==
    /\ webPc # "idle"
    /\ Enqueue(webPc, 0)
    /\ webPc' = "idle"
    /\ UNCHANGED <<webUnchanged, controlVars, faults, asked, late>>

\* The web process dies between the two writes: the operator's browser gets no
\* answer.
WebDies ==
    /\ webPc # "idle"
    /\ faults < MaxFaults
    /\ faults' = faults + 1
    /\ webPc' = "idle"
    /\ asked' = "unanswered"
    /\ UNCHANGED <<webUnchanged, controlVars, commands, late>>

----------------------------------------------------------------------------

WorkerStep ==
    \/ Startup \/ Drain \/ HandleControl \/ HandleSetShadow \/ HandleManualClose
    \/ Finish \/ BeginTick \/ Exit \/ ManageNext \/ CloseDb \/ RiskDb
    \/ GatePass \/ GateRefuse \/ GateDone \/ Enter \/ OpenDb \/ EndScan
    \/ ServeBroad \/ Housekeeping

Environment ==
    Crash \/ CommandFails \/ DbError \/ FinishError \/ Abort \/ Tick \/ WebDies

Web == WebEnqueue \/ WebWriteKill \/ WebQueueKill

Next == WorkerStep \/ Environment \/ Web

Spec == Init /\ [][Next]_vars

\* systemd restarts the worker and Engine.run loops for ever; a dashboard
\* request that has begun runs to its end.
FairSpec == Spec /\ WF_vars(WorkerStep) /\ WF_vars(WebQueueKill)

----------------------------------------------------------------------------
(* Properties *)

WorkerTypeOK ==
    /\ shadow \in BOOLEAN
    /\ pc \in Points
    /\ running \in Seq(Instances)
    /\ tier \in {"halted", "hot", "broad"}
    /\ turn \in Nat \ {0}
    /\ todo \subseteq DOMAIN commands
    /\ book \subseteq DOMAIN positions
    /\ cands \subseteq Mints
    /\ swap \in Swaps
    /\ wallet \in [Mints -> Int]
    /\ now \in Nat
    /\ webPc \in {"idle"} \cup (KillOps \cap Ops)
    /\ crashes \in Nat /\ faults \in Nat
    /\ asked \in {"engage", "release", "unanswered"}
    /\ late \in Nat /\ resetAt \in Nat /\ raisedAt \in Nat
    /\ torn \subseteq {"wallet", "breaker"}

TypeOK == PortfolioTypeOK /\ ControlsTypeOK /\ QueueTypeOK /\ WorkerTypeOK

(* Capital is re-read for every candidate, so what one scan has committed  *)
(* counts against the next candidate of the same scan: no entry, on any    *)
(* tier, leaves more than max_total_deployed_pct of the wallet deployed    *)
(* (_entries_for_instance, size_position).                                 *)
DeployedCapHolds ==
    [][\A i \in Instances :
          DeployedUsd(i)' > DeployedUsd(i)
              => 100 * DeployedUsd(i)' <= MaxDeployedPct * WalletUsd(i)']_vars

\* The step takes a candidate, whatever becomes of its order.
OrderSent == pc = "Scan" /\ pc' \in {"Scan", "OpenDb"} /\ cands' # cands

(* An order is sent only while the bot is started, no reconciliation halt  *)
(* is in force and the breaker has not tripped, although those switches    *)
(* are read at the top of the tick or of the scan and losses close in      *)
(* between (tick, _entries_for_instance).                                  *)
EntriesPermitted ==
    [][OrderSent => run /\ ~halt /\ ~circuit.tripped]_vars

(* README: the kill switch "halts all new entries immediately", and what   *)
(* engage_kill_switch logs: "No new entries will be taken".  No order is   *)
(* sent while it is engaged.                                               *)
KillStopsEntries == [][OrderSent => ~kill]_vars

(* What is left of that, since the gate is asked once per scan: after the  *)
(* switch is engaged the candidates of at most one scan still lead to an   *)
(* order, however engages, releases and scans are interleaved.             *)
LateEntriesBounded ==
    kill => late + (IF pc \in {"Scan", "OpenDb"} THEN Cardinality(cands) ELSE 0)
                <= Cardinality(Mints)

(* README: the kill switch "never auto-resumes": once the operator has     *)
(* engaged it, it is released only after the operator asks for that.       *)
KillNeverAutoResumes == [][kill /\ ~kill' => asked' = "release"]_vars

(* README: a restart "can never be used, even accidentally, to bypass a    *)
(* triggered halt": only a command queued after the reconciliation halt    *)
(* was raised clears it.                                                   *)
HaltClearedOnlyAfterwards ==
    [][halt /\ ~halt' => \E c \in todo : NextCommand(c) /\ c > raisedAt]_vars

(* However stale releases, worker crashes and the operator's requests      *)
(* interleave, an operator whose last word is an "engage" the dashboard    *)
(* did not die over ends up with the kill switch engaged for good.         *)
KillEventuallyHolds == <>[](asked = "engage") => <>[]kill

(* Commands take effect in the order they were queued, also across a crash *)
(* that has one of them handled twice: none is finished before an older.   *)
CommandsInOrder ==
    \A c, d \in DOMAIN commands :
        c < d /\ commands[d].status # "pending" => commands[c].status # "pending"

(* Every command is answered in the end.                                   *)
CommandsAnswered ==
    \A c \in 1..MaxCommands :
        (c \in DOMAIN commands /\ commands[c].status = "pending")
            ~> (c \in DOMAIN commands /\ commands[c].status # "pending")

(* The breaker's streak is the journal's: between ticks, as many losing    *)
(* primary trades in a row as the limit, since the last reset, mean a      *)
(* tripped breaker - unless a fault fell between a close and its count.    *)
Streak ==
    LET recent == {t \in Journalled(Primary) : t > resetAt}
    IN  {t \in recent : Cardinality({u \in recent : u > t}) < CircuitLosses}

BreakerSeesStreak ==
    /\ pc = "Drain" /\ "breaker" \notin torn
    /\ Cardinality(Streak) = CircuitLosses
    /\ \A t \in Streak : trades[t].pnl_usd < 0
    => circuit.tripped

(* Re-entry cooldown: two positions of an instance in one token are opened *)
(* at least min_seconds_between_entries_same_mint apart, whatever happened *)
(* to the first one and whichever tier found the second.                   *)
SameMintCooldown ==
    \A p, q \in DOMAIN positions :
        /\ p < q
        /\ positions[p].instance = positions[q].instance
        /\ positions[p].mint = positions[q].mint
        => positions[q].entry_ts - positions[p].entry_ts >= SameMintGap

(* The most by which a day can exceed its cap: _throttle is asked once per *)
(* scan, so what one scan may still enter comes on top.                    *)
DailyCapOvershoot ==
    MaxTradesPerDay > 0 =>
        \A i \in Instances :
            Cardinality(EntriesToday(i)) < MaxTradesPerDay + Cardinality(Mints)

(* What the wallet should hold by the book.                                *)
WalletAgrees ==
    \A m \in Mints :
        IF \E p \in PositionFor(Primary, m) : TRUE
        THEN \E p \in PositionFor(Primary, m) : wallet[m] = positions[p].size_usd
        ELSE wallet[m] = 0

(* README: the exit that fires "closes the position": between ticks, and   *)
(* faults aside, no token of a closed position is left in the wallet.      *)
ClosedIsSold ==
    pc = "Drain" /\ Primary \in OnChain /\ "wallet" \notin torn
        => \A m \in Mints : PositionFor(Primary, m) = {} => wallet[m] = 0

(* Between ticks book and chain agree unless a fault separated a swap from *)
(* its record: no order of exits, entries, manual closes and restarts      *)
(* parts them.                                                             *)
BookFollowsChain ==
    pc = "Drain" /\ Primary \in OnChain /\ "wallet" \notin torn => WalletAgrees

(* recovery.py: "If the database and the wallet disagree, the engine ...   *)
(* halts": a worker that comes up trading never believes in a position the *)
(* wallet does not back.                                                   *)
BackedAfterRecovery ==
    [][pc = "Down" /\ pc' # "Down" /\ Primary \in OnChain /\ ~halt'
          => \A p \in OpenPositions(Primary) :
                wallet[positions[p].mint] = positions[p].size_usd]_vars

(***************************************************************************)
(* The worker implements Account: through every tick, scan, manual close,  *)
(* failed order, failed write and restart a book only ever places a stake  *)
(* in a token it is flat in and settles each stake once, and nothing but   *)
(* the two moves its cash (open_position, close_position).                 *)
(***************************************************************************)
StakeView ==
    [i \in Instances |-> [m \in Mints |->
        {positions[p].size_usd : p \in PositionFor(i, m)}]]

EnteredView ==
    [i \in Instances |-> [m \in Mints |->
        {positions[p].entry_ts : p \in Rows(i, m)}]]

Purse == INSTANCE Account
    WITH cash <- balance, stake <- StakeView, entered <- EnteredView,
         clock <- now, Cooldown <- SameMintGap

ImplementsAccount == Purse!Spec

----------------------------------------------------------------------------
(* What holds at the points of a tick: with TypeOK these are inductive, and *)
(* the theorems of WorkerProofs rest on them.                               *)

\* The instance being served exists wherever the worker is about to use it,
\* although commands and promotions rebuild the list.
TurnInv ==
    /\ running # << >>
    /\ pc # "Gate" => turn \in DOMAIN running
    /\ pc \in {"Down", "Drain", "Command", "Finish", "Broad", "Housekeeping"} => turn = 1
    /\ pc \in {"CloseDb", "RiskDb"} /\ swap.manual => turn = 1
    /\ shadow => "set_shadow" \in Ops

\* The snapshot of _manage_instance holds open positions only, and the one
\* that is being sold has left it.
SnapshotInv ==
    /\ pc \notin {"Manage", "CloseDb", "RiskDb"} => book = {}
    /\ pc \in {"CloseDb", "RiskDb"} /\ swap.manual => book = {}
    /\ \A p \in book : positions[p].status = "open"

\* What a fill that waits to be recorded may rely on.
SwapInv ==
    /\ pc = "CloseDb" =>
          /\ swap.side = "sell"
          /\ swap.id \in DOMAIN positions \ book
          /\ positions[swap.id].status = "open"
          /\ positions[swap.id].instance = swap.instance
    /\ pc = "RiskDb" => trades # << >>
    /\ pc = "OpenDb" =>
          /\ swap.side = "buy" /\ ~swap.manual
          /\ swap.usd > 0
          /\ PositionFor(swap.instance, swap.mint) = {}
          /\ ~CoolingOff(swap.instance, swap.mint)

\* The snapshot of drain_commands is what is oldest among the pending.
QueueInv ==
    /\ todo \subseteq PendingCommands
    /\ \A c \in todo, d \in PendingCommands \ todo : c < d
    /\ CommandsInOrder

\* A part of the tick that may lead to an entry runs only while trading is
\* enabled, a scan only while the breaker has not tripped.
PermitInv ==
    /\ \/ pc \in {"Gate", "Scan", "OpenDb", "Broad", "Housekeeping"}
       \/ pc = "Manage" /\ tier = "hot"
       \/ pc \in {"CloseDb", "RiskDb"} /\ ~swap.manual /\ tier = "hot"
       => run /\ ~halt
    /\ pc \in {"Scan", "OpenDb"} => ~circuit.tripped

\* No trade is journalled for a position that is not in the book.
JournalInv ==
    /\ JournalMatchesBook
    /\ \A t \in DOMAIN trades : trades[t].position_id \in DOMAIN positions

\* An order that waits to be recorded is still within the caps it was sized by.
CapInv == pc = "OpenDb" => Room(swap.instance, swap.usd)

\* What the scan in progress may still add to the day of an instance.
StillToEnter(i) ==
    IF pc = "Scan" /\ Serving = i THEN Cardinality(cands)
    ELSE IF pc = "OpenDb" /\ swap.instance = i THEN Cardinality(cands) + 1
    ELSE 0

DayInv ==
    /\ pc = "OpenDb" => swap.instance = Serving
    /\ MaxTradesPerDay > 0 =>
          \A i \in Instances :
              Cardinality(EntriesToday(i)) + StillToEnter(i)
                  < MaxTradesPerDay + Cardinality(Mints)

\* No row of the book holds nothing.
StakeInv == \A p \in DOMAIN positions : positions[p].size_usd > 0

\* Whatever the point of the tick: what the wallet holds is what the book says,
\* but for the one fill that waits to be recorded.
ChainInv ==
    /\ pc = "CloseDb" => positions[swap.id].mint = swap.mint
    /\ Primary \in OnChain /\ "wallet" \notin torn =>
          \A m \in Mints :
             IF pc = "OpenDb" /\ swap.instance = Primary /\ swap.mint = m
             THEN wallet[m] = swap.usd
             ELSE IF pc = "CloseDb" /\ swap.instance = Primary /\ swap.mint = m
             THEN wallet[m] = 0
             ELSE /\ PositionFor(Primary, m) = {} => wallet[m] = 0
                  /\ \A p \in PositionFor(Primary, m) : wallet[m] = positions[p].size_usd

\* The journalled trades the breaker has been told of since it was last reset.
Counted ==
    {t \in Journalled(Primary) : t > resetAt /\ (pc = "RiskDb" => t < Len(trades))}

\* Losses up to the latest counted trade, without a gap.
LosingRuns ==
    {T \in SUBSET Counted :
        /\ \A t \in T, u \in Counted : u > t => u \in T
        /\ \A t \in T : trades[t].pnl_usd < 0}

BreakerInv ==
    /\ circuit.losses >= CircuitLosses => circuit.tripped
    /\ pc = "RiskDb" => trades[Len(trades)].instance = Primary
    /\ "breaker" \notin torn => \A T \in LosingRuns : Cardinality(T) <= circuit.losses

IInv == TypeOK /\ TurnInv /\ SnapshotInv /\ SwapInv
BookInv == OneOpenPerMint /\ SameMintCooldown
=============================================================================
