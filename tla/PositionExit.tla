----------------------------- MODULE PositionExit -----------------------------
(***************************************************************************)
(* How long a position is held: the stop, trail, target, holding time and  *)
(* signal checks of strategy.evaluate_exit, the trailing stop, and the     *)
(* prices, candles and settings they are asked with, over ticks that are   *)
(* halted, scans that fail, saved settings and restarts.  One position of  *)
(* one instance; what a sale does to the book is in module Worker.         *)
(***************************************************************************)
EXTENDS Integers, FiniteSets

CONSTANTS
    Prices,         \* what a quote or a fill may be, in one unit
    Fills,          \* Prices an entry is filled at
    Risks,          \* distances of the hard stop below the entry
    RewardRatios,   \* targets, in multiples of the risk
    Overrides,      \* trail_override_atr the review gate may set; 0 sets none
    Atrs,           \* average true ranges; where there is none, 1% of the price
    Settings,       \* settings an operator may have saved
    LeastDistance,  \* 0.2% of the entry price, the least distance of the trail
    MaxClock, MaxCrashes, MaxFaults     \* bounds

\* With one position, what is a fraction of its entry in the code is an amount
\* here: round_trip_cost, fees both ways and slippage, and LeastDistance.
Setting == [activate_r : Nat, distance_atr : Nat, round_trip_cost : Nat,
            invalidation_bars : Nat \ {0}, max_hold : Nat]

ASSUME ExitAssumption ==
    /\ Prices \subseteq Nat \ {0} /\ Fills \subseteq Prices
    /\ {Risks, RewardRatios, Atrs} \subseteq SUBSET (Nat \ {0})
    /\ Overrides \subseteq Nat
    /\ Settings \subseteq Setting
    /\ LeastDistance \in Nat \ {0}
    /\ {MaxClock, MaxCrashes, MaxFaults} \subseteq Nat

NoPrice == 0
NoTrail == 0    \* trailing_stop IS NULL

VARIABLES
    \* the row in positions
    status,     \* "none", "open" or "closed"
    row,        \* its levels
    \* kv
    halted,     \* kill switch, pause or reconciliation halt
    \* the worker's memory
    pc,         \* the point of its tick
    cfg,        \* the settings it runs with
    last,       \* scanner.last_prices of the token
    candles,    \* what _candle_cache holds of it for the current bar
    primary,    \* whether the position's instance is the primary one
    \* outside
    market,     \* the price now
    clock,      \* counts bars
    crashes, faults,
    \* history
    fading,     \* evaluations that found the signal faded, since one did not
    fadedBars,  \* the bars these were of
    charged     \* the dearest round trip a trail was placed for

rowVars == <<status, row>>
workerVars == <<pc, cfg, last, candles>>
outsideVars == <<market, clock, halted>>
boundVars == <<crashes, faults>>
watchVars == <<fading, fadedBars>>
history == <<watchVars, charged>>
vars == <<rowVars, workerVars, primary, outsideVars, boundVars, history>>

Larger(a, b) == IF a >= b THEN a ELSE b

Points == {"Down", "Tick", "Scan", "Manage", "Halted", "Rest"}

\* Candles too thin to judge, a signal that holds, one that has faded.
Signals == {"thin", "holds", "faded"}

Open == status = "open"

Row(fill, risk, ratio, override) ==
    [entry |-> fill, hard_stop |-> fill - risk, take_profit |-> fill + risk * ratio,
     trail |-> NoTrail, armed |-> FALSE, high |-> fill, risk |-> risk,
     override |-> override, count |-> 0, since |-> clock]

Init ==
    /\ status = "none"
    /\ row = [entry |-> 0, hard_stop |-> 0, take_profit |-> 0, trail |-> NoTrail,
              armed |-> FALSE, high |-> 0, risk |-> 0, override |-> 0, count |-> 0,
              since |-> 0]
    /\ halted = FALSE
    /\ pc = "Down" /\ cfg \in Settings /\ last = NoPrice /\ candles = "none"
    /\ primary \in BOOLEAN
    /\ market \in Prices /\ clock = 0 /\ crashes = 0 /\ faults = 0
    /\ fading = 0 /\ fadedBars = {} /\ charged = 0

Goto(point) == pc' = point

----------------------------------------------------------------------------
(* strategy.py *)

\* A bug for the mutants: one stop replaces the other.
TrailOnly(price) == row.trail # NoTrail /\ price <= row.trail

StopHit(price) ==
    \/ price <= row.hard_stop
    \/ row.trail # NoTrail /\ price <= row.trail

HeldTooLong == cfg.max_hold > 0 /\ clock - row.since >= cfg.max_hold

\* What closes a position whatever its signal.
PriceOrAge(price) ==
    StopHit(price) \/ price >= row.take_profit \/ HeldTooLong

\* A bug for the mutants: the counter is only ever stored when it grows.
NeverReset(signal) == IF signal = "faded" THEN row.count + 1 ELSE row.count

InvalidationCount(signal) ==
    IF signal = "faded" THEN row.count + 1
    ELSE IF signal = "holds" THEN 0 ELSE row.count

Invalidated(signal) ==
    signal = "faded" /\ row.count + 1 >= cfg.invalidation_bars

\* A bug for the mutants: the trail is placed at the entry.
BareEntry(p) == p.entry

Breakeven(p) == p.entry + cfg.round_trip_cost

\* A bug for the mutants: the stop there is does not count.
CostsOnly(p) == Breakeven(p)

\* What the trail may not fall below.
Floor(p) == Larger(Breakeven(p), p.trail)

UpdateTrailingStop(p, price, distance) ==
    LET armed == \/ p.armed
                 \/ /\ price - p.entry >= cfg.activate_r * p.risk
                    /\ price > Breakeven(p)
        high == Larger(p.high, price)
    IN  [p EXCEPT !.high = high,
                  !.armed = armed,
                  !.trail = IF armed THEN Larger(high - distance, Floor(p)) ELSE @]

\* A bug for the mutants: the position's own distance is forgotten.
Configured(p) == cfg.distance_atr

TrailMultiple(p) == IF p.override = 0 THEN cfg.distance_atr ELSE p.override

Distance(atr, multiple) == Larger(atr * multiple, LeastDistance)

Charge == charged' = IF row'.armed THEN Larger(charged, cfg.round_trip_cost) ELSE charged

----------------------------------------------------------------------------
(* The worker *)

\* recovery.recover moves the trail of the primary's positions, with the
\* configured distance, to what happened meanwhile, unless the token has no
\* price.  The scanner starts with no prices at all.
Startup ==
    /\ pc = "Down"
    /\ \/ /\ Open /\ primary
          /\ \E atr \in Atrs :
               row' = UpdateTrailingStop(row, market, Distance(atr, cfg.distance_atr))
          /\ Charge
       \/ UNCHANGED <<row, charged>>
    /\ last' = NoPrice /\ candles' = "none"
    /\ Goto("Tick")
    /\ UNCHANGED <<status, cfg, primary, outsideVars, boundVars, watchVars>>

\* The head of a tick: settings are reloaded, the switches read.  A tick for
\* which the hot tier is not due goes on to "Rest" as well, and is left out.
Tick ==
    /\ pc = "Tick"
    /\ cfg' \in Settings
    /\ Goto(IF halted THEN "Halted" ELSE "Scan")
    /\ UNCHANGED <<rowVars, last, candles, primary, outsideVars, boundVars, history>>

\* scan_hot: open positions are pinned, so the token is asked for.
Scan ==
    /\ pc = "Scan"
    /\ last' = market
    /\ Goto("Manage")
    /\ UNCHANGED <<rowVars, cfg, candles, primary, outsideVars, boundVars, history>>

\* The call fails or leaves the token out: the last price stands.
ScanFails ==
    /\ pc = "Scan"
    /\ faults < MaxFaults
    /\ faults' = faults + 1
    /\ Goto("Manage")
    /\ UNCHANGED <<rowVars, cfg, last, candles, primary, outsideVars, crashes, history>>

AfterPass == Goto(IF pc = "Manage" THEN "Rest" ELSE "Tick")

\* _candles: computed once per bar, from what the store holds at that moment.
Candles(signal) == candles' = IF candles = "none" THEN signal ELSE candles

Watch(signal) ==
    /\ fading' = IF candles' = "faded" THEN fading + 1
                 ELSE IF candles' = "holds" THEN 0 ELSE fading
    /\ fadedBars' = IF candles' = "faded" THEN fadedBars \union {clock}
                    ELSE IF candles' = "holds" THEN {} ELSE fadedBars

\* _manage_instance closes the position, or the sale fails and the row stays
\* as it is.
Exit ==
    /\ pc \in {"Manage", "Halted"}
    /\ Open /\ last # NoPrice
    /\ \E signal \in Signals :
         /\ Candles(signal)
         /\ PriceOrAge(last) \/ Invalidated(candles')
         /\ IF PriceOrAge(last) THEN UNCHANGED watchVars ELSE Watch(signal)
    /\ \/ status' = "closed" /\ UNCHANGED faults
       \/ faults < MaxFaults /\ faults' = faults + 1 /\ UNCHANGED status
    /\ AfterPass
    /\ UNCHANGED <<row, cfg, last, primary, outsideVars, crashes, charged>>

\* ... or keeps it and stores what changed: counter, high-water mark, trail.
Hold ==
    /\ pc \in {"Manage", "Halted"}
    /\ Open /\ last # NoPrice
    /\ \E signal \in Signals, atr \in Atrs :
         /\ Candles(signal)
         /\ Watch(signal)
         /\ ~PriceOrAge(last) /\ ~Invalidated(candles')
         /\ row' = UpdateTrailingStop(
                       [row EXCEPT !.count = InvalidationCount(candles')], last,
                       Distance(atr, TrailMultiple(row)))
    /\ Charge
    /\ AfterPass
    /\ UNCHANGED <<status, cfg, last, primary, outsideVars, boundVars>>

\* Nothing is open, or its token has never had a price since the start.
NothingToManage ==
    /\ pc \in {"Manage", "Halted"}
    /\ ~Open \/ last = NoPrice
    /\ AfterPass
    /\ UNCHANGED <<rowVars, cfg, last, candles, primary, outsideVars, boundVars, history>>

\* _open: stop and target keep their distance from the price that was filled.
Enter ==
    /\ pc = "Rest" /\ status = "none" /\ last # NoPrice
    /\ \E fill \in Fills, risk \in Risks, ratio \in RewardRatios, o \in Overrides :
         row' = Row(fill, risk, ratio, o)
    /\ status' = "open"
    /\ UNCHANGED <<workerVars, primary, outsideVars, boundVars, history>>

\* The rest of the tick: the broad tier may be due and brings a price too.
Rest ==
    /\ pc = "Rest"
    /\ last' \in {last, market}
    /\ Goto("Tick")
    /\ UNCHANGED <<rowVars, cfg, candles, primary, outsideVars, boundVars, history>>

Crash ==
    /\ pc # "Down"
    /\ crashes < MaxCrashes
    /\ crashes' = crashes + 1
    /\ cfg' \in Settings
    /\ Goto("Down")
    /\ UNCHANGED <<rowVars, last, candles, primary, outsideVars, faults, history>>

----------------------------------------------------------------------------
(* Outside.  Prices and switches matter where they are read: at the head of *)
(* a tick and at a start, so they move there.                               *)

Between == pc \in {"Down", "Tick"}

Move ==
    /\ Between
    /\ market' \in Prices \ {market}
    /\ UNCHANGED <<rowVars, workerVars, primary, clock, halted, boundVars, history>>

SwitchHalt ==
    /\ Between
    /\ halted' = ~halted
    /\ UNCHANGED <<rowVars, workerVars, primary, market, clock, boundVars, history>>

\* A bar closes, and the candle cache with it.
NextBar ==
    /\ Between
    /\ clock < MaxClock
    /\ clock' = clock + 1
    /\ candles' = "none"
    /\ UNCHANGED <<rowVars, pc, cfg, last, primary, market, halted, boundVars, history>>

----------------------------------------------------------------------------

WorkerStep ==
    Startup \/ Tick \/ Scan \/ ScanFails \/ Exit \/ Hold \/ NothingToManage \/ Enter \/ Rest

Next == WorkerStep \/ Crash \/ Move \/ SwitchHalt \/ NextBar

Spec == Init /\ [][Next]_vars

FairSpec == Spec /\ WF_vars(WorkerStep)

----------------------------------------------------------------------------
(* Properties *)

RowType ==
    [entry : Nat, hard_stop : Int, take_profit : Nat, trail : Nat, armed : BOOLEAN,
     high : Nat, risk : Nat, override : Nat, count : Nat, since : Nat]

TypeOK ==
    /\ status \in {"none", "open", "closed"}
    /\ row \in RowType
    /\ Open => row.entry > 0 /\ row.risk > 0 /\ row.high >= row.entry
    /\ {halted, primary} \subseteq BOOLEAN
    /\ pc \in Points
    /\ cfg \in Settings
    /\ last \in Prices \cup {NoPrice} /\ market \in Prices
    /\ candles \in Signals \cup {"none"}
    /\ {clock, crashes, faults, fading, charged} \subseteq Nat
    /\ fadedBars \subseteq 0 .. clock

(* test_trailing_stop_never_moves_down, over everything that recomputes it: *)
(* passes with other settings, restarts, a position's own distance.  While  *)
(* a position is open no level that protects it is given up.                *)
StopNeverLoosens ==
    [][Open => /\ row'.hard_stop = row.hard_stop
               /\ row'.trail >= row.trail
               /\ row'.high >= row.high
               /\ row.armed => row'.armed]_vars

(* README: "breakeven" is never actually a loss.  Once armed, the trail     *)
(* stands above the entry by the dearest round trip any pass so far has     *)
(* reckoned with, although costs are settings and may fall again.           *)
TrailCoversCosts ==
    Open => /\ row.armed <=> row.trail # NoTrail
            /\ row.armed => row.trail >= row.entry + charged

(* The trail is above what costs demand only by following the high-water  *)
(* mark, at the distance the review gate gave the position; a restart      *)
(* follows it at the configured one.                                       *)
TrailLeavesRoom ==
    Open /\ row.armed =>
        \/ row.trail = row.entry + charged
        \/ \E atr \in Atrs :
              \/ row.override # 0 /\ row.trail <= row.high - Distance(atr, row.override)
              \/ /\ row.override = 0 \/ crashes > 0
                 /\ \E s \in Settings : row.trail <= row.high - Distance(atr, s.distance_atr)

(* signal_invalidation_bars: "bars of failed signal before exit", and       *)
(* test_signal_invalidation_needs_consecutive_bars: "One bad bar is noise;  *)
(* the configured number in a row is a real exit."  A position is closed    *)
(* for its signal only after it was found faded in that many bars.          *)
InvalidationNeedsBars ==
    [][Open /\ status' = "closed" /\ ~PriceOrAge(last)
           => Cardinality(fadedBars') >= cfg.invalidation_bars]_vars

(* What is left of that, since a pass counts whenever it looks: so many     *)
(* evaluations in a row, of whatever bars, found the signal faded; a signal *)
(* that was found to hold starts the count again, and neither a restart nor *)
(* a failed sale adds to it.                                                *)
FadedEvaluationsCounted ==
    [][Open /\ status' = "closed" /\ ~PriceOrAge(last)
           => fading' >= cfg.invalidation_bars]_vars

\* The settings agree that it is time to sell, at the price there is now.
ExitDue ==
    Open /\ \/ market <= row.hard_stop
            \/ row.armed /\ market <= row.trail
            \/ market >= row.take_profit
            \/ \A s \in Settings : s.max_hold > 0 /\ clock - row.since >= s.max_hold

(* README: "the first to fire closes the position".  While trading is on no *)
(* position stays open for ever past its stop, its target or its time,      *)
(* through failed scans, failed sales and restarts.                         *)
ExitActedOn == []<>~(ExitDue /\ ~halted)

(* Engine.tick: "Still manage open positions while halted - a kill switch   *)
(* stops new entries, it does not abandon what is already open."  A pass    *)
(* of a halted tick closes a position whose price is at its hard stop,      *)
(* unless the sale fails.                                                   *)
ManagedWhileHalted ==
    [][pc = "Halted" /\ pc' = "Tick" /\ Open /\ market <= row.hard_stop
           => status' = "closed" \/ faults' > faults]_vars
----------------------------------------------------------------------------
(* What makes the above inductive: nothing is charged before the trail is   *)
(* armed.                                                                   *)
EInv ==
    /\ TypeOK
    /\ TrailCoversCosts
    /\ status = "none" \/ (Open /\ ~row.armed) => charged = 0

\* A position a start finds was open at a crash; and the counter in the row
\* never counts an evaluation that did not find the signal faded.
HeldInv ==
    Open => /\ pc = "Down" => crashes > 0
            /\ row.count <= fading
=============================================================================
