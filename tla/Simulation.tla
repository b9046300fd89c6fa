------------------------------ MODULE Simulation ------------------------------
(***************************************************************************)
(* Two simulators of one strategy.  backtest.Backtester walks the bars of  *)
(* all coins in time, managing positions before it looks for entries.      *)
(* solopt.engine.VectorEngine turns the loops around: every bar with a     *)
(* signal is a candidate trade, followed to its exit whether or not it is  *)
(* taken, and a sweep over the candidates then decides which were.  Prices *)
(* and money are integers; indicators are given with each bar.             *)
(***************************************************************************)
EXTENDS Integers, Sequences, Functions

CONSTANTS
    Tokens,         \* in the order both take them: by mint
    BarsOf,         \* bars a token may print: low, close, entry signal, faded
    Liquidity,      \* of a token
    Alike,          \* times at which returns correlate too much, or cannot be
                    \* correlated, which the sweep takes for the same
    MinBars,        \* min_candles_required
    Risk, RewardRisk,           \* stop_atr_mult ATRs; rr of the signal
    ActivateAt, TrailDistance,  \* the trail's, as prices
    InvalidationBars, MaxHold, MaxHorizon,
    FeePct, SlipPct,            \* of half a round trip
    StartBalance, WalletPct, TotalPct, LiquidityPct, MinPosition,
    MaxClock        \* bound on time

Mints == {Tokens[i] : i \in DOMAIN Tokens}

ASSUME SimulationAssumption ==
    /\ MaxClock \in Nat /\ Alike \subseteq 1 .. MaxClock
    /\ Tokens \in Seq(Mints)
    /\ \A c \in Mints : \A b \in BarsOf[c] :
          /\ b \in [low : Int, close : Int, signal : BOOLEAN, faded : BOOLEAN]
          /\ 0 < b.low /\ b.low <= b.close
    \* the engine takes no liquidity for no limit, the backtest for a limit of 0
    /\ Liquidity \in [Mints -> Nat \ {0}]
    /\ {Risk, RewardRisk, InvalidationBars, MaxHold, MaxHorizon} \subseteq Nat \ {0}
    \* a hold longer than the horizon would end with it
    /\ MaxHold + 2 <= MaxHorizon
    /\ {MinBars, ActivateAt, TrailDistance, FeePct, SlipPct} \subseteq Nat
    /\ {StartBalance, MinPosition, WalletPct, TotalPct, LiquidityPct} \subseteq Nat

VARIABLES
    clock,
    panel,          \* the bars each token has printed, oldest first
    cash,           \* Backtester's balance
    positions,      \* its open positions
    trades          \* BacktestResult.trades

simulationVars == <<clock, panel, cash, positions, trades>>

NoPosition == [open |-> FALSE]

SimulationTypeOK ==
    /\ clock \in 0 .. MaxClock /\ cash \in Int
    /\ \A c \in Mints : panel[c] \in Seq([ts : 1 .. clock, bar : BarsOf[c]])
    /\ DOMAIN positions = Mints
    /\ \A t \in trades : t.mint \in Mints /\ t.entry <= t.exit /\ t.exit <= clock

SimulationInit ==
    /\ clock = 0 /\ cash = StartBalance /\ trades = {}
    /\ panel = [c \in Mints |-> <<>>]
    /\ positions = [c \in Mints |-> NoPosition]

Pct(x, p) == (x * p) \div 100
Larger(x, y) == IF x >= y THEN x ELSE y
Smaller(x, y) == IF x <= y THEN x ELSE y

\* What size dollars bought at one price bring at another, after both fees.
Proceeds(size, bought, sold) ==
    LET gross == ((size - Pct(size, FeePct)) * Pct(sold, 100 - SlipPct)) \div bought
    IN  gross - Pct(gross, FeePct)

Trade(c, entry, exit, size, proceeds) ==
    [mint |-> c, entry |-> entry, exit |-> exit, size |-> size, pnl |-> proceeds - size]

----------------------------------------------------------------------------
(* The backtest: Backtester._simulate *)

Deployed(held) ==
    SumFunction([c \in {m \in Mints : held[m].open} |-> held[c].size])

\* size_position, in flat mode.
SizePosition(wallet, deployed, liquidity) ==
    Smaller(Pct(wallet, WalletPct),
            Smaller(Pct(liquidity, LiquidityPct),
                    Larger(0, Pct(wallet, TotalPct) - deployed)))

OpenAt(c, ts, close, size) ==
    LET price == Pct(close, 100 + SlipPct)
    IN  [open |-> TRUE, entry |-> ts, price |-> price, size |-> size,
         stop |-> price - Risk, target |-> price + Risk * RewardRisk,
         armed |-> FALSE, trail |-> 0, high |-> price, count |-> 0]

\* Where a bar takes a position out, 0 for nowhere: the stop inside the bar,
\* then what evaluate_exit finds at its close.
ExitPrice(pos, ts, bar) ==
    LET level == Larger(pos.stop, pos.trail)
    IN  CASE bar.low <= level -> level
          [] bar.low > level /\ (\/ bar.close >= pos.target
                                 \/ ts - pos.entry >= MaxHold
                                 \/ bar.faded /\ pos.count + 1 >= InvalidationBars) -> bar.close
          [] OTHER -> 0

\* update_trailing_stop, and the invalidation count.
UpdateTrail(pos, bar) ==
    LET breakeven == Pct(pos.price, 100 + 2 * FeePct + 2 * SlipPct)
        high == Larger(pos.high, bar.close)
        armed == pos.armed \/ (bar.close - pos.price >= ActivateAt /\ bar.close > breakeven)
    IN  [pos EXCEPT !.count = IF bar.faded THEN @ + 1 ELSE 0, !.high = high, !.armed = armed,
                    !.trail = IF armed THEN Larger(high - TrailDistance, Larger(breakeven, @))
                                       ELSE @]

\* Pass one: every open position whose token printed leaves or is trailed.
ManageAll(book, rows) ==
    LET Price(c) == ExitPrice(book.held[c], rows[c].ts, rows[c].bar)
        Brings(c) == Proceeds(book.held[c].size, book.held[c].price, Price(c))
        managed == {c \in DOMAIN rows : book.held[c].open}
        left == {c \in managed : Price(c) # 0}
    IN  [cash |-> book.cash + SumFunction([c \in left |-> Brings(c)]),
         held |-> [c \in Mints |-> IF c \in left THEN NoPosition
                                   ELSE IF c \in managed
                                   THEN UpdateTrail(book.held[c], rows[c].bar)
                                   ELSE book.held[c]],
         out |-> book.out \union
                   {Trade(c, book.held[c].entry, rows[c].ts, book.held[c].size, Brings(c)) :
                      c \in left}]

\* Pass two, of one token, with the capital that pass one released.
Enter(b, c, rows) ==
    LET deployed == Deployed(b.held)
        wallet == b.cash + deployed
        size == SizePosition(wallet, deployed, Liquidity[c])
    IN  IF \/ c \notin DOMAIN rows \/ b.held[c].open \/ rows[c].idx <= MinBars
           \/ deployed >= Pct(wallet, TotalPct)
           \/ size < MinPosition \/ size > b.cash \/ ~rows[c].bar.signal
        THEN b
        ELSE [b EXCEPT !.cash = @ - size,
                       !.held[c] = OpenAt(c, rows[c].ts, rows[c].bar.close, size)]

EnterAll(book, rows) ==
    LET after[i \in 0 .. Len(Tokens)] ==
            IF i = 0 THEN book ELSE Enter(after[i - 1], Tokens[i], rows)
    IN  after[Len(Tokens)]

\* The tokens print their bars of one time, or none.
PrintBars(bars) ==
    /\ clock < MaxClock
    /\ clock' = clock + 1
    /\ panel' = [c \in Mints |->
                   IF c \in DOMAIN bars
                   THEN Append(panel[c], [ts |-> clock + 1, bar |-> bars[c]]) ELSE panel[c]]
    /\ LET rows == [c \in DOMAIN bars |->
                      [idx |-> Len(panel[c]) + 1, ts |-> clock + 1, bar |-> bars[c]]]
           book == EnterAll(ManageAll([cash |-> cash, held |-> positions, out |-> trades], rows),
                            rows)
       IN  cash' = book.cash /\ positions' = book.held /\ trades' = book.out

SimulationNext ==
    \E printing \in SUBSET Mints :
        \E bars \in {f \in [printing -> UNION {BarsOf[c] : c \in Mints}] :
                        \A c \in printing : f[c] \in BarsOf[c]} : PrintBars(bars)

SimulationSpec == SimulationInit /\ [][SimulationNext]_simulationVars

\* What is still open is closed at the token's last price.
Backtest ==
    LET Last(c) == panel[c][Len(panel[c])]
        Brings(c) == Proceeds(positions[c].size, positions[c].price, Last(c).bar.close)
        open == {c \in Mints : positions[c].open}
    IN  [cash |-> cash + SumFunction([c \in open |-> Brings(c)]),
         out |-> trades \union
                   {Trade(c, positions[c].entry, Last(c).ts, positions[c].size, Brings(c)) :
                      c \in open}]

----------------------------------------------------------------------------
(* The engine: VectorEngine *)

\* _candidates: signals past the warm-up, whatever is open.
Signals == {s \in UNION {{c} \X DOMAIN panel[c] : c \in Mints} :
              s[2] > MinBars /\ panel[s[1]][s[2]].bar.signal}

\* One round of _resolve_exits; out is the bar a candidate left at.
Round(trade, b, row) ==
    LET bar == row.bar
        level == Larger(trade.stop, trade.trail)
        fades == IF bar.faded THEN trade.fades + 1 ELSE 0
        leaves == \/ bar.close >= trade.target
                  \/ row.ts - trade.entry >= MaxHold
                  \/ bar.faded /\ fades >= InvalidationBars
        high == Larger(trade.high, bar.close)
        arms == bar.close - trade.price >= ActivateAt /\ bar.close > trade.breakeven
        floor == IF arms /\ ~trade.armed THEN trade.breakeven ELSE trade.trail
    IN  IF trade.out # 0 THEN trade
        ELSE IF bar.low <= level THEN [trade EXCEPT !.out = b, !.at = level]
        ELSE IF leaves THEN [trade EXCEPT !.out = b, !.at = bar.close]
        ELSE [trade EXCEPT !.fades = fades, !.high = high, !.armed = @ \/ arms,
                           !.trail = IF arms \/ trade.armed
                                     THEN Larger(floor, Larger(high - TrailDistance,
                                                               trade.breakeven))
                                     ELSE @]

\* A candidate as it is entered.
Entered(row) ==
    LET price == Pct(row.bar.close, 100 + SlipPct)
    IN  [entry |-> row.ts, price |-> price, stop |-> price - Risk,
         target |-> price + RewardRisk * Risk,
         breakeven |-> Pct(price, 100 + 2 * FeePct + 2 * SlipPct),
         armed |-> FALSE, trail |-> 0, high |-> price, fades |-> 0, out |-> 0, at |-> 0]

\* The data or the horizon may end before the trade does.
LastBar(s) == Smaller(Len(panel[s[1]]), s[2] + Smaller(MaxHorizon, MaxHold + 2))

\* _resolve_exits for one candidate, bar by bar.
Followed(s) ==
    LET trade[b \in s[2] .. LastBar(s)] ==
            IF b = s[2] THEN Entered(panel[s[1]][b])
            ELSE Round(trade[b - 1], b, panel[s[1]][b])
    IN  trade

Resolve(s) ==
    LET rows == panel[s[1]]
        end == Followed(s)[LastBar(s)]
        out == IF end.out = 0 THEN LastBar(s) ELSE end.out
    IN  [mint |-> s[1], entry |-> rows[s[2]].ts, exit |-> rows[out].ts, price |-> end.price,
         at |-> IF end.out = 0 THEN rows[out].bar.close ELSE end.at,
         ended |-> end.out = 0]

\* A bug for the mutants: capital comes back the moment after an exit.
ReleasedLater(open, ts) == {p \in open : p.exit < ts}

\* realise: positions whose exit is no later than the candidate's entry.
Released(open, ts) == {p \in open : p.exit <= ts}

SizeOf(ps) == SumFunction([p \in ps |-> p.size])
ProceedsOf(ps) == SumFunction([p \in ps |-> p.proceeds])

\* One candidate of _sweep.
Take(b, s) ==
    LET back == Released(b.open, s.entry)
        open == b.open \ back
        balance == b.balance + ProceedsOf(back)
        deployed == SizeOf(open)
        wallet == balance + deployed
        cap == Smaller(Pct(wallet, WalletPct), Larger(0, Pct(wallet, TotalPct) - deployed))
        size == Smaller(cap, Pct(Liquidity[s.mint], LiquidityPct))
        proceeds == Proceeds(size, s.price, s.at)
        held == \E p \in open : p.mint = s.mint
        full == deployed >= Pct(wallet, TotalPct)
        alike == open # {} /\ s.entry \in Alike
        after == [b EXCEPT !.balance = balance, !.open = open,
                         !.early = @ \/ \E p \in back : p.ended]
    IN  IF held \/ full THEN after
        ELSE IF alike THEN [after EXCEPT !.refused = TRUE]
        ELSE IF size < MinPosition \/ size > balance THEN after
        ELSE [after EXCEPT !.balance = @ - size,
                         !.open = @ \union {[mint |-> s.mint, exit |-> s.exit, size |-> size,
                                             ended |-> s.ended, proceeds |-> proceeds]},
                         !.out = @ \union {Trade(s.mint, s.entry, s.exit, size, proceeds)}]

\* What the sweep makes of the bar a token printed at a time, if it did.
TakeAt(b, ts, c) ==
    LET bars == {k \in DOMAIN panel[c] : panel[c][k].ts = ts /\ <<c, k>> \in Signals}
    IN  IF bars = {} THEN b ELSE Take(b, Resolve(<<c, CHOOSE k \in bars : TRUE>>))

\* The candidates of one time, by mint.
SweepAt(b, ts) ==
    LET after[i \in 0 .. Len(Tokens)] ==
            IF i = 0 THEN b ELSE TakeAt(after[i - 1], ts, Tokens[i])
    IN  after[Len(Tokens)]

\* Candidates by time; what is open at the end comes back.
Sweep ==
    LET after[ts \in 0 .. clock] ==
            IF ts = 0 THEN [balance |-> StartBalance, open |-> {}, out |-> {},
                            refused |-> FALSE, early |-> FALSE]
            ELSE SweepAt(after[ts - 1], ts)
        swept == after[clock]
    IN  [swept EXCEPT !.balance = @ + ProceedsOf(swept.open)]

----------------------------------------------------------------------------

\* Trade for trade and to the same balance the engine is the backtest, as
\* tests/test_vector_parity.py and docs/OPTIMIZER.md:129 have it, at every
\* length of the data: unless the sweep refused a candidate for its correlation,
\* which the backtest has no notion of, or used capital of a position whose data
\* had ended, which the backtest keeps deployed to the end of all data.
EnginesAgree ==
    LET engine == Sweep
    IN  \/ engine.refused \/ engine.early
        \/ engine.out = Backtest.out /\ engine.balance = Backtest.cash
=============================================================================
