--------------------------- MODULE SimulationProofs ---------------------------
(***************************************************************************)
(* That the vectorised engine is the backtest: the same trades and the     *)
(* same balance at every length of the data, for all tokens, bars, rules   *)
(* of exit, costs and caps.  What the backtest was at each time is kept as *)
(* a history, and along it the sweep is shown to hold the same positions.  *)
(***************************************************************************)
EXTENDS Simulation, FoldProofs

----------------------------------------------------------------------------
(* Amounts *)

LEMMA ConstantsTyped ==
    /\ Risk \in Nat \ {0} /\ RewardRisk \in Nat \ {0} /\ InvalidationBars \in Nat \ {0}
    /\ MaxHold \in Nat \ {0} /\ MaxHold + 2 <= MaxHorizon /\ MaxHorizon \in Nat
    /\ MinBars \in Nat /\ ActivateAt \in Nat /\ TrailDistance \in Nat
    /\ FeePct \in Nat /\ SlipPct \in Nat /\ StartBalance \in Nat /\ MinPosition \in Nat
    /\ WalletPct \in Nat /\ TotalPct \in Nat /\ LiquidityPct \in Nat
    /\ Len(Tokens) \in Nat /\ DOMAIN Tokens = 1 .. Len(Tokens)
    /\ \A c \in Mints : Liquidity[c] \in Nat
  <1>1. /\ {Risk, RewardRisk, InvalidationBars, MaxHold, MaxHorizon} \subseteq Nat \ {0}
        /\ MaxHold + 2 <= MaxHorizon
    BY SimulationAssumption
  <1>2. /\ {MinBars, ActivateAt, TrailDistance, FeePct, SlipPct} \subseteq Nat
        /\ {StartBalance, MinPosition, WalletPct, TotalPct, LiquidityPct} \subseteq Nat
    BY SimulationAssumption
  <1>3. Len(Tokens) \in Nat /\ DOMAIN Tokens = 1 .. Len(Tokens)
    <2>1. Tokens \in Seq(Mints)
      BY SimulationAssumption
    <2>2. QED
      BY <2>1
  <1>4. \A c \in Mints : Liquidity[c] \in Nat
    BY SimulationAssumption
  <1>5. QED
    BY <1>1, <1>2, <1>3, <1>4

LEMMA PctInt == ASSUME NEW x \in Int, NEW p \in Int PROVE Pct(x, p) \in Int
  BY DEF Pct

\* A price and its costs is a price.
LEMMA PctPrice ==
    ASSUME NEW x \in Nat \ {0}, NEW p \in Nat
    PROVE  Pct(x, 100 + p) \in Nat \ {0}
  <1>1. x * p \in Nat
    OBVIOUS
  <1>2. x * (100 + p) = 100 * x + x * p
    OBVIOUS
  <1>3. QED
    BY <1>1, <1>2 DEF Pct

LEMMA ProceedsInt ==
    ASSUME NEW size \in Int, NEW bought \in Nat \ {0}, NEW sold \in Int
    PROVE  Proceeds(size, bought, sold) \in Int
  <1> DEFINE net == size - Pct(size, FeePct)
             price == Pct(sold, 100 - SlipPct)
             gross == (net * price) \div bought
  <1>1. FeePct \in Int /\ 100 - SlipPct \in Int
    BY ConstantsTyped
  <1>2. Pct(size, FeePct) \in Int /\ Pct(sold, 100 - SlipPct) \in Int
    BY <1>1, PctInt
  <1>a. net \in Int /\ price \in Int
    BY <1>2
  <1> HIDE DEF net, price
  <1>3. net * price \in Int
    BY <1>a
  <1>4. gross \in Int
    BY <1>3
  <1> HIDE DEF gross
  <1>5. gross - Pct(gross, FeePct) \in Int
    BY <1>1, <1>4, PctInt
  <1>6. QED
    BY <1>5 DEF Proceeds, net, price, gross

----------------------------------------------------------------------------
(* Types *)

\* A bar as the simulators read it.
Bars == {b \in [low : Int, close : Int, signal : BOOLEAN, faded : BOOLEAN] :
           0 < b.low /\ b.low <= b.close}

Events == [idx : Nat \ {0}, ts : Nat, bar : Bars]

HeldBy == [open : {TRUE}, entry : Nat, price : Nat \ {0}, size : Int, stop : Int,
           target : Int, armed : BOOLEAN, trail : Int, high : Int, count : Nat]

KeptBy == {NoPosition} \cup HeldBy

Closed == [mint : Mints, entry : Nat, exit : Nat, size : Int, pnl : Int]

EngineBooks == [cash : Int, held : [Mints -> KeptBy], out : SUBSET Closed]

\* The rows of one time.
RowsTyped(rows) == DOMAIN rows \subseteq Mints /\ \A c \in DOMAIN rows : rows[c] \in Events

LEMMA MintsFinite == IsFiniteSet(Mints)
  <1>1. DOMAIN Tokens = 1 .. Len(Tokens) /\ Len(Tokens) \in Nat
    BY ConstantsTyped
  <1>2. IsFiniteSet(DOMAIN Tokens)
    BY <1>1, FS_Interval
  <1>3. Tokens \in Surjection(DOMAIN Tokens, Mints)
    <2>0. Tokens \in Seq(Mints)
      BY SimulationAssumption
    <2>1. Tokens \in [DOMAIN Tokens -> Mints]
      BY <2>0
    <2>2. \A c \in Mints : \E i \in DOMAIN Tokens : Tokens[i] = c
      BY DEF Mints
    <2>3. QED
      BY <2>1, <2>2 DEF Surjection
  <1>4. QED
    BY <1>2, <1>3, FS_Surjection

LEMMA ExitPriceInt ==
    ASSUME NEW pos \in HeldBy, NEW ts \in Nat, NEW bar \in Bars
    PROVE  ExitPrice(pos, ts, bar) \in Int
  BY DEF ExitPrice, Larger, HeldBy, Bars

LEMMA UpdateTrailHeld ==
    ASSUME NEW pos \in HeldBy, NEW bar \in Bars
    PROVE  /\ UpdateTrail(pos, bar) \in HeldBy
           /\ UpdateTrail(pos, bar).entry = pos.entry
           /\ UpdateTrail(pos, bar).size = pos.size
           /\ UpdateTrail(pos, bar).price = pos.price
  <1> DEFINE even == Pct(pos.price, 100 + 2 * FeePct + 2 * SlipPct)
  <1>1. pos.price \in Int /\ 100 + 2 * FeePct + 2 * SlipPct \in Int /\ ActivateAt \in Int
        /\ TrailDistance \in Int
    BY ConstantsTyped DEF HeldBy
  <1>2. even \in Int
    BY <1>1, PctInt
  <1> DEFINE high == Larger(pos.high, bar.close)
             armed == pos.armed \/ (bar.close - pos.price >= ActivateAt /\ bar.close > even)
             trail == IF armed THEN Larger(high - TrailDistance, Larger(even, pos.trail))
                               ELSE pos.trail
             count == IF bar.faded THEN pos.count + 1 ELSE 0
  <1> HIDE DEF even
  <1>3. high \in Int /\ bar.close \in Int
    BY DEF HeldBy, Bars, Larger
  <1>4. armed \in BOOLEAN /\ count \in Nat
    BY DEF HeldBy
  <1>5. trail \in Int
    BY <1>1, <1>2, <1>3 DEF Larger, HeldBy
  <1>6. UpdateTrail(pos, bar)
          = [pos EXCEPT !.count = count, !.high = high, !.armed = armed, !.trail = trail]
    BY DEF UpdateTrail, even
  <1> HIDE DEF high, armed, trail, count
  <1>7. QED
    BY <1>3, <1>4, <1>5, <1>6 DEF HeldBy

LEMMA OpenAtHeld ==
    ASSUME NEW c \in Mints, NEW ts \in Nat, NEW close \in Nat \ {0}, NEW size \in Int
    PROVE  OpenAt(c, ts, close, size) \in HeldBy
  <1>0. Risk \in Int /\ RewardRisk \in Int /\ SlipPct \in Nat
    BY ConstantsTyped
  <1>1. Pct(close, 100 + SlipPct) \in Nat \ {0}
    BY <1>0, PctPrice
  <1>2. Risk * RewardRisk \in Int
    BY <1>0
  <1>3. QED
    BY <1>0, <1>1, <1>2 DEF OpenAt, HeldBy

LEMMA KeptIs ==
    ASSUME NEW pos \in KeptBy
    PROVE  pos.open \in BOOLEAN /\ (pos.open => pos \in HeldBy) /\ (pos \in HeldBy => pos.open)
  <1>1. CASE pos = NoPosition
    <2>1. pos.open = FALSE
      BY <1>1 DEF NoPosition
    <2>2. pos \notin HeldBy
      BY <2>1 DEF HeldBy
    <2>3. QED
      BY <2>1, <2>2
  <1>2. CASE pos \in HeldBy
    BY <1>2 DEF HeldBy
  <1>3. QED
    BY <1>1, <1>2 DEF KeptBy

\* A column over some mints adds up.
LEMMA MintSumInt ==
    ASSUME NEW S \in SUBSET Mints, NEW f, DOMAIN f = S, \A c \in S : f[c] \in Int
    PROVE  IsFiniteSet(S) /\ SumFunction(f) \in Int /\ SumFunction(f) = SumFunctionOnSet(f, S)
  <1>1. IsFiniteSet(S)
    BY MintsFinite, FS_Subset
  <1>2. SumFunctionOnSet(f, S) \in Int
    BY <1>1, SumFacts
  <1>3. QED
    BY <1>1, <1>2 DEF SumFunction

LEMMA DeployedInt ==
    ASSUME NEW held \in [Mints -> KeptBy]
    PROVE  Deployed(held) \in Int
  <1> DEFINE S == {m \in Mints : held[m].open}
             f == [c \in S |-> held[c].size]
  <1>1. \A c \in S : f[c] \in Int
    BY KeptIs DEF HeldBy
  <1>2. S \in SUBSET Mints /\ DOMAIN f = S
    OBVIOUS
  <1>3. Deployed(held) = SumFunction(f)
    BY DEF Deployed
  <1> HIDE DEF S, f
  <1>4. QED
    BY <1>1, <1>2, <1>3, MintSumInt

LEMMA SizePositionInt ==
    ASSUME NEW wallet \in Int, NEW deployed \in Int, NEW liquidity \in Int
    PROVE  SizePosition(wallet, deployed, liquidity) \in Int
  <1>0. WalletPct \in Int /\ LiquidityPct \in Int /\ TotalPct \in Int
    BY ConstantsTyped
  <1>1. /\ Pct(wallet, WalletPct) \in Int /\ Pct(liquidity, LiquidityPct) \in Int
        /\ Pct(wallet, TotalPct) \in Int
    BY <1>0, PctInt
  <1>2. QED
    BY <1>1 DEF SizePosition, Smaller, Larger

LEMMA EnterTyped ==
    ASSUME NEW b \in EngineBooks, NEW c \in Mints, NEW rows, RowsTyped(rows)
    PROVE  Enter(b, c, rows) \in EngineBooks
  <1> DEFINE deployed == Deployed(b.held)
             size == SizePosition(b.cash + deployed, deployed, Liquidity[c])
             pos == OpenAt(c, rows[c].ts, rows[c].bar.close, size)
  <1>1. b.cash \in Int /\ b.held \in [Mints -> KeptBy] /\ b.out \in SUBSET Closed
    BY DEF EngineBooks
  <1>2. deployed \in Int
    BY <1>1, DeployedInt
  <1>3. size \in Int
    <2>1. Liquidity[c] \in Int
      BY ConstantsTyped
    <2> HIDE DEF deployed
    <2>2. b.cash + deployed \in Int
      BY <1>1, <1>2
    <2>3. QED
      BY <1>2, <2>1, <2>2, SizePositionInt
  <1>4. Enter(b, c, rows) = b \/ /\ c \in DOMAIN rows
                                 /\ Enter(b, c, rows) = [b EXCEPT !.cash = b.cash - size, !.held[c] = pos]
    BY DEF Enter
  <1> HIDE DEF deployed, size
  <1>5. ASSUME c \in DOMAIN rows
        PROVE  [b EXCEPT !.cash = b.cash - size, !.held[c] = pos] \in EngineBooks
    <2>1. rows[c].ts \in Nat /\ rows[c].bar.close \in Nat \ {0}
      BY <1>5 DEF RowsTyped, Events, Bars
    <2>2. pos \in KeptBy
      BY <1>3, <2>1, OpenAtHeld DEF KeptBy
    <2>3. b.cash - size \in Int
      BY <1>1, <1>3
    <2> HIDE DEF pos
    <2>4. [b.held EXCEPT ![c] = pos] \in [Mints -> KeptBy]
      BY <1>1, <2>2
    <2>5. QED
      BY <1>1, <2>3, <2>4 DEF EngineBooks
  <1>6. QED
    BY <1>4, <1>5

\* EnterAll is Enter of one token after the other.
LEMMA EnterAllIs ==
    ASSUME NEW book \in EngineBooks, NEW rows, RowsTyped(rows)
    PROVE  \E g \in [0 .. Len(Tokens) -> EngineBooks] :
              /\ g[0] = book
              /\ \A i \in 1 .. Len(Tokens) : g[i] = Enter(g[i - 1], Tokens[i], rows)
              /\ EnterAll(book, rows) = g[Len(Tokens)]
  <1> DEFINE N == Len(Tokens)
             F == [i \in 1 .. N |-> [b \in EngineBooks |-> Enter(b, Tokens[i], rows)]]
             Step(g) == [i \in 0 .. N |-> IF i = 0 THEN book ELSE Enter(g[i - 1], Tokens[i], rows)]
             it == CHOOSE g : g = Step(g)
  <1>1. EnterAll(book, rows) = it[N]
    BY DEF EnterAll
  <1>2. N \in Nat /\ \A i \in 1 .. N : Tokens[i] \in Mints
    BY ConstantsTyped DEF Mints
  <1> HIDE DEF N
  <1>3. \A i \in 1 .. N : \A b \in EngineBooks : F[i][b] = Enter(b, Tokens[i], rows) /\ F[i][b] \in EngineBooks
    BY <1>2, EnterTyped
  <1> HIDE DEF F
  <1>4. PICK g \in [0 .. N -> EngineBooks] : Recurs(g, book, F, 0, N)
    <2>1. 0 \in Int /\ N \in Int /\ 0 <= N /\ 0 + 1 = 1
      BY <1>2
    <2>2. QED
      BY <1>3, <2>1, Recursion
  <1>5. g = Step(g)
    <2>a. \A i \in 1 .. N : i - 1 \in 0 .. N /\ i \in (0 + 1) .. N
      BY <1>2
    <2>b. g[0] = book /\ \A i \in (0 + 1) .. N : g[i] = F[i][g[i - 1]]
      BY <1>4 DEF Recurs
    <2>1. \A i \in 1 .. N : g[i - 1] \in EngineBooks /\ g[i] = F[i][g[i - 1]]
      BY <1>4, <2>a, <2>b
    <2>2. \A i \in 0 .. N : g[i] = Step(g)[i]
      <3>1. \A i \in 1 .. N : g[i] = Enter(g[i - 1], Tokens[i], rows)
        BY <1>3, <2>1
      <3>2. QED
        BY <1>2, <2>b, <3>1
    <2>3. QED
      BY <1>4, <2>2
  <1>6. it = Step(it)
    BY <1>5
  <1> HIDE DEF it
  <1>7. it[0] = book /\ DOMAIN it = 0 .. N /\ \A i \in 1 .. N : it[i] = Enter(it[i - 1], Tokens[i], rows)
    <2>1. \A i \in 0 .. N : it[i] = Step(it)[i]
      BY <1>6
    <2>2. DOMAIN it = 0 .. N
      BY <1>6
    <2>3. QED
      BY <1>2, <2>1, <2>2
  <1>8. it \in [0 .. N -> EngineBooks]
    <2> DEFINE S == {i \in 0 .. N : it[i] \in EngineBooks}
    <2>1. 0 \in S
      BY <1>2, <1>7
    <2>2. ASSUME NEW i \in 0 .. N, i \in S, i < N
          PROVE  i + 1 \in S
      <3>1. i + 1 \in 1 .. N /\ (i + 1) - 1 = i /\ i + 1 \in 0 .. N
        BY <1>2, <2>2
      <3>2. it[i + 1] = Enter(it[i], Tokens[i + 1], rows)
        BY <1>7, <3>1
      <3>3. it[i + 1] \in EngineBooks
        BY <1>2, <2>2, <3>1, <3>2, EnterTyped
      <3>4. QED
        BY <3>1, <3>3
    <2> HIDE DEF S
    <2>3. 0 .. N \subseteq S
      BY <1>2, <2>1, <2>2, RangeInduction
    <2>4. \A i \in 0 .. N : it[i] \in EngineBooks
      BY <2>3 DEF S
    <2>5. QED
      BY <1>6, <2>4
  <1>9. QED
    BY <1>1, <1>7, <1>8 DEF N

LEMMA ManageAllTyped ==
    ASSUME NEW b \in EngineBooks, NEW rows, RowsTyped(rows)
    PROVE  ManageAll(b, rows) \in EngineBooks
  <1> DEFINE Price(c) == ExitPrice(b.held[c], rows[c].ts, rows[c].bar)
             Brings(c) == Proceeds(b.held[c].size, b.held[c].price, Price(c))
             managed == {c \in DOMAIN rows : b.held[c].open}
             left == {c \in managed : Price(c) # 0}
             gains == [c \in left |-> Brings(c)]
             held == [c \in Mints |-> IF c \in left THEN NoPosition
                                      ELSE IF c \in managed THEN UpdateTrail(b.held[c], rows[c].bar)
                                      ELSE b.held[c]]
             out == {Trade(c, b.held[c].entry, rows[c].ts, b.held[c].size, Brings(c)) : c \in left}
  <1>1. b.cash \in Int /\ b.held \in [Mints -> KeptBy] /\ b.out \in SUBSET Closed
    BY DEF EngineBooks
  <1>2. ManageAll(b, rows) = [cash |-> b.cash + SumFunction(gains), held |-> held,
                              out |-> b.out \union out]
    BY DEF ManageAll
  <1>3. ASSUME NEW c \in managed
        PROVE  /\ c \in Mints /\ b.held[c] \in HeldBy /\ rows[c] \in Events
               /\ Brings(c) \in Int
    <2>1. c \in Mints /\ b.held[c] \in HeldBy /\ rows[c] \in Events
      BY <1>1, <1>3, KeptIs DEF RowsTyped
    <2>2. rows[c].ts \in Nat /\ rows[c].bar \in Bars
      BY <2>1 DEF Events
    <2>3. Price(c) \in Int
      BY <2>1, <2>2, ExitPriceInt
    <2> HIDE DEF Price
    <2>4. b.held[c].size \in Int /\ b.held[c].price \in Nat \ {0}
      BY <2>1 DEF HeldBy
    <2>5. QED
      BY <2>1, <2>3, <2>4, ProceedsInt
  <1>4. SumFunction(gains) \in Int
    <2>1. left \in SUBSET Mints /\ DOMAIN gains = left
      BY <1>3
    <2>2. \A c \in left : gains[c] \in Int
      BY <1>3
    <2> HIDE DEF gains, left
    <2>3. QED
      BY <2>1, <2>2, MintSumInt
  <1>5. held \in [Mints -> KeptBy]
    <2>1. ASSUME NEW c \in Mints PROVE held[c] \in KeptBy
      <3>1. CASE c \in left
        BY <3>1 DEF KeptBy
      <3>2. CASE c \notin left /\ c \in managed
        <4>1. b.held[c] \in HeldBy /\ rows[c].bar \in Bars
          BY <1>3, <3>2 DEF Events
        <4>2. UpdateTrail(b.held[c], rows[c].bar) \in HeldBy
          BY <4>1, UpdateTrailHeld
        <4>3. QED
          BY <3>2, <4>2 DEF KeptBy
      <3>3. CASE c \notin left /\ c \notin managed
        BY <1>1, <3>3
      <3>4. QED
        BY <3>1, <3>2, <3>3
    <2>2. QED
      BY <2>1
  <1>6. out \subseteq Closed
    <2>1. ASSUME NEW c \in left
          PROVE  Trade(c, b.held[c].entry, rows[c].ts, b.held[c].size, Brings(c)) \in Closed
      <3>1. c \in managed
        BY <2>1
      <3>2. /\ c \in Mints /\ b.held[c].entry \in Nat /\ b.held[c].size \in Int
            /\ rows[c].ts \in Nat /\ Brings(c) \in Int
        BY <1>3, <3>1 DEF HeldBy, Events
      <3> HIDE DEF Brings
      <3>3. QED
        BY <3>2 DEF Trade, Closed
    <2>2. QED
      BY <2>1
  <1> HIDE DEF gains, held, out
  <1>7. QED
    BY <1>1, <1>2, <1>4, <1>5, <1>6 DEF EngineBooks

LEMMA EnterAllTyped ==
    ASSUME NEW b \in EngineBooks, NEW rows, RowsTyped(rows)
    PROVE  EnterAll(b, rows) \in EngineBooks
  <1>1. Len(Tokens) \in 0 .. Len(Tokens)
    BY ConstantsTyped
  <1>2. QED
    BY <1>1, EnterAllIs

----------------------------------------------------------------------------
(* One candidate *)

BarRow == [ts : Nat, bar : Bars]

\* Each token's bars are in time, and none is later than now.
PanelOK ==
    /\ clock \in Nat
    /\ panel \in [Mints -> Seq(BarRow)]
    /\ \A c \in Mints :
         /\ Len(panel[c]) \in Nat /\ DOMAIN panel[c] = 1 .. Len(panel[c])
         /\ \A k \in DOMAIN panel[c] : panel[c][k] \in BarRow /\ panel[c][k].ts \in 1 .. clock
         /\ \A i, j \in DOMAIN panel[c] : i < j => panel[c][i].ts < panel[c][j].ts

\* What the engine keeps of a candidate it follows.
Pursuits == [entry : Int, price : Nat \ {0}, stop : Int, target : Int, breakeven : Int,
             armed : BOOLEAN, trail : Int, high : Int, fades : Nat, out : Nat, at : Int]

LEMMA LastBarIs ==
    ASSUME PanelOK, NEW c \in Mints, NEW k \in DOMAIN panel[c]
    PROVE  /\ LastBar(<<c, k>>) \in k .. Len(panel[c]) /\ k \in Nat \ {0}
           /\ LastBar(<<c, k>>) = Len(panel[c]) \/ LastBar(<<c, k>>) = k + MaxHold + 2
  <1>1. Len(panel[c]) \in Nat /\ k \in 1 .. Len(panel[c])
    BY DEF PanelOK
  <1>2. MaxHold \in Nat /\ MaxHorizon \in Nat /\ MaxHold + 2 <= MaxHorizon
    BY ConstantsTyped
  <1>3. LastBar(<<c, k>>) = Smaller(Len(panel[c]), k + Smaller(MaxHorizon, MaxHold + 2))
    BY DEF LastBar
  <1>4. Smaller(MaxHorizon, MaxHold + 2) = MaxHold + 2
    BY <1>2 DEF Smaller
  <1>5. QED
    BY <1>1, <1>2, <1>3, <1>4 DEF Smaller

LEMMA EnteredTyped ==
    ASSUME NEW row \in BarRow
    PROVE  Entered(row) \in Pursuits
  <1> DEFINE price == Pct(row.bar.close, 100 + SlipPct)
             even == Pct(price, 100 + 2 * FeePct + 2 * SlipPct)
  <1>1. row.bar.close \in Nat \ {0} /\ row.ts \in Int
    BY DEF BarRow, Bars
  <1>2. SlipPct \in Nat /\ Risk \in Int /\ RewardRisk \in Int
        /\ 100 + 2 * FeePct + 2 * SlipPct \in Int
    BY ConstantsTyped
  <1>3. price \in Nat \ {0}
    BY <1>1, <1>2, PctPrice
  <1> HIDE DEF price
  <1>4. even \in Int
    BY <1>2, <1>3, PctInt
  <1>5. price - Risk \in Int /\ price + RewardRisk * Risk \in Int
    BY <1>2, <1>3
  <1>6. Entered(row) = [entry |-> row.ts, price |-> price, stop |-> price - Risk,
                        target |-> price + RewardRisk * Risk, breakeven |-> even,
                        armed |-> FALSE, trail |-> 0, high |-> price, fades |-> 0,
                        out |-> 0, at |-> 0]
    BY DEF Entered, price
  <1> HIDE DEF even
  <1>7. QED
    BY <1>1, <1>3, <1>4, <1>5, <1>6 DEF Pursuits

\* What one round may do to a candidate: it left before, leaves now, or goes on.
LEMMA RoundIs ==
    ASSUME NEW trade \in Pursuits, NEW b \in Nat \ {0}, NEW row \in BarRow
    PROVE  /\ Round(trade, b, row) \in Pursuits
           /\ Round(trade, b, row).price = trade.price
           /\ Round(trade, b, row).entry = trade.entry
           /\ trade.out # 0 => Round(trade, b, row) = trade
           /\ Round(trade, b, row).out \in {trade.out, b}
  <1> DEFINE bar == row.bar
             level == Larger(trade.stop, trade.trail)
             fades == IF bar.faded THEN trade.fades + 1 ELSE 0
             leaves == \/ bar.close >= trade.target
                       \/ row.ts - trade.entry >= MaxHold
                       \/ bar.faded /\ fades >= InvalidationBars
             high == Larger(trade.high, bar.close)
             arms == bar.close - trade.price >= ActivateAt /\ bar.close > trade.breakeven
             floor == IF arms /\ ~trade.armed THEN trade.breakeven ELSE trade.trail
             armed == trade.armed \/ arms
             trail == IF arms \/ trade.armed
                      THEN Larger(floor, Larger(high - TrailDistance, trade.breakeven))
                      ELSE trade.trail
             stays == [trade EXCEPT !.fades = fades, !.high = high, !.armed = armed, !.trail = trail]
  <1>1. Round(trade, b, row)
           = IF trade.out # 0 THEN trade
             ELSE IF bar.low <= level THEN [trade EXCEPT !.out = b, !.at = level]
             ELSE IF leaves THEN [trade EXCEPT !.out = b, !.at = bar.close]
             ELSE stays
    BY DEF Round
  <1>2. bar.close \in Int /\ TrailDistance \in Int /\ bar.faded \in BOOLEAN
    BY ConstantsTyped DEF BarRow, Bars
  <1>3. level \in Int /\ high \in Int /\ fades \in Nat
    BY <1>2 DEF Pursuits, Larger
  <1>4. trail \in Int /\ armed \in BOOLEAN
    BY <1>2, <1>3 DEF Pursuits, Larger
  <1> HIDE DEF bar, level, leaves, fades, high, armed, trail
  <1>5. stays \in Pursuits /\ stays.price = trade.price /\ stays.out = trade.out
        /\ stays.entry = trade.entry
    BY <1>3, <1>4 DEF Pursuits
  <1> HIDE DEF stays
  <1>6. \A x \in Int : LET out == [trade EXCEPT !.out = b, !.at = x]
                       IN  /\ out \in Pursuits /\ out.price = trade.price /\ out.out = b
                           /\ out.entry = trade.entry
    BY DEF Pursuits
  <1>7. QED
    BY <1>1, <1>2, <1>3, <1>5, <1>6

\* Followed is Round of one bar after the other.
LEMMA FollowedIs ==
    ASSUME PanelOK, NEW c \in Mints, NEW k \in DOMAIN panel[c]
    PROVE  LET f == Followed(<<c, k>>)
               n == LastBar(<<c, k>>)
           IN  /\ f \in [k .. n -> Pursuits]
               /\ f[k] = Entered(panel[c][k])
               /\ \A b \in (k + 1) .. n : f[b] = Round(f[b - 1], b, panel[c][b])
  <1> DEFINE n == LastBar(<<c, k>>)
             rows == panel[c]
             F == [b \in (k + 1) .. n |-> [x \in Pursuits |-> Round(x, b, rows[b])]]
             Step(g) == [b \in k .. n |-> IF b = k THEN Entered(rows[b])
                                          ELSE Round(g[b - 1], b, rows[b])]
             it == CHOOSE g : g = Step(g)
  <1>1. Followed(<<c, k>>) = it
    BY DEF Followed
  <1>2. k \in Int /\ n \in Int /\ k <= n /\ k \in Nat \ {0} /\ n <= Len(rows) /\ Len(rows) \in Nat
    BY LastBarIs DEF PanelOK
  <1>3. \A b \in k .. n : rows[b] \in BarRow /\ b \in Nat \ {0}
    BY <1>2 DEF PanelOK
  <1> HIDE DEF n, rows
  <1>4. \A b \in (k + 1) .. n : b \in k .. n /\ b - 1 \in k .. n /\ b # k
    BY <1>2
  <1>5. \A b \in (k + 1) .. n : \A x \in Pursuits : F[b][x] = Round(x, b, rows[b]) /\ F[b][x] \in Pursuits
    BY <1>3, <1>4, RoundIs
  <1> HIDE DEF F
  <1>6. Entered(rows[k]) \in Pursuits
    BY <1>2, <1>3, EnteredTyped
  <1>7. PICK g \in [k .. n -> Pursuits] : Recurs(g, Entered(rows[k]), F, k, n)
    BY <1>2, <1>5, <1>6, Recursion
  <1>8. g = Step(g)
    <2>1. g[k] = Entered(rows[k]) /\ \A b \in (k + 1) .. n : g[b] = F[b][g[b - 1]]
      BY <1>7 DEF Recurs
    <2>2. \A b \in (k + 1) .. n : g[b] = Round(g[b - 1], b, rows[b])
      BY <1>4, <1>5, <1>7, <2>1
    <2>3. \A b \in k .. n : b = k \/ b \in (k + 1) .. n
      BY <1>2
    <2>4. \A b \in k .. n : g[b] = Step(g)[b]
      BY <2>1, <2>2, <2>3
    <2>5. QED
      BY <1>7, <2>4
  <1>9. it = Step(it)
    BY <1>8
  <1> HIDE DEF it
  <1>10. DOMAIN it = k .. n /\ \A b \in k .. n : it[b] = Step(it)[b]
    BY <1>9
  <1>11. it[k] = Entered(rows[k])
    BY <1>2, <1>10
  <1>12. \A b \in (k + 1) .. n : it[b] = Round(it[b - 1], b, rows[b])
    BY <1>4, <1>10
  <1>13. it \in [k .. n -> Pursuits]
    <2> DEFINE S == {i \in k .. n : it[i] \in Pursuits}
    <2>1. k \in S
      BY <1>2, <1>6, <1>11
    <2>2. ASSUME NEW i \in k .. n, i \in S, i < n
          PROVE  i + 1 \in S
      <3>1. i + 1 \in (k + 1) .. n /\ (i + 1) - 1 = i /\ i + 1 \in k .. n
        BY <1>2, <2>2
      <3>2. it[i + 1] = Round(it[i], i + 1, rows[i + 1])
        BY <1>12, <3>1
      <3>3. it[i + 1] \in Pursuits
        BY <1>3, <2>2, <3>1, <3>2, RoundIs
      <3>4. QED
        BY <3>1, <3>3
    <2> HIDE DEF S
    <2>3. k .. n \subseteq S
      BY <1>2, <2>1, <2>2, RangeInduction
    <2>4. \A i \in k .. n : it[i] \in Pursuits
      BY <2>3 DEF S
    <2>5. QED
      BY <1>9, <2>4
  <1>14. QED
    BY <1>1, <1>11, <1>12, <1>13 DEF n, rows

\* How a candidate ends, seen from any of its bars.
LEMMA EndIs ==
    ASSUME PanelOK, NEW c \in Mints, NEW k \in DOMAIN panel[c], NEW j \in k .. LastBar(<<c, k>>)
    PROVE  LET f == Followed(<<c, k>>)
               n == LastBar(<<c, k>>)
           IN  /\ f[n].price = f[j].price
               /\ f[j].out # 0 => f[n] = f[j]
               /\ f[j].out = 0 => f[n].out = 0 \/ f[n].out \in (j + 1) .. n
  <1> DEFINE f == Followed(<<c, k>>)
             n == LastBar(<<c, k>>)
             S == {i \in k .. n : /\ f[n].price = f[i].price
                                  /\ f[i].out # 0 => f[n] = f[i]
                                  /\ f[i].out = 0 => f[n].out = 0 \/ f[n].out \in (i + 1) .. n}
  <1>1. k \in Int /\ n \in Int /\ k <= n /\ k \in Nat \ {0} /\ n <= Len(panel[c]) /\ Len(panel[c]) \in Nat
    BY LastBarIs DEF PanelOK
  <1>2. /\ f \in [k .. n -> Pursuits]
        /\ \A b \in (k + 1) .. n : f[b] = Round(f[b - 1], b, panel[c][b])
    BY FollowedIs
  <1>3. \A b \in k .. n : panel[c][b] \in BarRow /\ b \in Nat \ {0}
    BY <1>1 DEF PanelOK
  <1> HIDE DEF n, f
  <1>4. n \in S
    BY <1>1
  <1>5. ASSUME NEW i \in k .. n, i \in S, k < i
        PROVE  i - 1 \in S
    <2>1. i \in (k + 1) .. n /\ i - 1 \in k .. n /\ (i - 1) + 1 = i
      BY <1>1, <1>5
    <2>2. f[i] = Round(f[i - 1], i, panel[c][i]) /\ f[i - 1] \in Pursuits
      BY <1>2, <2>1
    <2>3. /\ f[i].price = f[i - 1].price
          /\ f[i - 1].out # 0 => f[i] = f[i - 1]
          /\ f[i].out \in {f[i - 1].out, i}
      BY <1>3, <2>1, <2>2, RoundIs
    <2>4. f[n].price = f[i].price /\ (f[i].out # 0 => f[n] = f[i])
          /\ (f[i].out = 0 => f[n].out = 0 \/ f[n].out \in (i + 1) .. n)
      BY <1>5
    <2>5. f[i - 1].out = 0 => f[n].out = 0 \/ f[n].out \in i .. n
      <3>1. CASE f[i].out = 0
        <4>1. (i + 1) .. n \subseteq i .. n
          OBVIOUS
        <4>2. QED
          BY <2>4, <3>1, <4>1
      <3>2. CASE f[i].out # 0 /\ f[i - 1].out = 0
        <4>1. f[n].out = i
          BY <2>3, <2>4, <3>2
        <4>2. QED
          BY <4>1
      <3>3. QED
        BY <3>1, <3>2
    <2>6. f[i - 1].out # 0 => f[n] = f[i - 1]
      BY <2>3, <2>4
    <2>7. QED
      BY <2>1, <2>3, <2>4, <2>5, <2>6
  <1> HIDE DEF S
  <1>6. k .. n \subseteq S
    BY <1>1, <1>4, <1>5, DownInduction
  <1>7. j \in S
    BY <1>6 DEF n
  <1>8. QED
    BY <1>7 DEF S, n, f

\* What Resolve finds of a candidate.
Candidates == [mint : Mints, entry : Nat, exit : Nat, price : Nat \ {0}, at : Int,
               ended : BOOLEAN]

LEMMA ResolveIs ==
    ASSUME PanelOK, NEW c \in Mints, NEW k \in DOMAIN panel[c]
    PROVE  LET n == LastBar(<<c, k>>)
               end == Followed(<<c, k>>)[n]
               r == Resolve(<<c, k>>)
           IN  /\ r \in Candidates
               /\ r.mint = c /\ r.entry = panel[c][k].ts /\ r.price = end.price
               /\ r.ended = (end.out = 0)
               /\ end.out = 0 => r.exit = panel[c][n].ts /\ r.at = panel[c][n].bar.close
               /\ end.out # 0 => r.exit = panel[c][end.out].ts /\ r.at = end.at
  <1> DEFINE n == LastBar(<<c, k>>)
             f == Followed(<<c, k>>)
             end == f[n]
             out == IF end.out = 0 THEN n ELSE end.out
             at == IF end.out = 0 THEN panel[c][out].bar.close ELSE end.at
             ended == end.out = 0
  <1>1. n \in k .. Len(panel[c]) /\ k \in Nat \ {0} /\ Len(panel[c]) \in Nat
        /\ DOMAIN panel[c] = 1 .. Len(panel[c])
    BY LastBarIs DEF PanelOK
  <1>2. f \in [k .. n -> Pursuits] /\ f[k] = Entered(panel[c][k])
    BY FollowedIs
  <1>3. k \in k .. LastBar(<<c, k>>)
    BY <1>1
  <1>4. f[k].out = 0
    BY <1>2 DEF Entered
  <1>5. end.out = 0 \/ end.out \in (k + 1) .. n
    BY <1>3, <1>4, EndIs
  <1>6. end \in Pursuits
    BY <1>1, <1>2
  <1>7. Resolve(<<c, k>>)
          = [mint |-> c, entry |-> panel[c][k].ts, exit |-> panel[c][out].ts,
             price |-> end.price,
             at |-> at, ended |-> ended]
    BY DEF Resolve
  <1> HIDE DEF n, f
  <1>8. out \in DOMAIN panel[c]
    BY <1>1, <1>5
  <1>9. panel[c][k] \in BarRow /\ panel[c][out] \in BarRow
    BY <1>8 DEF PanelOK
  <1>10. /\ panel[c][k].ts \in Nat /\ panel[c][out].ts \in Nat
         /\ panel[c][out].bar.close \in Int
    BY <1>9 DEF BarRow, Bars
  <1>11. end.price \in Nat \ {0} /\ end.at \in Int /\ end.out \in Nat
    BY <1>6 DEF Pursuits
  <1>a. at \in Int /\ ended \in BOOLEAN
    BY <1>10, <1>11
  <1> HIDE DEF out, end, at, ended
  <1>12. Resolve(<<c, k>>) \in Candidates
    BY <1>7, <1>10, <1>11, <1>a DEF Candidates
  <1>13. QED
    BY <1>7, <1>12 DEF n, f, out, end, at, ended

\* Bars are a moment apart or more, so a count of bars is a bound on time.
LEMMA GapLemma ==
    ASSUME PanelOK, NEW c \in Mints, NEW k \in DOMAIN panel[c], NEW j \in DOMAIN panel[c], k <= j
    PROVE  j - k <= panel[c][j].ts - panel[c][k].ts
  <1> DEFINE row == panel[c]
             S == {i \in k .. Len(row) : i - k <= row[i].ts - row[k].ts}
  <1>1. /\ Len(row) \in Nat /\ DOMAIN row = 1 .. Len(row)
        /\ \A i \in DOMAIN row : row[i].ts \in 1 .. clock
        /\ \A i, l \in DOMAIN row : i < l => row[i].ts < row[l].ts
    BY DEF PanelOK
  <1> HIDE DEF row
  <1>2. k \in 1 .. Len(row) /\ j \in k .. Len(row)
    BY <1>1 DEF row
  <1>a. \A i \in 1 .. Len(row) : row[i].ts \in Int
    BY <1>1
  <1>3. k \in S
    BY <1>1, <1>2, <1>a
  <1>4. ASSUME NEW i \in k .. Len(row), i \in S, i < Len(row)
        PROVE  i + 1 \in S
    <2>1. i \in 1 .. Len(row) /\ i + 1 \in 1 .. Len(row) /\ i + 1 \in k .. Len(row)
      BY <1>1, <1>2, <1>4
    <2>2. row[i].ts < row[i + 1].ts
      BY <1>1, <2>1
    <2>3. i - k <= row[i].ts - row[k].ts
      BY <1>4
    <2>a. row[i].ts \in Int /\ row[i + 1].ts \in Int /\ row[k].ts \in Int /\ i \in Int /\ k \in Int
      BY <1>2, <1>a, <2>1
    <2>4. (i + 1) - k <= row[i + 1].ts - row[k].ts
      BY <2>2, <2>3, <2>a
    <2>5. QED
      BY <2>1, <2>4
  <1> HIDE DEF S
  <1>5. k .. Len(row) \subseteq S
    <2>1. k \in Int /\ Len(row) \in Int
      BY <1>1, <1>2
    <2>2. QED
      BY <1>3, <1>4, <2>1, RangeInduction
  <1>6. QED
    BY <1>2, <1>5 DEF S, row

\* The position the backtest holds is the candidate the engine follows.
Match(pos, trade) ==
    /\ trade.out = 0
    /\ trade.entry = pos.entry /\ trade.price = pos.price
    /\ trade.stop = pos.stop /\ trade.target = pos.target
    /\ trade.armed = pos.armed /\ trade.trail = pos.trail
    /\ trade.high = pos.high /\ trade.fades = pos.count
    /\ trade.breakeven = Pct(pos.price, 100 + 2 * FeePct + 2 * SlipPct)
    /\ ~pos.armed => pos.trail = 0

LEMMA OpenMatches ==
    ASSUME NEW row \in BarRow, NEW c \in Mints, NEW size \in Int
    PROVE  Match(OpenAt(c, row.ts, row.bar.close, size), Entered(row))
  <1> DEFINE price == Pct(row.bar.close, 100 + SlipPct)
  <1>1. Risk \in Int /\ RewardRisk \in Int
    BY ConstantsTyped
  <1>2. Risk * RewardRisk = RewardRisk * Risk
    BY <1>1
  <1>3. OpenAt(c, row.ts, row.bar.close, size)
          = [open |-> TRUE, entry |-> row.ts, price |-> price, size |-> size,
             stop |-> price - Risk, target |-> price + Risk * RewardRisk,
             armed |-> FALSE, trail |-> 0, high |-> price, count |-> 0]
    BY DEF OpenAt
  <1>4. Entered(row) = [entry |-> row.ts, price |-> price, stop |-> price - Risk,
                        target |-> price + RewardRisk * Risk,
                        breakeven |-> Pct(price, 100 + 2 * FeePct + 2 * SlipPct),
                        armed |-> FALSE, trail |-> 0, high |-> price, fades |-> 0,
                        out |-> 0, at |-> 0]
    BY DEF Entered
  <1> HIDE DEF price
  <1>5. QED
    BY <1>2, <1>3, <1>4 DEF Match

\* A round of the engine does to the candidate what a bar of the backtest does
\* to the position: both leave, at one price, or both go on and still match.
LEMMA RoundMatches ==
    ASSUME NEW pos \in HeldBy, NEW trade \in Pursuits, Match(pos, trade),
           NEW b \in Nat \ {0}, NEW row \in BarRow
    PROVE  LET price == ExitPrice(pos, row.ts, row.bar)
               next == Round(trade, b, row)
           IN  /\ price # 0 => next.out = b /\ next.at = price
               /\ price = 0 => /\ Match(UpdateTrail(pos, row.bar), next)
                               /\ row.ts - pos.entry < MaxHold
  <1> DEFINE bar == row.bar
             ts == row.ts
             level == Larger(trade.stop, trade.trail)
             fades == IF bar.faded THEN trade.fades + 1 ELSE 0
             leaves == \/ bar.close >= trade.target
                       \/ ts - trade.entry >= MaxHold
                       \/ bar.faded /\ fades >= InvalidationBars
             high == Larger(trade.high, bar.close)
             arms == bar.close - trade.price >= ActivateAt /\ bar.close > trade.breakeven
             floor == IF arms /\ ~trade.armed THEN trade.breakeven ELSE trade.trail
             armed == trade.armed \/ arms
             trail == IF arms \/ trade.armed
                      THEN Larger(floor, Larger(high - TrailDistance, trade.breakeven))
                      ELSE trade.trail
             stays == [trade EXCEPT !.fades = fades, !.high = high, !.armed = armed, !.trail = trail]
             after == [pos EXCEPT !.count = fades, !.high = high, !.armed = armed, !.trail = trail]
  <1>1. Round(trade, b, row)
           = IF trade.out # 0 THEN trade
             ELSE IF bar.low <= level THEN [trade EXCEPT !.out = b, !.at = level]
             ELSE IF leaves THEN [trade EXCEPT !.out = b, !.at = bar.close]
             ELSE stays
    BY DEF Round
  <1>2. /\ bar.low \in Int /\ bar.close \in Int /\ 0 < bar.low /\ bar.low <= bar.close
        /\ bar.faded \in BOOLEAN /\ ts \in Int
    BY DEF BarRow, Bars
  <1>3. TrailDistance \in Int /\ MaxHold \in Int /\ InvalidationBars \in Int /\ 0 < InvalidationBars
    BY ConstantsTyped
  <1>4. level \in Int /\ high \in Int /\ fades \in Nat /\ trade.entry \in Int
    BY <1>2 DEF Pursuits, Larger
  <1>5. ExitPrice(pos, ts, bar)
          = IF bar.low <= level THEN level ELSE IF leaves THEN bar.close ELSE 0
    <2>1. level = Larger(pos.stop, pos.trail)
      BY DEF Match
    <2>2. leaves <=> \/ bar.close >= pos.target
                     \/ ts - pos.entry >= MaxHold
                     \/ bar.faded /\ pos.count + 1 >= InvalidationBars
      BY DEF Match
    <2> HIDE DEF level, leaves, bar, ts
    <2>3. bar.low <= level \/ bar.low > level
      BY <1>2, <1>4
    <2>4. ~(bar.low <= level /\ bar.low > level)
      BY <1>2, <1>4
    <2>5. QED
      BY <2>1, <2>2, <2>3, <2>4 DEF ExitPrice
  <1>6. UpdateTrail(pos, bar) = after
    <2> DEFINE even == Pct(pos.price, 100 + 2 * FeePct + 2 * SlipPct)
               phigh == Larger(pos.high, bar.close)
               parmed == pos.armed \/ (bar.close - pos.price >= ActivateAt /\ bar.close > even)
               ptrail == IF parmed THEN Larger(phigh - TrailDistance, Larger(even, pos.trail))
                                   ELSE pos.trail
               pcount == IF bar.faded THEN pos.count + 1 ELSE 0
    <2>1. UpdateTrail(pos, bar)
            = [pos EXCEPT !.count = pcount, !.high = phigh, !.armed = parmed, !.trail = ptrail]
      BY DEF UpdateTrail
    <2>2. even = trade.breakeven
      BY DEF Match
    <2>a. pos.price \in Nat \ {0} /\ 2 * FeePct + 2 * SlipPct \in Nat
      BY ConstantsTyped DEF HeldBy
    <2>b. 100 + 2 * FeePct + 2 * SlipPct = 100 + (2 * FeePct + 2 * SlipPct)
      BY ConstantsTyped
    <2>3. even \in Nat \ {0}
      BY <2>a, <2>b, PctPrice
    <2> HIDE DEF even
    <2>4. phigh = high /\ pcount = fades
      BY DEF Match
    <2>5. parmed = armed
      BY <2>2 DEF Match
    <2>6. ptrail = trail
      <3>1. pos.trail = trade.trail /\ pos.armed = trade.armed /\ (~trade.armed => trade.trail = 0)
        BY DEF Match
      <3>2. trade.trail \in Int /\ trade.armed \in BOOLEAN
        BY DEF Pursuits
      <3> HIDE DEF high, phigh, parmed, armed
      <3>3. ptrail = IF armed THEN Larger(high - TrailDistance, Larger(even, trade.trail))
                              ELSE trade.trail
        BY <2>4, <2>5, <3>1
      <3>4. CASE ~armed
        BY <3>3, <3>4 DEF armed
      <3>5. CASE armed
        <4>1. trail = Larger(floor, Larger(high - TrailDistance, even))
          BY <2>2, <3>5 DEF armed
        <4>2. floor = IF trade.armed THEN trade.trail ELSE even
          BY <2>2, <3>2, <3>5 DEF armed
        <4>3. Larger(even, trade.trail) = IF trade.armed THEN Larger(even, trade.trail) ELSE even
          BY <2>3, <3>1 DEF Larger
        <4> HIDE DEF trail, floor, ptrail
        <4>4. QED
          BY <1>3, <1>4, <2>3, <3>2, <3>3, <3>5, <4>1, <4>2, <4>3 DEF Larger
      <3>6. QED
        BY <3>4, <3>5
    <2> HIDE DEF phigh, parmed, ptrail, pcount, high, armed, trail, fades
    <2>7. QED
      BY <2>1, <2>4, <2>5, <2>6
  <1>7. trade.out = 0
    BY DEF Match
  <1> HIDE DEF bar, level, leaves, stays, after
  <1>8. CASE bar.low <= level
    BY <1>1, <1>2, <1>4, <1>5, <1>7, <1>8 DEF Pursuits, bar
  <1>9. CASE ~(bar.low <= level) /\ leaves
    BY <1>1, <1>2, <1>5, <1>7, <1>9 DEF Pursuits, bar
  <1>10. CASE ~(bar.low <= level) /\ ~leaves
    <2>1. Round(trade, b, row) = stays /\ ExitPrice(pos, ts, bar) = 0
      BY <1>1, <1>5, <1>7, <1>10
    <2>2. row.ts - pos.entry < MaxHold
      BY <1>2, <1>3, <1>4, <1>10 DEF leaves, Match
    <2>3. ~armed => trail = 0
      BY DEF Match
    <2> HIDE DEF armed, trail, fades, high
    <2>4. Match(after, stays)
      BY <2>3 DEF after, stays, Match, HeldBy, Pursuits
    <2>5. QED
      BY <1>6, <2>1, <2>2, <2>4 DEF bar
  <1>11. QED
    BY <1>8, <1>9, <1>10

\* The engine's open position p is the backtest's pos, as far as time has come:
\* it was entered at a bar of its token, and followed to the last bar up to now
\* the candidate matches the position.
Tracks(p, pos, now) ==
    \E k \in DOMAIN panel[p.mint] :
        LET row == panel[p.mint]
            s == <<p.mint, k>>
            r == Resolve(s)
        IN  /\ row[k].ts = pos.entry
            /\ p.exit = r.exit /\ p.ended = r.ended /\ p.size = pos.size
            /\ p.proceeds = Proceeds(p.size, r.price, r.at)
            /\ \E j \in k .. LastBar(s) :
                  /\ Match(pos, Followed(s)[j])
                  /\ row[j].ts <= now
                  /\ \A i \in (j + 1) .. Len(row) : row[i].ts > now
                  /\ j = k \/ row[j].ts - pos.entry < MaxHold

OpenRecs == [mint : Mints, exit : Nat, size : Int, ended : BOOLEAN, proceeds : Int]

\* A tracked position has not left.
LEMMA TrackedStays ==
    ASSUME PanelOK, NEW p \in OpenRecs, NEW pos, NEW now \in Nat, Tracks(p, pos, now)
    PROVE  p.ended \/ p.exit > now
  <1> DEFINE c == p.mint
  <1>1. c \in Mints
    BY DEF OpenRecs
  <1>2. PICK k \in DOMAIN panel[c] :
           /\ p.exit = Resolve(<<c, k>>).exit /\ p.ended = Resolve(<<c, k>>).ended
           /\ \E j \in k .. LastBar(<<c, k>>) :
                 /\ Match(pos, Followed(<<c, k>>)[j])
                 /\ \A i \in (j + 1) .. Len(panel[c]) : panel[c][i].ts > now
    BY DEF Tracks
  <1>3. PICK j \in k .. LastBar(<<c, k>>) :
           /\ Followed(<<c, k>>)[j].out = 0
           /\ \A i \in (j + 1) .. Len(panel[c]) : panel[c][i].ts > now
    BY <1>2 DEF Match
  <1> HIDE DEF c
  <1> DEFINE n == LastBar(<<c, k>>)
             end == Followed(<<c, k>>)[n]
  <1>4. end.out = 0 \/ end.out \in (j + 1) .. n
    BY <1>1, <1>3, EndIs
  <1>5. n \in k .. Len(panel[c]) /\ k \in Nat /\ Len(panel[c]) \in Nat
    BY <1>1, LastBarIs DEF PanelOK
  <1>6. /\ Resolve(<<c, k>>).ended = (end.out = 0)
        /\ end.out # 0 => Resolve(<<c, k>>).exit = panel[c][end.out].ts
    BY <1>1, ResolveIs
  <1> HIDE DEF n, end
  <1>7. ASSUME end.out \in (j + 1) .. n
        PROVE  p.exit > now
    <2>1. end.out \in (j + 1) .. Len(panel[c]) /\ end.out # 0
      BY <1>3, <1>5, <1>7 DEF n
    <2>2. QED
      BY <1>2, <1>3, <1>6, <2>1
  <1>8. QED
    BY <1>2, <1>4, <1>6, <1>7

\* The rows of a time are the bars printed then.
RowsAt(rows, ts) ==
    /\ RowsTyped(rows)
    /\ \A c \in Mints : (\E k \in DOMAIN panel[c] : panel[c][k].ts = ts) => c \in DOMAIN rows
    /\ \A c \in DOMAIN rows :
          /\ rows[c].idx \in DOMAIN panel[c] /\ rows[c].ts = ts
          /\ panel[c][rows[c].idx].ts = ts /\ panel[c][rows[c].idx].bar = rows[c].bar

\* A token that prints nothing leaves its position as it was.
LEMMA TrackWaits ==
    ASSUME PanelOK, NEW p \in OpenRecs, NEW pos, NEW now \in Nat, Tracks(p, pos, now),
           NEW rows, RowsAt(rows, now + 1), p.mint \notin DOMAIN rows
    PROVE  Tracks(p, pos, now + 1)
  <1> DEFINE c == p.mint
             row == panel[c]
  <1>1. c \in Mints /\ Len(row) \in Nat /\ DOMAIN row = 1 .. Len(row)
        /\ \A i \in DOMAIN row : row[i].ts \in 1 .. clock
    BY DEF OpenRecs, PanelOK
  <1>2. \A i \in DOMAIN row : row[i].ts # now + 1
    BY <1>1 DEF RowsAt
  <1> HIDE DEF c, row
  <1>3. \A j \in Nat : (\A i \in (j + 1) .. Len(row) : row[i].ts > now)
                          => \A i \in (j + 1) .. Len(row) : row[i].ts > now + 1
    <2>1. \A j \in Nat : \A i \in (j + 1) .. Len(row) : i \in DOMAIN row
      BY <1>1
    <2>2. \A i \in DOMAIN row : row[i].ts > now => row[i].ts > now + 1
      BY <1>1, <1>2
    <2>3. QED
      BY <2>1, <2>2
  <1>4. \A j \in DOMAIN row : row[j].ts <= now => row[j].ts <= now + 1
    BY <1>1
  <1>5. \A k \in DOMAIN row : \A j \in k .. LastBar(<<c, k>>) : j \in Nat /\ j \in DOMAIN row
    BY <1>1, LastBarIs DEF row
  <1>6. QED
    BY <1>3, <1>4, <1>5 DEF Tracks, c, row

\* A token that prints takes its position out of both, with the same proceeds,
\* or leaves it in both.
LEMMA TrackMoves ==
    ASSUME PanelOK, NEW p \in OpenRecs, NEW pos \in HeldBy, NEW now \in Nat, Tracks(p, pos, now),
           NEW rows, RowsAt(rows, now + 1), p.mint \in DOMAIN rows
    PROVE  LET row == rows[p.mint]
               price == ExitPrice(pos, row.ts, row.bar)
           IN  /\ price # 0 => /\ p.exit = row.ts /\ ~p.ended
                               /\ p.proceeds = Proceeds(pos.size, pos.price, price)
               /\ price = 0 => Tracks(p, UpdateTrail(pos, row.bar), now + 1)
  <1> DEFINE c == p.mint
             line == panel[c]
             row == rows[c]
             price == ExitPrice(pos, row.ts, row.bar)
             m == row.idx
             Later(j, ts) == \A i \in (j + 1) .. Len(line) : line[i].ts > ts
  <1>1. PICK k \in DOMAIN line :
           LET s == <<c, k>>
               r == Resolve(s)
           IN  /\ line[k].ts = pos.entry
               /\ p.exit = r.exit /\ p.ended = r.ended /\ p.size = pos.size
               /\ p.proceeds = Proceeds(p.size, r.price, r.at)
               /\ \E j \in k .. LastBar(s) :
                     /\ Match(pos, Followed(s)[j])
                     /\ line[j].ts <= now
                     /\ \A i \in (j + 1) .. Len(line) : line[i].ts > now
                     /\ j = k \/ line[j].ts - pos.entry < MaxHold
    BY DEF Tracks
  <1> DEFINE s == <<c, k>>
             n == LastBar(s)
             f == Followed(s)
             r == Resolve(s)
  <1>2. PICK j \in k .. n : /\ Match(pos, f[j]) /\ line[j].ts <= now
                            /\ Later(j, now)
                            /\ j = k \/ line[j].ts - pos.entry < MaxHold
    BY <1>1
  <1>3. c \in Mints
    BY DEF OpenRecs
  <1>4. /\ Len(line) \in Nat /\ DOMAIN line = 1 .. Len(line)
        /\ \A i \in DOMAIN line : line[i] \in BarRow /\ line[i].ts \in 1 .. clock
        /\ \A i, l \in DOMAIN line : i < l => line[i].ts < line[l].ts
    BY <1>3 DEF PanelOK
  <1>5. /\ m \in DOMAIN line /\ row.ts = now + 1 /\ line[m].ts = now + 1 /\ line[m].bar = row.bar
        /\ row.bar \in Bars /\ row.ts \in Nat
    BY <1>3 DEF RowsAt, RowsTyped, Events
  <1>6. n \in k .. Len(line) /\ k \in Nat \ {0} /\ (n = Len(line) \/ n = k + MaxHold + 2)
    BY <1>3, LastBarIs
  <1>7. f \in [k .. n -> Pursuits] /\ \A b \in (k + 1) .. n : f[b] = Round(f[b - 1], b, line[b])
    BY <1>3, FollowedIs
  <1>8. /\ r.price = f[n].price /\ r.ended = (f[n].out = 0)
        /\ f[n].out # 0 => r.exit = line[f[n].out].ts /\ r.at = f[n].at
    BY <1>3, ResolveIs
  <1>a. \A i \in k .. n : /\ f[n].price = f[i].price
                          /\ f[i].out # 0 => f[n] = f[i]
    BY <1>3, EndIs
  <1>b. \A i \in DOMAIN line : k <= i => i - k <= line[i].ts - line[k].ts
    BY <1>3, GapLemma
  <1> HIDE DEF n, f, r
  <1>c. p.exit = r.exit /\ p.ended = r.ended /\ p.proceeds = Proceeds(pos.size, r.price, r.at)
        /\ p.size = pos.size /\ line[k].ts = pos.entry
    BY <1>1 DEF r
  <1> HIDE DEF c, line, row, s, m, price
  <1>d. \A i \in DOMAIN line : line[i].ts \in Int
    BY <1>4
  <1>e. j \in DOMAIN line /\ j \in Nat \ {0} /\ k <= j /\ j <= n /\ n \in Int /\ k \in Int
    <2>1. Len(line) \in Nat /\ DOMAIN line = 1 .. Len(line)
      BY <1>4
    <2>2. n \in k .. Len(line) /\ k \in Nat \ {0}
      BY <1>6
    <2>3. n \in Int /\ k \in Int /\ n <= Len(line) /\ 1 <= k
      BY <2>1, <2>2
    <2>4. j \in Int /\ k <= j /\ j <= n
      BY <2>3
    <2>5. QED
      BY <2>1, <2>3, <2>4
  <1>9. m = j + 1
    <2>1. j < m
      <3>1. m < j => line[m].ts < line[j].ts
        BY <1>4, <1>5, <1>e
      <3>2. line[m].ts > line[j].ts
        BY <1>2, <1>5, <1>d, <1>e
      <3>3. line[m].ts # line[j].ts /\ ~(line[m].ts < line[j].ts)
        BY <1>5, <1>d, <1>e, <3>2
      <3>4. m \in Int /\ j \in Int
        BY <1>4, <1>5, <1>e
      <3>5. QED
        BY <3>1, <3>3, <3>4
    <2>2. j + 1 \in DOMAIN line
      BY <1>4, <1>5, <1>e, <2>1
    <2>3. line[j + 1].ts > now
      <3>1. j + 1 \in (j + 1) .. Len(line)
        BY <1>4, <2>2
      <3>2. QED
        BY <1>2, <3>1
    <2>4. ~(j + 1 < m)
      <3>1. j + 1 < m => line[j + 1].ts < line[m].ts
        BY <1>4, <1>5, <2>2
      <3>2. QED
        BY <1>5, <1>d, <2>2, <2>3, <3>1
    <2>5. m \in Int
      BY <1>4, <1>5
    <2>6. QED
      BY <1>e, <2>1, <2>4, <2>5
  <1>10. m \in (k + 1) .. n
    <2>1. m <= Len(line) /\ k + 1 <= m /\ m \in Int
      BY <1>4, <1>5, <1>9, <1>e
    <2>2. MaxHold \in Nat \ {0}
      BY ConstantsTyped
    <2>3. m <= k + MaxHold + 1
      <3>1. CASE j = k
        BY <1>6, <1>9, <2>2, <3>1
      <3>2. CASE line[j].ts - pos.entry < MaxHold
        <4>1. j - k <= line[j].ts - line[k].ts
          BY <1>b, <1>e
        <4>2. line[j].ts \in Int /\ line[k].ts \in Int
          BY <1>d, <1>e
        <4>3. j - k < MaxHold
          BY <1>c, <1>e, <2>2, <3>2, <4>1, <4>2
        <4>4. QED
          BY <1>9, <1>e, <2>2, <4>3
      <3>3. QED
        BY <1>2, <3>1, <3>2
    <2>4. m <= n
      <3>1. CASE n = Len(line)
        BY <2>1, <3>1
      <3>2. CASE n = k + MaxHold + 2
        BY <1>e, <2>1, <2>2, <2>3, <3>2
      <3>3. QED
        BY <1>6, <3>1, <3>2
    <2>5. QED
      BY <1>e, <2>1, <2>4
  <1>11. f[m] = Round(f[j], m, line[m]) /\ f[j] \in Pursuits /\ line[m] \in BarRow /\ m \in Nat \ {0}
    <2>1. m - 1 = j /\ m \in Nat \ {0}
      BY <1>9, <1>e
    <2>2. j \in k .. n /\ m \in k .. n
      BY <1>6, <1>10
    <2>3. QED
      BY <1>4, <1>5, <1>7, <1>10, <2>1, <2>2
  <1>12. /\ price # 0 => f[m].out = m /\ f[m].at = price
         /\ price = 0 => Match(UpdateTrail(pos, row.bar), f[m]) /\ row.ts - pos.entry < MaxHold
    <2>1. price = ExitPrice(pos, line[m].ts, line[m].bar)
      BY <1>5 DEF price
    <2>2. QED
      BY <1>2, <1>5, <1>11, <2>1, RoundMatches
  <1>13. ASSUME price # 0
         PROVE  p.exit = row.ts /\ ~p.ended /\ p.proceeds = Proceeds(pos.size, pos.price, price)
    <2>1. f[m].out = m /\ f[m].at = price /\ m # 0
      BY <1>11, <1>12, <1>13
    <2>2. m \in k .. n /\ j \in k .. n
      BY <1>6, <1>10
    <2>3. f[n] = f[m] /\ f[n].price = f[j].price
      BY <1>a, <2>1, <2>2
    <2>4. f[j].price = pos.price
      BY <1>2 DEF Match
    <2>5. r.exit = line[m].ts /\ r.at = price /\ r.price = pos.price /\ ~r.ended
      BY <1>8, <2>1, <2>3, <2>4
    <2>6. QED
      BY <1>5, <1>c, <2>5
  <1>14. ASSUME price = 0
         PROVE  Tracks(p, UpdateTrail(pos, row.bar), now + 1)
    <2> DEFINE after == UpdateTrail(pos, row.bar)
    <2>1. after.entry = pos.entry /\ after.size = pos.size
      BY <1>5, UpdateTrailHeld
    <2>2. m \in k .. n /\ line[m].ts <= now + 1
      BY <1>5, <1>6, <1>10
    <2>3. Later(m, now + 1)
      <3>1. ASSUME NEW i \in (m + 1) .. Len(line) PROVE line[i].ts > now + 1
        <4>1. i \in DOMAIN line /\ m < i
          BY <1>4, <1>5, <3>1
        <4>2. line[m].ts < line[i].ts
          BY <1>4, <1>5, <4>1
        <4>3. QED
          BY <1>5, <1>d, <4>1, <4>2
      <3>2. QED
        BY <3>1
    <2>4. line[m].ts - after.entry < MaxHold
      BY <1>5, <1>12, <1>14, <2>1
    <2>5. Match(after, f[m])
      BY <1>12, <1>14
    <2> HIDE DEF after
    <2>6. \E i \in k .. n : /\ Match(after, f[i]) /\ line[i].ts <= now + 1
                            /\ Later(i, now + 1)
                            /\ i = k \/ line[i].ts - after.entry < MaxHold
      BY <2>2, <2>3, <2>4, <2>5
    <2>7. p.proceeds = Proceeds(p.size, r.price, r.at) /\ line[k].ts = after.entry
          /\ p.size = after.size
      BY <1>c, <2>1
    <2>8. Tracks(p, after, now + 1)
      BY <1>c, <2>6, <2>7 DEF Tracks, c, line, s, n, f, r
    <2>9. QED
      BY <2>8 DEF after
  <1>15. QED
    BY <1>13, <1>14 DEF price, row, c

----------------------------------------------------------------------------
(* The sweep *)

Swept == {b \in [balance : Int, open : SUBSET OpenRecs, out : SUBSET Closed,
                 refused : BOOLEAN, early : BOOLEAN] : IsFiniteSet(b.open)}

\* The sweep did what the backtest has no notion of.
Flagged(b) == b.refused \/ b.early

\* A column over some open positions adds up, and over two parts of them.
LEMMA OpenSums ==
    ASSUME NEW S \in SUBSET OpenRecs, IsFiniteSet(S), NEW T \in SUBSET S
    PROVE  /\ ProceedsOf(S) \in Int /\ SizeOf(S) \in Int
           /\ ProceedsOf(T) \in Int /\ ProceedsOf(S \ T) \in Int
           /\ ProceedsOf(S) = ProceedsOf(T) + ProceedsOf(S \ T)
  <1> DEFINE f(U) == [p \in U |-> p.proceeds]
             g == [p \in S |-> p.size]
             sum(U) == SumFunctionOnSet(f(S), U)
  <1>1. \A p \in S : f(S)[p] \in Int /\ g[p] \in Int
    BY DEF OpenRecs
  <1>2. \A U \in SUBSET S : IsFiniteSet(U)
    BY FS_Subset
  <1>3. ASSUME NEW U \in SUBSET S
        PROVE  ProceedsOf(U) = sum(U) /\ sum(U) \in Int
    <2>1. \A p \in U : f(U)[p] = f(S)[p] /\ f(S)[p] \in Int
      BY <1>1
    <2>2. IsFiniteSet(U)
      BY <1>2
    <2>3. ProceedsOf(U) = SumFunctionOnSet(f(U), U)
      BY DEF ProceedsOf, SumFunction
    <2> HIDE DEF f
    <2>4. SumFunctionOnSet(f(U), U) = sum(U)
      BY <2>1, <2>2, SumAgree
    <2>5. sum(U) \in Int
      BY <2>1, <2>2, SumFacts
    <2>6. QED
      BY <2>3, <2>4, <2>5
  <1>4. sum(S) = sum(T) + sum(S \ T)
    <2> HIDE DEF f
    <2>1. QED
      BY <1>1, SumSplit
  <1>5. SizeOf(S) \in Int
    <2>1. SizeOf(S) = SumFunctionOnSet(g, S)
      BY DEF SizeOf, SumFunction
    <2> HIDE DEF g, f
    <2>2. QED
      BY <1>1, <2>1, SumFacts
  <1> HIDE DEF sum
  <1>6. S \in SUBSET S /\ T \in SUBSET S /\ (S \ T) \in SUBSET S
    OBVIOUS
  <1>7. QED
    BY <1>3, <1>4, <1>5, <1>6

LEMMA NoOpenSums == ProceedsOf({}) = 0 /\ SizeOf({}) = 0
  <1> DEFINE f == [p \in {} |-> p.proceeds]
             g == [p \in {} |-> p.size]
  <1>1. ProceedsOf({}) = SumFunctionOnSet(f, {}) /\ SizeOf({}) = SumFunctionOnSet(g, {})
    BY DEF ProceedsOf, SizeOf, SumFunction
  <1> HIDE DEF f, g
  <1>2. QED
    BY <1>1, SumEmpty

\* A column over the open positions of some tokens is the column over the tokens.
LEMMA OpenSumsByMint ==
    ASSUME NEW S \in SUBSET OpenRecs, IsFiniteSet(S), NEW f, DOMAIN f \subseteq Mints,
           \A p \in S : p.mint \in DOMAIN f,
           \A c \in DOMAIN f : \E p \in S : p.mint = c,
           \A p, q \in S : p.mint = q.mint => p = q
    PROVE  /\ (\A p \in S : f[p.mint] = p.proceeds) => SumFunction(f) = ProceedsOf(S)
           /\ (\A p \in S : f[p.mint] = p.size) => SumFunction(f) = SizeOf(S)
  <1> DEFINE C == DOMAIN f
             h == [p \in S |-> p.mint]
             brings == [p \in S |-> p.proceeds]
             sizes == [p \in S |-> p.size]
  <1>1. IsFiniteSet(C)
    BY MintsFinite, FS_Subset
  <1>2. /\ \A p \in S : h[p] \in C
        /\ \A c \in C : \E p \in S : h[p] = c
        /\ \A p, q \in S : h[p] = h[q] => p = q
        /\ \A p \in S : h[p] = p.mint /\ brings[p] = p.proceeds /\ sizes[p] = p.size
        /\ \A p \in S : brings[p] \in Int /\ sizes[p] \in Int
    BY DEF OpenRecs
  <1>a. h \in Bijection(S, C)
    <2>1. h \in Injection(S, C)
      BY <1>2 DEF Injection, IsInjective
    <2>2. h \in Surjection(S, C)
      BY <1>2 DEF Surjection
    <2>3. QED
      BY <2>1, <2>2 DEF Bijection
  <1>3. SumFunction(f) = SumFunctionOnSet(f, C)
    BY DEF SumFunction
  <1>4. ProceedsOf(S) = SumFunctionOnSet(brings, S) /\ SizeOf(S) = SumFunctionOnSet(sizes, S)
    BY DEF ProceedsOf, SizeOf, SumFunction
  <1> HIDE DEF C, h, brings, sizes
  <1>5. ASSUME \A p \in S : f[p.mint] = p.proceeds
        PROVE  SumFunction(f) = ProceedsOf(S)
    <2>1. \A p \in S : brings[p] = f[h[p]]
      BY <1>2, <1>5
    <2>2. \A c \in C : f[c] \in Int
      BY <1>2, <2>1
    <2>3. SumFunctionOnSet(brings, S) = SumFunctionOnSet(f, C)
      BY <1>1, <1>a, <2>1, <2>2, SumReindex
    <2>4. QED
      BY <1>3, <1>4, <2>3
  <1>6. ASSUME \A p \in S : f[p.mint] = p.size
        PROVE  SumFunction(f) = SizeOf(S)
    <2>1. \A p \in S : sizes[p] = f[h[p]]
      BY <1>2, <1>6
    <2>2. \A c \in C : f[c] \in Int
      BY <1>2, <2>1
    <2>3. SumFunctionOnSet(sizes, S) = SumFunctionOnSet(f, C)
      BY <1>1, <1>a, <2>1, <2>2, SumReindex
    <2>4. QED
      BY <1>3, <1>4, <2>3
  <1>7. QED
    BY <1>5, <1>6

\* What taking a candidate does, whatever came of it.
LEMMA TakeIs ==
    ASSUME NEW b \in Swept, NEW s \in Candidates
    PROVE  LET back == Released(b.open, s.entry)
               open == b.open \ back
               balance == b.balance + ProceedsOf(back)
               deployed == SizeOf(open)
               wallet == balance + deployed
               cap == Smaller(Pct(wallet, WalletPct),
                              Larger(0, Pct(wallet, TotalPct) - deployed))
               size == Smaller(cap, Pct(Liquidity[s.mint], LiquidityPct))
               proceeds == Proceeds(size, s.price, s.at)
           IN  /\ back \subseteq b.open
               /\ balance \in Int /\ deployed \in Int /\ size \in Int /\ proceeds \in Int
  <1> DEFINE back == Released(b.open, s.entry)
             open == b.open \ back
             balance == b.balance + ProceedsOf(back)
             deployed == SizeOf(open)
             wallet == balance + deployed
             cap == Smaller(Pct(wallet, WalletPct),
                            Larger(0, Pct(wallet, TotalPct) - deployed))
             size == Smaller(cap, Pct(Liquidity[s.mint], LiquidityPct))
             proceeds == Proceeds(size, s.price, s.at)
  <1>1. /\ b.balance \in Int /\ b.open \in SUBSET OpenRecs /\ IsFiniteSet(b.open)
        /\ s.mint \in Mints /\ s.price \in Nat \ {0} /\ s.at \in Int
    BY DEF Swept, Candidates
  <1>2. back \subseteq b.open
    BY DEF Released
  <1> HIDE DEF back
  <1>3. ProceedsOf(back) \in Int
    BY <1>1, <1>2, OpenSums
  <1>4. deployed \in Int
    <2>1. open \in SUBSET b.open /\ IsFiniteSet(open)
      BY <1>1, FS_Subset
    <2>2. QED
      BY <1>1, <2>1, OpenSums
  <1>5. balance \in Int
    BY <1>1, <1>3
  <1> HIDE DEF balance, deployed
  <1>6. wallet \in Int
    BY <1>4, <1>5
  <1>7. WalletPct \in Int /\ TotalPct \in Int /\ LiquidityPct \in Int /\ Liquidity[s.mint] \in Int
    BY <1>1, ConstantsTyped
  <1> HIDE DEF wallet
  <1>8. /\ Pct(wallet, WalletPct) \in Int /\ Pct(wallet, TotalPct) \in Int
        /\ Pct(Liquidity[s.mint], LiquidityPct) \in Int
    BY <1>6, <1>7, PctInt
  <1>9. size \in Int
    BY <1>4, <1>8 DEF Smaller, Larger
  <1> HIDE DEF size
  <1>10. proceeds \in Int
    BY <1>1, <1>9, ProceedsInt
  <1>11. QED
    BY <1>2, <1>4, <1>5, <1>9, <1>10 DEF back, balance, deployed, wallet, size

\* A position out of the way keeps its place in the sweep's book, and flags stay.
LEMMA TakeTyped ==
    ASSUME NEW b \in Swept, NEW s \in Candidates
    PROVE  Take(b, s) \in Swept /\ (Flagged(b) => Flagged(Take(b, s)))
  <1> DEFINE back == Released(b.open, s.entry)
             open == b.open \ back
             balance == b.balance + ProceedsOf(back)
             deployed == SizeOf(open)
             wallet == balance + deployed
             cap == Smaller(Pct(wallet, WalletPct),
                            Larger(0, Pct(wallet, TotalPct) - deployed))
             size == Smaller(cap, Pct(Liquidity[s.mint], LiquidityPct))
             proceeds == Proceeds(size, s.price, s.at)
             early == b.early \/ \E p \in back : p.ended
             rec == [mint |-> s.mint, exit |-> s.exit, size |-> size, ended |-> s.ended,
                     proceeds |-> proceeds]
             trade == Trade(s.mint, s.entry, s.exit, size, proceeds)
             after == [b EXCEPT !.balance = balance, !.open = open, !.early = early]
  <1>1. /\ b.balance \in Int /\ b.open \in SUBSET OpenRecs /\ IsFiniteSet(b.open)
        /\ b.out \in SUBSET Closed /\ b.refused \in BOOLEAN /\ b.early \in BOOLEAN
        /\ s.mint \in Mints /\ s.exit \in Nat /\ s.entry \in Nat /\ s.ended \in BOOLEAN
    BY DEF Swept, Candidates
  <1>2. balance \in Int /\ size \in Int /\ proceeds \in Int
    BY TakeIs
  <1>3. \/ Take(b, s) = after
        \/ Take(b, s) = [after EXCEPT !.refused = TRUE]
        \/ Take(b, s) = [after EXCEPT !.balance = balance - size, !.open = open \union {rec},
                                      !.out = b.out \union {trade}]
    BY DEF Take, Swept
  <1> HIDE DEF balance, size, proceeds, back
  <1>4. trade \in Closed /\ rec \in OpenRecs
    BY <1>1, <1>2 DEF Trade, Closed, OpenRecs
  <1>5. open \in SUBSET OpenRecs /\ IsFiniteSet(open)
    BY <1>1, FS_Subset
  <1>6. open \union {rec} \in SUBSET OpenRecs /\ IsFiniteSet(open \union {rec})
    BY <1>4, <1>5, FS_AddElement
  <1> HIDE DEF open, rec, trade
  <1>7. early \in BOOLEAN /\ (b.early => early)
    BY <1>1
  <1> HIDE DEF early
  <1>8. after \in Swept /\ after.refused = b.refused /\ after.early = early
    BY <1>2, <1>5, <1>7 DEF Swept
  <1> HIDE DEF after
  <1>9. CASE Take(b, s) = after
    BY <1>7, <1>8, <1>9 DEF Flagged
  <1>10. CASE Take(b, s) = [after EXCEPT !.refused = TRUE]
    <2>1. Take(b, s) \in Swept /\ Take(b, s).refused = TRUE
      BY <1>8, <1>10 DEF Swept
    <2>2. QED
      BY <2>1 DEF Flagged
  <1>11. CASE Take(b, s) = [after EXCEPT !.balance = balance - size, !.open = open \union {rec},
                                         !.out = b.out \union {trade}]
    <2> DEFINE out == b.out \union {trade}
               more == open \union {rec}
               left == balance - size
    <2>1. left \in Int /\ more \in SUBSET OpenRecs /\ IsFiniteSet(more) /\ out \in SUBSET Closed
      BY <1>1, <1>2, <1>4, <1>6
    <2>2. Take(b, s) = [after EXCEPT !.balance = left, !.open = more, !.out = out]
      BY <1>11
    <2> HIDE DEF out, more, left
    <2>3. /\ Take(b, s) \in Swept
          /\ Take(b, s).refused = after.refused /\ Take(b, s).early = after.early
      BY <1>8, <2>1, <2>2 DEF Swept
    <2>4. QED
      BY <1>7, <1>8, <2>3 DEF Flagged
  <1>12. QED
    BY <1>3, <1>9, <1>10, <1>11

\* A token's bar of a time is at one place.
LEMMA BarAt ==
    ASSUME PanelOK, NEW c \in Mints, NEW i \in DOMAIN panel[c], NEW j \in DOMAIN panel[c],
           panel[c][i].ts = panel[c][j].ts
    PROVE  i = j
  <1>1. /\ i \in Int /\ j \in Int
        /\ i < j => panel[c][i].ts < panel[c][j].ts
        /\ j < i => panel[c][j].ts < panel[c][i].ts
        /\ panel[c][i].ts \in Int
    BY DEF PanelOK
  <1>2. QED
    BY <1>1

LEMMA TakeAtTyped ==
    ASSUME PanelOK, NEW b \in Swept, NEW ts \in Nat, NEW c \in Mints
    PROVE  TakeAt(b, ts, c) \in Swept /\ (Flagged(b) => Flagged(TakeAt(b, ts, c)))
  <1> DEFINE bars == {k \in DOMAIN panel[c] : panel[c][k].ts = ts /\ <<c, k>> \in Signals}
  <1>1. TakeAt(b, ts, c)
          = IF bars = {} THEN b ELSE Take(b, Resolve(<<c, CHOOSE k \in bars : TRUE>>))
    BY DEF TakeAt
  <1>2. bars \subseteq DOMAIN panel[c]
    OBVIOUS
  <1> HIDE DEF bars
  <1>3. CASE bars = {}
    BY <1>1, <1>3
  <1>4. CASE bars # {}
    <2> DEFINE k == CHOOSE k \in bars : TRUE
    <2>1. k \in DOMAIN panel[c] /\ TakeAt(b, ts, c) = Take(b, Resolve(<<c, k>>))
      BY <1>1, <1>2, <1>4
    <2> HIDE DEF k
    <2>2. Resolve(<<c, k>>) \in Candidates
      BY <2>1, ResolveIs
    <2>3. QED
      BY <2>1, <2>2, TakeTyped
  <1>5. QED
    BY <1>3, <1>4

\* SweepAt is TakeAt of one token after the other.
LEMMA SweepAtIs ==
    ASSUME PanelOK, NEW b \in Swept, NEW ts \in Nat
    PROVE  \E g \in [0 .. Len(Tokens) -> Swept] :
              /\ g[0] = b
              /\ \A i \in 1 .. Len(Tokens) : g[i] = TakeAt(g[i - 1], ts, Tokens[i])
              /\ SweepAt(b, ts) = g[Len(Tokens)]
  <1> DEFINE N == Len(Tokens)
             F == [i \in 1 .. N |-> [x \in Swept |-> TakeAt(x, ts, Tokens[i])]]
             Step(g) == [i \in 0 .. N |-> IF i = 0 THEN b ELSE TakeAt(g[i - 1], ts, Tokens[i])]
             it == CHOOSE g : g = Step(g)
  <1>1. SweepAt(b, ts) = it[N]
    BY DEF SweepAt
  <1>2. N \in Nat /\ \A i \in 1 .. N : Tokens[i] \in Mints
    BY ConstantsTyped DEF Mints
  <1> HIDE DEF N
  <1>3. \A i \in 1 .. N : \A x \in Swept : F[i][x] = TakeAt(x, ts, Tokens[i])
                                         /\ F[i][x] \in Swept
    BY <1>2, TakeAtTyped
  <1> HIDE DEF F
  <1>4. PICK g \in [0 .. N -> Swept] : Recurs(g, b, F, 0, N)
    <2>1. 0 \in Int /\ N \in Int /\ 0 <= N /\ 0 + 1 = 1
      BY <1>2
    <2>2. QED
      BY <1>3, <2>1, Recursion
  <1>5. g = Step(g)
    <2>a. \A i \in 1 .. N : i - 1 \in 0 .. N /\ i \in (0 + 1) .. N
      BY <1>2
    <2>b. g[0] = b /\ \A i \in (0 + 1) .. N : g[i] = F[i][g[i - 1]]
      BY <1>4 DEF Recurs
    <2>1. \A i \in 1 .. N : g[i - 1] \in Swept /\ g[i] = F[i][g[i - 1]]
      BY <1>4, <2>a, <2>b
    <2>2. \A i \in 0 .. N : g[i] = Step(g)[i]
      <3>1. \A i \in 1 .. N : g[i] = TakeAt(g[i - 1], ts, Tokens[i])
        BY <1>3, <2>1
      <3>2. QED
        BY <1>2, <2>b, <3>1
    <2>3. QED
      BY <1>4, <2>2
  <1>6. it = Step(it)
    BY <1>5
  <1> HIDE DEF it
  <1>7. it[0] = b /\ DOMAIN it = 0 .. N /\ \A i \in 1 .. N : it[i] = TakeAt(it[i - 1], ts, Tokens[i])
    <2>1. \A i \in 0 .. N : it[i] = Step(it)[i]
      BY <1>6
    <2>2. DOMAIN it = 0 .. N
      BY <1>6
    <2>3. QED
      BY <1>2, <2>1, <2>2
  <1>8. it \in [0 .. N -> Swept]
    <2> DEFINE S == {i \in 0 .. N : it[i] \in Swept}
    <2>1. 0 \in S
      BY <1>2, <1>7
    <2>2. ASSUME NEW i \in 0 .. N, i \in S, i < N
          PROVE  i + 1 \in S
      <3>1. i + 1 \in 1 .. N /\ (i + 1) - 1 = i /\ i + 1 \in 0 .. N
        BY <1>2, <2>2
      <3>2. it[i + 1] = TakeAt(it[i], ts, Tokens[i + 1])
        BY <1>7, <3>1
      <3>3. it[i + 1] \in Swept
        BY <1>2, <2>2, <3>1, <3>2, TakeAtTyped
      <3>4. QED
        BY <3>1, <3>3
    <2> HIDE DEF S
    <2>3. 0 .. N \subseteq S
      BY <1>2, <2>1, <2>2, RangeInduction
    <2>4. \A i \in 0 .. N : it[i] \in Swept
      BY <2>3 DEF S
    <2>5. QED
      BY <1>6, <2>4
  <1>9. QED
    BY <1>1, <1>7, <1>8 DEF N

LEMMA SweepAtTyped ==
    ASSUME PanelOK, NEW b \in Swept, NEW ts \in Nat
    PROVE  SweepAt(b, ts) \in Swept
  <1>1. Len(Tokens) \in 0 .. Len(Tokens)
    BY ConstantsTyped
  <1>2. QED
    BY <1>1, SweepAtIs

\* Sweep is SweepAt of one time after the other.
LEMMA SweepIs ==
    ASSUME PanelOK
    PROVE  \E g \in [0 .. clock -> Swept] :
              /\ g[0] = [balance |-> StartBalance, open |-> {}, out |-> {},
                         refused |-> FALSE, early |-> FALSE]
              /\ \A i \in 1 .. clock : g[i] = SweepAt(g[i - 1], i)
              /\ Sweep = [g[clock] EXCEPT !.balance = g[clock].balance
                                                        + ProceedsOf(g[clock].open)]
  <1> DEFINE N == clock
             book == [balance |-> StartBalance, open |-> {}, out |-> {},
                      refused |-> FALSE, early |-> FALSE]
             F == [i \in 1 .. N |-> [x \in Swept |-> SweepAt(x, i)]]
             Step(g) == [i \in 0 .. N |-> IF i = 0 THEN book ELSE SweepAt(g[i - 1], i)]
             it == CHOOSE g : g = Step(g)
  <1>1. Sweep = [it[N] EXCEPT !.balance = it[N].balance + ProceedsOf(it[N].open)]
    BY DEF Sweep
  <1>a. book \in Swept
    <2>1. StartBalance \in Int /\ IsFiniteSet({})
      BY ConstantsTyped, FS_EmptySet
    <2>2. QED
      BY <2>1 DEF Swept
  <1>2. N \in Nat /\ \A i \in 1 .. N : i \in Nat
    BY DEF PanelOK
  <1> HIDE DEF N, book
  <1>3. \A i \in 1 .. N : \A x \in Swept : F[i][x] = SweepAt(x, i) /\ F[i][x] \in Swept
    BY <1>2, SweepAtTyped
  <1> HIDE DEF F
  <1>4. PICK g \in [0 .. N -> Swept] : Recurs(g, book, F, 0, N)
    <2>1. 0 \in Int /\ N \in Int /\ 0 <= N /\ 0 + 1 = 1
      BY <1>2
    <2>2. QED
      BY <1>3, <1>a, <2>1, Recursion
  <1>5. g = Step(g)
    <2>a. \A i \in 1 .. N : i - 1 \in 0 .. N /\ i \in (0 + 1) .. N
      BY <1>2
    <2>b. g[0] = book /\ \A i \in (0 + 1) .. N : g[i] = F[i][g[i - 1]]
      BY <1>4 DEF Recurs
    <2>1. \A i \in 1 .. N : g[i - 1] \in Swept /\ g[i] = F[i][g[i - 1]]
      BY <1>4, <2>a, <2>b
    <2>2. \A i \in 0 .. N : g[i] = Step(g)[i]
      <3>1. \A i \in 1 .. N : g[i] = SweepAt(g[i - 1], i)
        BY <1>3, <2>1
      <3>2. QED
        BY <1>2, <2>b, <3>1
    <2>3. QED
      BY <1>4, <2>2
  <1>6. it = Step(it)
    BY <1>5
  <1> HIDE DEF it
  <1>7. it[0] = book /\ DOMAIN it = 0 .. N /\ \A i \in 1 .. N : it[i] = SweepAt(it[i - 1], i)
    <2>1. \A i \in 0 .. N : it[i] = Step(it)[i]
      BY <1>6
    <2>2. DOMAIN it = 0 .. N
      BY <1>6
    <2>3. QED
      BY <1>2, <2>1, <2>2
  <1>8. it \in [0 .. N -> Swept]
    <2> DEFINE S == {i \in 0 .. N : it[i] \in Swept}
    <2>1. 0 \in S
      BY <1>2, <1>7, <1>a
    <2>2. ASSUME NEW i \in 0 .. N, i \in S, i < N
          PROVE  i + 1 \in S
      <3>1. i + 1 \in 1 .. N /\ (i + 1) - 1 = i /\ i + 1 \in 0 .. N
        BY <1>2, <2>2
      <3>2. it[i + 1] = SweepAt(it[i], i + 1)
        BY <1>7, <3>1
      <3>3. it[i + 1] \in Swept
        BY <1>2, <2>2, <3>1, <3>2, SweepAtTyped
      <3>4. QED
        BY <3>1, <3>3
    <2> HIDE DEF S
    <2>3. 0 .. N \subseteq S
      BY <1>2, <2>1, <2>2, RangeInduction
    <2>4. \A i \in 0 .. N : it[i] \in Swept
      BY <2>3 DEF S
    <2>5. QED
      BY <1>6, <2>4
  <1>9. QED
    BY <1>1, <1>7, <1>8 DEF N, book

----------------------------------------------------------------------------
(* The two books *)

\* What of the sweep's positions has not left by now.
LiveSlots(open, now) == {p \in open : p.ended \/ p.exit > now}

Pending(b, ps) == {Trade(p.mint, b.held[p.mint].entry, p.exit, p.size, p.proceeds) : p \in ps}

\* The backtest's book and the sweep's, of one time: the sweep's live positions
\* are the held ones, one to a token and each tracked; its money is the other's
\* once it has what the rest brought; and it has booked the trades that are to
\* come with those that have been.
Agree(b, sw, now) ==
    /\ \A p, q \in sw.open : p.mint = q.mint => p = q
    /\ \A p \in LiveSlots(sw.open, now) : b.held[p.mint].open /\ Tracks(p, b.held[p.mint], now)
    /\ \A c \in Mints : b.held[c].open => \E p \in LiveSlots(sw.open, now) : p.mint = c
    /\ b.cash = sw.balance + ProceedsOf(sw.open \ LiveSlots(sw.open, now))
    /\ sw.out = b.out \union Pending(b, LiveSlots(sw.open, now))

\* Pass one of the backtest, and time passing for the sweep.
LEMMA ManageAgrees ==
    ASSUME PanelOK, NEW b \in EngineBooks, NEW sw \in Swept, NEW now \in Nat, Agree(b, sw, now),
           NEW rows, RowsAt(rows, now + 1)
    PROVE  Agree(ManageAll(b, rows), sw, now + 1)
  <1> DEFINE Price(c) == ExitPrice(b.held[c], rows[c].ts, rows[c].bar)
             Brings(c) == Proceeds(b.held[c].size, b.held[c].price, Price(c))
             managed == {c \in DOMAIN rows : b.held[c].open}
             left == {c \in managed : Price(c) # 0}
             gains == [c \in left |-> Brings(c)]
             gone == {Trade(c, b.held[c].entry, rows[c].ts, b.held[c].size, Brings(c)) : c \in left}
             after == ManageAll(b, rows)
             was == LiveSlots(sw.open, now)
             is == LiveSlots(sw.open, now + 1)
  <1>1. /\ after.cash = b.cash + SumFunction(gains)
        /\ after.out = b.out \union gone
        /\ \A c \in Mints : after.held[c] = IF c \in left THEN NoPosition
                                            ELSE IF c \in managed
                                            THEN UpdateTrail(b.held[c], rows[c].bar)
                                            ELSE b.held[c]
    BY DEF ManageAll
  <1>2. /\ b.held \in [Mints -> KeptBy] /\ b.cash \in Int
        /\ sw.open \in SUBSET OpenRecs /\ IsFiniteSet(sw.open) /\ sw.balance \in Int
    BY DEF EngineBooks, Swept
  <1>3. DOMAIN rows \subseteq Mints /\ \A c \in DOMAIN rows : rows[c] \in Events /\ rows[c].ts = now + 1
    BY DEF RowsAt, RowsTyped
  <1>4. was \subseteq sw.open /\ is \subseteq was
    <2>1. \A p \in sw.open : p.exit \in Int
      BY <1>2 DEF OpenRecs
    <2>2. QED
      BY <2>1 DEF LiveSlots
  <1>5. /\ \A p, q \in sw.open : p.mint = q.mint => p = q
        /\ \A p \in was : b.held[p.mint].open /\ Tracks(p, b.held[p.mint], now)
        /\ \A c \in Mints : b.held[c].open => \E p \in was : p.mint = c
        /\ b.cash = sw.balance + ProceedsOf(sw.open \ was)
        /\ sw.out = b.out \union Pending(b, was)
    BY DEF Agree
  <1>6. left \subseteq managed /\ managed \subseteq DOMAIN rows /\ left \subseteq Mints
    BY <1>3
  <1> HIDE DEF after, was
  <1>7. ASSUME NEW p \in was
        PROVE  /\ p.mint \in Mints /\ p.size = b.held[p.mint].size
               /\ p.mint \in left => /\ p \notin is /\ p.exit = rows[p.mint].ts
                                     /\ p.proceeds = Brings(p.mint)
               /\ p.mint \notin left => /\ p \in is
                                        /\ after.held[p.mint].open
                                        /\ after.held[p.mint].entry = b.held[p.mint].entry
                                        /\ Tracks(p, after.held[p.mint], now + 1)
    <2> DEFINE c == p.mint
               pos == b.held[c]
    <2>1. p \in OpenRecs /\ p \in sw.open /\ c \in Mints
      BY <1>2, <1>4 DEF OpenRecs
    <2>2. pos \in HeldBy /\ Tracks(p, pos, now) /\ c \in Mints
      BY <1>2, <1>5, <2>1, KeptIs
    <2>3. p.size = pos.size
      BY <2>2 DEF Tracks
    <2>4. now + 1 \in Nat
      OBVIOUS
    <2>5. ASSUME NEW after1, Tracks(p, after1, now + 1)
          PROVE  p \in is
      BY <2>1, <2>4, <2>5, TrackedStays DEF LiveSlots
    <2>6. CASE c \notin DOMAIN rows
      <3>1. Tracks(p, pos, now + 1)
        BY <2>1, <2>2, <2>6, TrackWaits
      <3>2. c \notin managed /\ c \notin left
        BY <1>6, <2>6
      <3>3. after.held[c] = pos
        BY <1>1, <2>2, <3>2
      <3>4. after.held[c].open
        BY <2>2, <3>3 DEF HeldBy
      <3>5. p \in is
        BY <2>5, <3>1
      <3> HIDE DEF c, pos
      <3>6. QED
        BY <2>2, <2>3, <3>1, <3>2, <3>3, <3>4, <3>5 DEF c, pos
    <2>7. CASE c \in DOMAIN rows
      <3>1. /\ Price(c) # 0 => /\ p.exit = rows[c].ts /\ ~p.ended
                               /\ p.proceeds = Proceeds(pos.size, pos.price, Price(c))
            /\ Price(c) = 0 => Tracks(p, UpdateTrail(pos, rows[c].bar), now + 1)
        BY <2>1, <2>2, <2>7, TrackMoves
      <3>2. c \in managed /\ (c \in left <=> Price(c) # 0)
        BY <1>5, <2>7
      <3> HIDE DEF Price, left, managed
      <3>3. CASE c \in left
        <4>1. p.exit = now + 1 /\ ~p.ended
          BY <1>3, <2>7, <3>1, <3>2, <3>3
        <4>2. p \notin is
          BY <4>1 DEF LiveSlots
        <4>3. QED
          BY <2>2, <2>3, <3>1, <3>2, <3>3, <4>2
      <3>4. CASE c \notin left
        <4>1. Tracks(p, UpdateTrail(pos, rows[c].bar), now + 1)
          BY <3>1, <3>2, <3>4
        <4>2. after.held[c] = UpdateTrail(pos, rows[c].bar)
          BY <1>1, <2>2, <3>2, <3>4
        <4>3. rows[c].bar \in Bars
          BY <1>3, <2>7 DEF Events
        <4>4. after.held[c] \in HeldBy /\ after.held[c].entry = pos.entry
          BY <2>2, <4>2, <4>3, UpdateTrailHeld
        <4>5. after.held[c].open
          BY <4>4 DEF HeldBy
        <4>6. p \in is
          BY <2>5, <4>1
        <4>7. QED
          BY <2>2, <2>3, <3>4, <4>1, <4>2, <4>4, <4>5, <4>6
      <3>5. QED
        BY <3>3, <3>4
    <2>8. QED
      BY <2>6, <2>7
  <1> DEFINE out == was \ is
  <1>a. gains = [c \in left |-> Brings(c)] /\ DOMAIN gains = left
    OBVIOUS
  <1>8. \A p \in was : p \in out <=> p.mint \in left
    BY <1>7
  <1>9. \A c \in left : b.held[c].open /\ c \in Mints
    BY <1>6
  <1>10. \A c \in left : \E p \in out : p.mint = c
    <2> HIDE DEF left, out
    <2>1. QED
      BY <1>5, <1>8, <1>9
  <1> HIDE DEF is
  <1>11. SumFunction(gains) = ProceedsOf(out)
    <2>1. out \in SUBSET OpenRecs /\ IsFiniteSet(out)
      BY <1>2, <1>4, FS_Subset
    <2>2. \A p \in out : p.mint \in DOMAIN gains /\ gains[p.mint] = p.proceeds
      <3>1. \A p \in out : p.mint \in left /\ Brings(p.mint) = p.proceeds
        BY <1>7, <1>8
      <3> HIDE DEF Brings, left, out
      <3>2. QED
        BY <3>1
    <2>3. \A c \in DOMAIN gains : \E p \in out : p.mint = c
      BY <1>10
    <2>4. \A p, q \in out : p.mint = q.mint => p = q
      BY <1>4, <1>5
    <2>5. DOMAIN gains \subseteq Mints
      BY <1>6
    <2> HIDE DEF gains, out
    <2>6. QED
      BY <2>1, <2>2, <2>3, <2>4, <2>5, OpenSumsByMint
  <1>12. ProceedsOf(sw.open \ is) = ProceedsOf(sw.open \ was) + ProceedsOf(out)
    <2> DEFINE S == sw.open \ is
               T == sw.open \ was
    <2>1. T \in SUBSET S /\ S \ T = out /\ S \in SUBSET OpenRecs /\ IsFiniteSet(S)
      BY <1>2, <1>4, FS_Subset
    <2> HIDE DEF S, T, out
    <2>2. ProceedsOf(S) = ProceedsOf(T) + ProceedsOf(S \ T)
      BY <2>1, OpenSums
    <2>3. QED
      BY <2>1, <2>2 DEF S, T
  <1>b. /\ ProceedsOf(sw.open \ was) \in Int /\ ProceedsOf(out) \in Int
    <2> DEFINE T == sw.open \ was
    <2>1. T \in SUBSET sw.open /\ out \in SUBSET sw.open
      BY <1>4
    <2> HIDE DEF T, out
    <2>2. QED
      BY <1>2, <2>1, OpenSums DEF T
  <1>13. after.cash = sw.balance + ProceedsOf(sw.open \ is)
    <2> HIDE DEF gains, out
    <2>1. QED
      BY <1>1, <1>2, <1>5, <1>11, <1>12, <1>b
  <1>14. sw.out = after.out \union Pending(after, is)
    <2> DEFINE Booked(x, p) == Trade(p.mint, x.held[p.mint].entry, p.exit, p.size, p.proceeds)
    <2>1. Pending(b, was) = {Booked(b, p) : p \in was} /\ Pending(after, is) = {Booked(after, p) : p \in is}
      BY DEF Pending
    <2>2. \A p \in is : Booked(b, p) = Booked(after, p)
      <3>1. \A p \in is : p \in was /\ p.mint \notin left
        BY <1>4, <1>8
      <3>2. \A p \in is : after.held[p.mint].entry = b.held[p.mint].entry
        BY <1>7, <3>1
      <3>3. QED
        BY <3>2
    <2>3. \A p \in out : Booked(b, p) = Trade(p.mint, b.held[p.mint].entry, rows[p.mint].ts,
                                              b.held[p.mint].size, Brings(p.mint))
      <3>1. \A p \in out : p \in was /\ p.mint \in left
        BY <1>8
      <3>2. QED
        BY <1>7, <3>1
    <2>4. gone = {Booked(b, p) : p \in out}
      <3> DEFINE Closes(c) == Trade(c, b.held[c].entry, rows[c].ts, b.held[c].size, Brings(c))
      <3>1. gone = {Closes(c) : c \in left}
        OBVIOUS
      <3>2. \A p \in out : Booked(b, p) = Closes(p.mint) /\ p.mint \in left
        BY <1>8, <2>3
      <3> HIDE DEF Closes, Booked, gone, left, out
      <3>3. QED
        BY <1>10, <3>1, <3>2
    <2>5. was = out \union is
      BY <1>4
    <2> HIDE DEF Booked, gone, out
    <2>6. {Booked(b, p) : p \in was} = gone \union {Booked(after, p) : p \in is}
      BY <2>2, <2>4, <2>5
    <2>7. QED
      BY <1>1, <1>5, <2>1, <2>6
  <1>15. \A p \in is : after.held[p.mint].open /\ Tracks(p, after.held[p.mint], now + 1)
    BY <1>4, <1>7, <1>8
  <1>16. \A c \in Mints : after.held[c].open => \E p \in is : p.mint = c
    <2>1. ASSUME NEW c \in Mints, after.held[c].open
          PROVE  b.held[c].open /\ c \notin left
      <3>1. c \notin left
        BY <1>1, <2>1 DEF NoPosition
      <3>2. c \in managed => b.held[c].open
        OBVIOUS
      <3>3. QED
        BY <1>1, <2>1, <3>1, <3>2
    <2>2. \A p \in was : p.mint \notin left => p \in is
      BY <1>7
    <2> HIDE DEF left
    <2>3. QED
      BY <1>5, <2>1, <2>2
  <1>17. QED
    BY <1>5, <1>13, <1>14, <1>15, <1>16 DEF Agree, is, after

\* A position just opened is tracked from its own bar.
LEMMA TrackOpens ==
    ASSUME PanelOK, NEW c \in Mints, NEW k \in DOMAIN panel[c], NEW size \in Int
    PROVE  LET r == Resolve(<<c, k>>)
               row == panel[c][k]
               p == [mint |-> c, exit |-> r.exit, size |-> size, ended |-> r.ended,
                     proceeds |-> Proceeds(size, r.price, r.at)]
           IN  p \in OpenRecs /\ Tracks(p, OpenAt(c, row.ts, row.bar.close, size), row.ts)
  <1> DEFINE line == panel[c]
             row == line[k]
             s == <<c, k>>
             n == LastBar(s)
             r == Resolve(s)
             f == Followed(s)
             pos == OpenAt(c, row.ts, row.bar.close, size)
             p == [mint |-> c, exit |-> r.exit, size |-> size, ended |-> r.ended,
                   proceeds |-> Proceeds(size, r.price, r.at)]
  <1>1. row \in BarRow /\ row.ts \in Int
    BY DEF PanelOK, BarRow
  <1>2. n \in k .. Len(line) /\ k \in Nat \ {0} /\ Len(line) \in Nat
        /\ DOMAIN line = 1 .. Len(line)
    BY LastBarIs DEF PanelOK
  <1>3. f[k] = Entered(row)
    BY FollowedIs
  <1>4. Match(pos, f[k])
    <2>1. Match(OpenAt(c, row.ts, row.bar.close, size), Entered(row))
      BY <1>1, OpenMatches
    <2>2. QED
      BY <1>3, <2>1
  <1>5. \A i \in (k + 1) .. Len(line) : line[i].ts > row.ts
    <2>1. ASSUME NEW i \in (k + 1) .. Len(line)
          PROVE  line[i].ts > row.ts
      <3>1. i \in DOMAIN line /\ k < i
        BY <1>2, <2>1
      <3>2. line[k].ts < line[i].ts /\ line[i].ts \in Int
        BY <3>1 DEF PanelOK
      <3>3. QED
        BY <1>1, <3>2
    <2>2. QED
      BY <2>1
  <1>6. r \in Candidates
    BY ResolveIs
  <1>7. Proceeds(size, r.price, r.at) \in Int
    <2>1. r.price \in Nat \ {0} /\ r.at \in Int
      BY <1>6 DEF Candidates
    <2> HIDE DEF r
    <2>2. QED
      BY <2>1, ProceedsInt
  <1>8. p \in OpenRecs
    <2>1. r.exit \in Nat /\ r.ended \in BOOLEAN
      BY <1>6 DEF Candidates
    <2> HIDE DEF r
    <2>2. QED
      BY <1>7, <2>1 DEF OpenRecs
  <1>9. pos.entry = row.ts /\ pos.size = size
    BY DEF OpenAt
  <1>10. k \in k .. n /\ row.ts <= row.ts
    BY <1>1, <1>2
  <1>11. p.mint = c /\ p.exit = r.exit /\ p.ended = r.ended /\ p.size = size
         /\ p.proceeds = Proceeds(p.size, r.price, r.at)
    OBVIOUS
  <1> HIDE DEF n, r, f, pos, p
  <1>12. \E j \in k .. n : /\ Match(pos, f[j]) /\ line[j].ts <= row.ts
                           /\ \A i \in (j + 1) .. Len(line) : line[i].ts > row.ts
                           /\ j = k \/ line[j].ts - pos.entry < MaxHold
    BY <1>4, <1>5, <1>10
  <1> HIDE DEF line, s
  <1>13. Tracks(p, pos, row.ts)
    BY <1>9, <1>11, <1>12 DEF Tracks, line, s, n, r, f
  <1>14. QED
    BY <1>8, <1>13 DEF p, pos, r, s, line

\* Once the sweep has released what left, it sees the capital the backtest sees.
LEMMA ReleaseAgrees ==
    ASSUME PanelOK, NEW b \in EngineBooks, NEW sw \in Swept, NEW now \in Nat, Agree(b, sw, now),
           ~\E p \in Released(sw.open, now) : p.ended
    PROVE  LET back == Released(sw.open, now)
               open == sw.open \ back
           IN  /\ open = LiveSlots(sw.open, now)
               /\ sw.balance + ProceedsOf(back) = b.cash
               /\ SizeOf(open) = Deployed(b.held)
  <1> DEFINE back == Released(sw.open, now)
             open == sw.open \ back
             S == {m \in Mints : b.held[m].open}
             f == [c \in S |-> b.held[c].size]
  <1>1. sw.open \in SUBSET OpenRecs /\ IsFiniteSet(sw.open) /\ b.held \in [Mints -> KeptBy]
    BY DEF Swept, EngineBooks
  <1>2. open = LiveSlots(sw.open, now)
    <2>1. \A p \in sw.open : p.exit \in Int
      BY <1>1 DEF OpenRecs
    <2>2. QED
      BY <2>1 DEF Released, LiveSlots
  <1>3. back = sw.open \ LiveSlots(sw.open, now)
    BY <1>2 DEF Released
  <1>4. /\ \A p, q \in open : p.mint = q.mint => p = q
        /\ \A p \in open : b.held[p.mint].open /\ Tracks(p, b.held[p.mint], now)
        /\ \A c \in Mints : b.held[c].open => \E p \in open : p.mint = c
        /\ b.cash = sw.balance + ProceedsOf(back)
    BY <1>2, <1>3 DEF Agree
  <1>5. open \in SUBSET OpenRecs /\ IsFiniteSet(open) /\ \A p \in open : p.mint \in Mints
    BY <1>1, FS_Subset DEF OpenRecs
  <1> HIDE DEF open, back
  <1>6. /\ DOMAIN f \subseteq Mints
        /\ \A p \in open : p.mint \in DOMAIN f
        /\ \A c \in DOMAIN f : \E p \in open : p.mint = c
    BY <1>4, <1>5
  <1>7. \A p \in open : f[p.mint] = p.size
    BY <1>4, <1>5 DEF Tracks
  <1>8. Deployed(b.held) = SumFunction(f)
    BY DEF Deployed
  <1> HIDE DEF f
  <1>9. SumFunction(f) = SizeOf(open)
    BY <1>4, <1>5, <1>6, <1>7, OpenSumsByMint
  <1>10. QED
    BY <1>2, <1>4, <1>8, <1>9 DEF open, back

\* The sweep's book with what left out of it agrees still.
LEMMA ReleasedStillAgrees ==
    ASSUME NEW b \in EngineBooks, NEW sw \in Swept, NEW now \in Nat, Agree(b, sw, now),
           NEW x \in Swept, x.open = LiveSlots(sw.open, now), x.balance = b.cash, x.out = sw.out
    PROVE  Agree(b, x, now)
  <1> DEFINE live == LiveSlots(sw.open, now)
  <1>1. LiveSlots(x.open, now) = live /\ x.open = live /\ live \subseteq sw.open
    BY DEF LiveSlots
  <1>2. x.open \ LiveSlots(x.open, now) = {}
    BY <1>1
  <1>3. b.cash = x.balance + ProceedsOf(x.open \ LiveSlots(x.open, now))
    <2> DEFINE rest == x.open \ LiveSlots(x.open, now)
    <2>1. rest = {}
      BY <1>2
    <2> HIDE DEF rest
    <2>2. ProceedsOf(rest) = 0
      BY <2>1, NoOpenSums
    <2>3. b.cash = x.balance /\ b.cash \in Int
      BY DEF EngineBooks
    <2>4. QED
      BY <2>2, <2>3 DEF rest
  <1>4. /\ \A p, q \in sw.open : p.mint = q.mint => p = q
        /\ \A p \in live : b.held[p.mint].open /\ Tracks(p, b.held[p.mint], now)
        /\ \A c \in Mints : b.held[c].open => \E p \in live : p.mint = c
        /\ sw.out = b.out \union Pending(b, live)
    BY DEF Agree
  <1> HIDE DEF live
  <1>5. x.out = b.out \union Pending(b, LiveSlots(x.open, now))
    BY <1>1, <1>4
  <1>6. \A p, q \in x.open : p.mint = q.mint => p = q
    BY <1>1, <1>4
  <1>7. QED
    BY <1>1, <1>3, <1>4, <1>5, <1>6 DEF Agree

\* And so does it with a position that both open.
LEMMA AddedAgrees ==
    ASSUME PanelOK, NEW b \in EngineBooks, NEW sw \in Swept, NEW now \in Nat, Agree(b, sw, now),
           NEW p \in OpenRecs, NEW pos \in HeldBy, Tracks(p, pos, now),
           \A q \in LiveSlots(sw.open, now) : q.mint # p.mint,
           NEW x \in Swept, x.open = LiveSlots(sw.open, now) \union {p},
           x.balance = b.cash - p.size,
           x.out = sw.out \union {Trade(p.mint, pos.entry, p.exit, p.size, p.proceeds)},
           NEW after \in EngineBooks, after.cash = b.cash - p.size, after.out = b.out,
           after.held = [b.held EXCEPT ![p.mint] = pos]
    PROVE  Agree(after, x, now)
  <1> DEFINE live == LiveSlots(sw.open, now)
             Booked(y, q) == Trade(q.mint, y.held[q.mint].entry, q.exit, q.size, q.proceeds)
  <1>1. /\ b.held \in [Mints -> KeptBy] /\ b.cash \in Int /\ p.mint \in Mints /\ p.size \in Int
        /\ \A q \in sw.open : q.mint \in Mints
    BY DEF EngineBooks, OpenRecs, Swept
  <1>2. after.held[p.mint] = pos /\ \A c \in Mints : c # p.mint => after.held[c] = b.held[c]
    BY <1>1
  <1>3. p.ended \/ p.exit > now
    BY TrackedStays
  <1>4. LiveSlots(x.open, now) = x.open /\ x.open = live \union {p} /\ live \subseteq sw.open
    BY <1>3 DEF LiveSlots
  <1>5. x.open \ LiveSlots(x.open, now) = {}
    BY <1>4
  <1>6. after.cash = x.balance + ProceedsOf(x.open \ LiveSlots(x.open, now))
    <2> DEFINE rest == x.open \ LiveSlots(x.open, now)
    <2>1. rest = {}
      BY <1>5
    <2> HIDE DEF rest
    <2>2. ProceedsOf(rest) = 0
      BY <2>1, NoOpenSums
    <2>3. after.cash = x.balance /\ after.cash \in Int
      BY DEF EngineBooks
    <2>4. QED
      BY <2>2, <2>3 DEF rest
  <1>7. /\ \A q, r \in sw.open : q.mint = r.mint => q = r
        /\ \A q \in live : b.held[q.mint].open /\ Tracks(q, b.held[q.mint], now)
        /\ \A c \in Mints : b.held[c].open => \E q \in live : q.mint = c
        /\ sw.out = b.out \union Pending(b, live)
    BY DEF Agree
  <1>8. \A q \in live : q.mint # p.mint
    OBVIOUS
  <1>a. x.out = sw.out \union {Trade(p.mint, pos.entry, p.exit, p.size, p.proceeds)}
    OBVIOUS
  <1>b. pos.open
    BY DEF HeldBy
  <1>c. Pending(b, live) = {Booked(b, q) : q \in live}
        /\ Pending(after, x.open) = {Booked(after, q) : q \in x.open}
    BY DEF Pending
  <1> HIDE DEF live
  <1>9. \A q \in live : q.mint \in Mints /\ after.held[q.mint] = b.held[q.mint]
    BY <1>1, <1>2, <1>4, <1>8
  <1>10. \A q, r \in x.open : q.mint = r.mint => q = r
    BY <1>4, <1>7, <1>8
  <1>11. \A q \in x.open : after.held[q.mint].open /\ Tracks(q, after.held[q.mint], now)
    BY <1>2, <1>4, <1>7, <1>9, <1>b
  <1>12. \A c \in Mints : after.held[c].open => \E q \in x.open : q.mint = c
    BY <1>2, <1>4, <1>7
  <1>13. x.out = after.out \union Pending(after, x.open)
    <2>1. \A q \in live : Booked(after, q) = Booked(b, q)
      BY <1>9
    <2>2. Booked(after, p) = Trade(p.mint, pos.entry, p.exit, p.size, p.proceeds)
      BY <1>2
    <2> HIDE DEF Booked
    <2>3. {Booked(after, q) : q \in x.open} = {Booked(b, q) : q \in live} \union {Booked(after, p)}
      BY <1>4, <2>1
    <2>4. QED
      BY <1>7, <1>a, <1>c, <2>2, <2>3
  <1>14. QED
    <2> DEFINE now1 == LiveSlots(x.open, now)
    <2>1. now1 = x.open
      BY <1>4
    <2>2. after.cash = x.balance + ProceedsOf(x.open \ now1)
      BY <1>6
    <2> HIDE DEF now1
    <2>3. /\ \A q \in now1 : after.held[q.mint].open /\ Tracks(q, after.held[q.mint], now)
          /\ \A c \in Mints : after.held[c].open => \E q \in now1 : q.mint = c
          /\ x.out = after.out \union Pending(after, now1)
      BY <1>11, <1>12, <1>13, <2>1
    <2>4. QED
      BY <1>10, <2>2, <2>3 DEF Agree, now1

\* Pass two of one token, and the sweep's turn at that token's candidate.
LEMMA EnterAgrees ==
    ASSUME PanelOK, NEW b \in EngineBooks, NEW sw \in Swept, NEW ts \in Nat, Agree(b, sw, ts),
           NEW rows, RowsAt(rows, ts), NEW c \in Mints
    PROVE  Flagged(TakeAt(sw, ts, c)) \/ Agree(Enter(b, c, rows), TakeAt(sw, ts, c), ts)
  <1> DEFINE bars == {i \in DOMAIN panel[c] : panel[c][i].ts = ts /\ <<c, i>> \in Signals}
             k == rows[c].idx
             candidate == c \in DOMAIN rows /\ k > MinBars /\ rows[c].bar.signal
  <1>1. TakeAt(sw, ts, c)
          = IF bars = {} THEN sw ELSE Take(sw, Resolve(<<c, CHOOSE i \in bars : TRUE>>))
    BY DEF TakeAt
  <1>2. RowsTyped(rows) /\ DOMAIN rows \subseteq Mints
    BY DEF RowsAt, RowsTyped
  <1>3. c \in DOMAIN rows => /\ k \in DOMAIN panel[c] /\ rows[c].ts = ts /\ k \in Int
                             /\ panel[c][k].ts = ts /\ panel[c][k].bar = rows[c].bar
                             /\ rows[c].bar.signal \in BOOLEAN
    BY DEF RowsAt, RowsTyped, Events, Bars
  <1>4. \A i \in bars : candidate /\ i = k
    <2>1. ASSUME NEW i \in bars
          PROVE  candidate /\ i = k
      <3>1. i \in DOMAIN panel[c] /\ panel[c][i].ts = ts /\ <<c, i>> \in Signals
        BY <2>1
      <3>2. c \in DOMAIN rows
        BY <3>1 DEF RowsAt
      <3>3. i = k
        BY <1>3, <3>1, <3>2, BarAt
      <3>4. i > MinBars /\ panel[c][i].bar.signal
        BY <3>1 DEF Signals
      <3>5. QED
        BY <1>3, <3>2, <3>3, <3>4
    <2>2. QED
      BY <2>1
  <1>5. candidate => bars = {k}
    <2>1. ASSUME candidate
          PROVE  k \in bars
      <3>1. <<c, k>> \in {c} \X DOMAIN panel[c]
        BY <1>3, <2>1
      <3>2. <<c, k>> \in Signals
        BY <1>3, <2>1, <3>1 DEF Signals
      <3>3. QED
        BY <1>3, <2>1, <3>2
    <2> HIDE DEF bars, candidate
    <2>2. QED
      BY <1>4, <2>1
  <1> HIDE DEF bars
  <1>6. CASE ~candidate
    <2>1. bars = {}
      BY <1>4, <1>6
    <2>2. MinBars \in Int
      BY ConstantsTyped
    <2>3. Enter(b, c, rows) = b
      BY <1>3, <1>6, <2>2 DEF Enter
    <2>4. QED
      BY <1>1, <2>1, <2>3
  <1>7. CASE candidate
    <2> DEFINE r == Resolve(<<c, k>>)
               back == Released(sw.open, r.entry)
               open == sw.open \ back
               balance == sw.balance + ProceedsOf(back)
               deployed == SizeOf(open)
               wallet == balance + deployed
               cap == Smaller(Pct(wallet, WalletPct),
                              Larger(0, Pct(wallet, TotalPct) - deployed))
               size == Smaller(cap, Pct(Liquidity[r.mint], LiquidityPct))
               proceeds == Proceeds(size, r.price, r.at)
               held == \E p \in open : p.mint = r.mint
               full == deployed >= Pct(wallet, TotalPct)
               alike == open # {} /\ r.entry \in Alike
               p == [mint |-> c, exit |-> r.exit, size |-> size, ended |-> r.ended,
                     proceeds |-> proceeds]
               trade == Trade(r.mint, r.entry, r.exit, size, proceeds)
               early == sw.early \/ \E q \in back : q.ended
               after == [sw EXCEPT !.balance = balance, !.open = open, !.early = early]
               added == [after EXCEPT !.balance = balance - size, !.open = open \union {p},
                                      !.out = sw.out \union {trade}]
               pos == OpenAt(c, rows[c].ts, rows[c].bar.close, size)
    <2>1. k \in DOMAIN panel[c] /\ rows[c].ts = ts /\ panel[c][k].ts = ts
          /\ panel[c][k].bar = rows[c].bar /\ c \in DOMAIN rows
      BY <1>3, <1>7
    <2>2. r \in Candidates /\ r.mint = c /\ r.entry = ts
      BY <2>1, ResolveIs
    <2>3. TakeAt(sw, ts, c) = Take(sw, r)
      <3>1. bars = {k}
        BY <1>5, <1>7
      <3>2. (CHOOSE i \in bars : TRUE) = k
        BY <3>1
      <3>3. QED
        BY <1>1, <3>1, <3>2
    <2>4. Take(sw, r) = IF held \/ full THEN after
                        ELSE IF alike THEN [after EXCEPT !.refused = TRUE]
                        ELSE IF size < MinPosition \/ size > balance THEN after
                        ELSE added
      BY <2>2 DEF Take, Swept
    <2>5. balance \in Int /\ deployed \in Int /\ size \in Int /\ proceeds \in Int
      BY <2>2, TakeIs
    <2>6. Take(sw, r) \in Swept
      BY <2>2, TakeTyped
    <2> HIDE DEF r
    <2>7. /\ after.balance = balance /\ after.open = open /\ after.early = early
          /\ after.out = sw.out
      BY DEF Swept
    <2>8. ASSUME ~Flagged(TakeAt(sw, ts, c))
          PROVE  Agree(Enter(b, c, rows), TakeAt(sw, ts, c), ts)
      <3>1. ~early
        <4>1. /\ [after EXCEPT !.refused = TRUE].early = early
              /\ added.early = early
          BY DEF Swept
        <4> HIDE DEF early, added, after
        <4>2. Take(sw, r).early = early
          BY <2>4, <2>7, <4>1
        <4>3. QED
          BY <2>3, <2>8, <4>2 DEF Flagged
      <3>2. ~\E q \in Released(sw.open, ts) : q.ended
        BY <2>2, <3>1
      <3>3. open = LiveSlots(sw.open, ts) /\ balance = b.cash /\ deployed = Deployed(b.held)
        BY <2>2, <3>2, ReleaseAgrees
      <3>4. Enter(b, c, rows)
              = IF \/ c \notin DOMAIN rows \/ b.held[c].open \/ k <= MinBars
                   \/ deployed >= Pct(wallet, TotalPct)
                   \/ size < MinPosition \/ size > balance \/ ~rows[c].bar.signal
                THEN b
                ELSE [b EXCEPT !.cash = b.cash - size, !.held[c] = pos]
        <4>1. SizePosition(wallet, deployed, Liquidity[c]) = size
          <5>1. wallet \in Int /\ WalletPct \in Int /\ TotalPct \in Int /\ LiquidityPct \in Int
                /\ Liquidity[c] \in Int
            BY <2>5, ConstantsTyped
          <5> HIDE DEF wallet
          <5>2. /\ Pct(wallet, WalletPct) \in Int /\ Pct(wallet, TotalPct) \in Int
                /\ Pct(Liquidity[c], LiquidityPct) \in Int
            BY <5>1, PctInt
          <5> HIDE DEF deployed
          <5>3. \A x, y, z \in Int : Smaller(x, Smaller(z, y)) = Smaller(Smaller(x, y), z)
            BY DEF Smaller
          <5>4. Larger(0, Pct(wallet, TotalPct) - deployed) \in Int
            BY <2>5, <5>2 DEF Larger
          <5>5. QED
            BY <2>2, <5>2, <5>3, <5>4 DEF SizePosition
        <4> HIDE DEF size
        <4>2. QED
          BY <3>3, <4>1 DEF Enter
      <3>5. held <=> b.held[c].open
        <4>1. /\ \A q \in open : b.held[q.mint].open
              /\ b.held[c].open => \E q \in open : q.mint = c
          BY <3>3 DEF Agree
        <4>2. QED
          BY <2>2, <4>1
      <3>6. k > MinBars /\ ~(k <= MinBars) /\ rows[c].bar.signal
        <4>1. k \in Int /\ MinBars \in Int
          BY <1>3, <2>1, ConstantsTyped
        <4>2. QED
          BY <1>7, <4>1
      <3>7. CASE held \/ full \/ size < MinPosition \/ size > balance
        <4>1. Enter(b, c, rows) = b
          BY <3>4, <3>5, <3>7
        <4>2. Take(sw, r) = after
          <5>1. ~Take(sw, r).refused
            BY <2>3, <2>8 DEF Flagged
          <5>2. [after EXCEPT !.refused = TRUE].refused
            BY DEF Swept
          <5> HIDE DEF after, held, full, alike, size, balance, added
          <5>3. QED
            BY <2>4, <3>7, <5>1, <5>2
        <4>3. after \in Swept
          BY <2>6, <4>2
        <4> HIDE DEF after
        <4>4. Agree(b, after, ts)
          BY <2>7, <3>3, <4>3, ReleasedStillAgrees
        <4>5. QED
          BY <2>3, <4>1, <4>2, <4>4
      <3>8. CASE ~(held \/ full \/ size < MinPosition \/ size > balance)
        <4>1. Enter(b, c, rows) = [b EXCEPT !.cash = b.cash - size, !.held[c] = pos]
          BY <2>1, <3>4, <3>5, <3>6, <3>8
        <4>2. Take(sw, r) = added
          <5>1. ~Take(sw, r).refused
            BY <2>3, <2>8 DEF Flagged
          <5>2. [after EXCEPT !.refused = TRUE].refused
            BY DEF Swept
          <5> HIDE DEF after, held, full, alike, size, balance, added
          <5>3. QED
            BY <2>4, <3>8, <5>1, <5>2
        <4>3. added \in Swept
          BY <2>6, <4>2
        <4>4. added.open = open \union {p} /\ added.balance = balance - size
              /\ added.out = sw.out \union {trade}
          BY DEF Swept
        <4>5. p \in OpenRecs /\ Tracks(p, pos, ts)
          BY <2>1, <2>5, TrackOpens DEF r
        <4>6. pos \in HeldBy /\ pos.entry = ts
          <5>1. rows[c].bar.close \in Nat \ {0} /\ rows[c].ts \in Nat
            BY <1>2, <2>1 DEF RowsTyped, Events, Bars
          <5> HIDE DEF size
          <5>2. pos \in HeldBy
            BY <2>5, <5>1, OpenAtHeld
          <5>3. QED
            BY <2>1, <5>2 DEF OpenAt
        <4>7. p.mint = c /\ p.size = size /\ p.exit = r.exit /\ p.proceeds = proceeds
          OBVIOUS
        <4>8. \A q \in LiveSlots(sw.open, ts) : q.mint # p.mint
          BY <2>2, <3>3, <3>8, <4>7
        <4>9. trade = Trade(p.mint, pos.entry, p.exit, p.size, p.proceeds)
          BY <2>2, <4>6, <4>7
        <4> DEFINE next == [b EXCEPT !.cash = b.cash - size, !.held[c] = pos]
        <4>10. next \in EngineBooks
          BY <1>2, <4>1, EnterTyped
        <4>11. next.cash = b.cash - size /\ next.out = b.out /\ next.held = [b.held EXCEPT ![c] = pos]
          BY DEF EngineBooks
        <4> HIDE DEF added, p, pos, trade, size, proceeds, balance, open, next
        <4>12. Agree(next, added, ts)
          <5>1. /\ added.open = LiveSlots(sw.open, ts) \union {p} /\ added.balance = b.cash - p.size
                /\ added.out = sw.out \union {Trade(p.mint, pos.entry, p.exit, p.size, p.proceeds)}
            BY <3>3, <4>4, <4>7, <4>9
          <5>2. /\ next.cash = b.cash - p.size /\ next.out = b.out
                /\ next.held = [b.held EXCEPT ![p.mint] = pos]
            BY <4>7, <4>11
          <5>3. QED
            BY <4>3, <4>5, <4>6, <4>8, <4>10, <5>1, <5>2, AddedAgrees
        <4>13. QED
          BY <2>3, <4>1, <4>2, <4>12 DEF next
      <3>9. QED
        BY <3>7, <3>8
    <2>9. QED
      BY <2>8
  <1>8. QED
    BY <1>6, <1>7

\* One time of both.
LEMMA TimeAgrees ==
    ASSUME PanelOK, NEW b \in EngineBooks, NEW sw \in Swept, NEW now \in Nat,
           Flagged(sw) \/ Agree(b, sw, now), NEW rows, RowsAt(rows, now + 1)
    PROVE  LET x == SweepAt(sw, now + 1)
           IN  Flagged(x) \/ Agree(EnterAll(ManageAll(b, rows), rows), x, now + 1)
  <1> DEFINE N == Len(Tokens)
             ts == now + 1
             book == ManageAll(b, rows)
  <1>1. N \in Nat /\ \A i \in 1 .. N : Tokens[i] \in Mints
    BY ConstantsTyped DEF Mints
  <1>2. ts \in Nat /\ RowsTyped(rows) /\ RowsAt(rows, ts)
    BY DEF RowsAt
  <1>3. book \in EngineBooks
    BY <1>2, ManageAllTyped
  <1>4. Flagged(sw) \/ Agree(book, sw, ts)
    BY ManageAgrees
  <1> HIDE DEF ts, book
  <1>5. PICK h \in [0 .. N -> EngineBooks] :
           /\ h[0] = book
           /\ \A i \in 1 .. N : h[i] = Enter(h[i - 1], Tokens[i], rows)
           /\ EnterAll(book, rows) = h[N]
    BY <1>2, <1>3, EnterAllIs
  <1>6. PICK g \in [0 .. N -> Swept] :
           /\ g[0] = sw
           /\ \A i \in 1 .. N : g[i] = TakeAt(g[i - 1], ts, Tokens[i])
           /\ SweepAt(sw, ts) = g[N]
    BY <1>2, SweepAtIs
  <1> HIDE DEF N
  <1> DEFINE S == {i \in 0 .. N : Flagged(g[i]) \/ Agree(h[i], g[i], ts)}
  <1>7. 0 \in S
    BY <1>1, <1>4, <1>5, <1>6
  <1>8. ASSUME NEW i \in 0 .. N, i \in S, i < N
        PROVE  i + 1 \in S
    <2>1. i + 1 \in 1 .. N /\ i + 1 \in 0 .. N /\ (i + 1) - 1 = i
      BY <1>1, <1>8
    <2>2. /\ h[i] \in EngineBooks /\ g[i] \in Swept /\ Tokens[i + 1] \in Mints
          /\ h[i + 1] = Enter(h[i], Tokens[i + 1], rows)
          /\ g[i + 1] = TakeAt(g[i], ts, Tokens[i + 1])
      BY <1>1, <1>5, <1>6, <2>1
    <2>3. CASE Flagged(g[i])
      <3>1. Flagged(g[i + 1])
        BY <1>2, <2>2, <2>3, TakeAtTyped
      <3>2. QED
        BY <2>1, <3>1
    <2>4. CASE Agree(h[i], g[i], ts)
      <3>1. Flagged(g[i + 1]) \/ Agree(h[i + 1], g[i + 1], ts)
        BY <1>2, <2>2, <2>4, EnterAgrees
      <3>2. QED
        BY <2>1, <3>1
    <2>5. QED
      BY <1>8, <2>3, <2>4
  <1> HIDE DEF S
  <1>9. 0 .. N \subseteq S
    BY <1>1, <1>7, <1>8, RangeInduction
  <1>10. Flagged(g[N]) \/ Agree(h[N], g[N], ts)
    <2>1. N \in S
      BY <1>1, <1>9
    <2>2. QED
      BY <2>1 DEF S
  <1>11. QED
    BY <1>5, <1>6, <1>10 DEF ts, book

\* The end of the data takes out of both what is still open.
LEMMA EndAgrees ==
    ASSUME PanelOK, NEW b \in EngineBooks, b.cash = cash, b.held = positions, b.out = trades,
           NEW sw \in Swept, Agree(b, sw, clock)
    PROVE  sw.out = Backtest.out /\ sw.balance + ProceedsOf(sw.open) = Backtest.cash
  <1> DEFINE Last(c) == panel[c][Len(panel[c])]
             Brings(c) == Proceeds(b.held[c].size, b.held[c].price, Last(c).bar.close)
             Closes(c) == Trade(c, b.held[c].entry, Last(c).ts, b.held[c].size, Brings(c))
             open == {c \in Mints : b.held[c].open}
             gains == [c \in open |-> Brings(c)]
             live == LiveSlots(sw.open, clock)
             Booked(p) == Trade(p.mint, b.held[p.mint].entry, p.exit, p.size, p.proceeds)
  <1>1. Backtest = [cash |-> b.cash + SumFunction(gains),
                    out |-> b.out \union {Closes(c) : c \in open}]
    BY DEF Backtest
  <1>2. /\ b.held \in [Mints -> KeptBy] /\ b.cash \in Int
        /\ sw.open \in SUBSET OpenRecs /\ IsFiniteSet(sw.open) /\ sw.balance \in Int
        /\ live \subseteq sw.open /\ clock \in Nat
    BY DEF EngineBooks, Swept, LiveSlots, PanelOK
  <1>3. /\ \A p, q \in sw.open : p.mint = q.mint => p = q
        /\ \A p \in live : b.held[p.mint].open /\ Tracks(p, b.held[p.mint], clock)
        /\ \A c \in Mints : b.held[c].open => \E p \in live : p.mint = c
        /\ b.cash = sw.balance + ProceedsOf(sw.open \ live)
        /\ sw.out = b.out \union Pending(b, live)
    BY DEF Agree
  <1> HIDE DEF live
  <1>4. ASSUME NEW p \in live
        PROVE  /\ p.mint \in open /\ p.proceeds = Brings(p.mint)
               /\ Booked(p) = Closes(p.mint)
    <2> DEFINE c == p.mint
               line == panel[c]
               pos == b.held[c]
               n == Len(line)
    <2>1. c \in Mints /\ c \in open /\ Tracks(p, pos, clock)
      BY <1>2, <1>3 DEF OpenRecs
    <2>2. PICK k \in DOMAIN line :
             LET s == <<c, k>>
                 r == Resolve(s)
             IN  /\ p.exit = r.exit /\ p.size = pos.size
                 /\ p.proceeds = Proceeds(p.size, r.price, r.at)
                 /\ \E j \in k .. LastBar(s) : /\ Match(pos, Followed(s)[j])
                                               /\ \A i \in (j + 1) .. n : line[i].ts > clock
      BY <2>1 DEF Tracks
    <2> DEFINE s == <<c, k>>
               r == Resolve(s)
               f == Followed(s)
    <2>3. PICK j \in k .. LastBar(s) : Match(pos, f[j]) /\ \A i \in (j + 1) .. n : line[i].ts > clock
      BY <2>2
    <2>4. LastBar(s) \in k .. n /\ k \in Nat \ {0} /\ n \in Nat /\ DOMAIN line = 1 .. n
          /\ \A i \in DOMAIN line : line[i].ts \in 1 .. clock
      BY <2>1, LastBarIs DEF PanelOK
    <2>5. /\ r.price = f[LastBar(s)].price
          /\ f[LastBar(s)].out = 0 => r.exit = line[LastBar(s)].ts /\ r.at = line[LastBar(s)].bar.close
      BY <2>1, ResolveIs
    <2>a. p.exit = r.exit /\ p.size = pos.size /\ p.proceeds = Proceeds(p.size, r.price, r.at)
      BY <2>2
    <2> HIDE DEF r, f, s, n, line
    <2>6. LastBar(s) = n /\ j = n
      <3>1. j \in 1 .. n
        BY <2>4
      <3>2. ~(j < n)
        <4>1. ASSUME j < n PROVE FALSE
          <5>1. n \in (j + 1) .. n /\ n \in DOMAIN line
            BY <2>4, <3>1, <4>1
          <5>2. line[n].ts > clock /\ line[n].ts \in 1 .. clock
            BY <2>3, <2>4, <5>1
          <5>3. QED
            BY <1>2, <5>2
        <4>2. QED
          BY <4>1
      <3>3. QED
        BY <2>4, <3>1, <3>2
    <2>7. f[n].out = 0 /\ f[n].price = pos.price
      BY <2>3, <2>6 DEF Match
    <2>8. r.price = pos.price /\ r.exit = line[n].ts /\ r.at = line[n].bar.close
      BY <2>5, <2>6, <2>7
    <2>9. p.exit = Last(c).ts /\ p.proceeds = Brings(c) /\ p.size = pos.size
      BY <2>2, <2>8, <2>a DEF line, n
    <2>10. QED
      BY <2>1, <2>9
  <1>5. \A c \in open : \E p \in live : p.mint = c
    BY <1>3
  <1>6. SumFunction(gains) = ProceedsOf(live)
    <2>1. live \in SUBSET OpenRecs /\ IsFiniteSet(live)
      BY <1>2, FS_Subset
    <2>2. \A p \in live : p.mint \in DOMAIN gains /\ gains[p.mint] = p.proceeds
      <3>1. \A p \in live : p.mint \in open /\ Brings(p.mint) = p.proceeds
        BY <1>4
      <3> HIDE DEF Brings, open
      <3>2. QED
        BY <3>1
    <2>3. DOMAIN gains \subseteq Mints /\ \A c \in DOMAIN gains : \E p \in live : p.mint = c
      BY <1>5
    <2>4. \A p, q \in live : p.mint = q.mint => p = q
      BY <1>2, <1>3
    <2> HIDE DEF gains
    <2>5. QED
      BY <2>1, <2>2, <2>3, <2>4, OpenSumsByMint
  <1>7. /\ ProceedsOf(sw.open) = ProceedsOf(live) + ProceedsOf(sw.open \ live)
        /\ ProceedsOf(live) \in Int /\ ProceedsOf(sw.open \ live) \in Int
    BY <1>2, OpenSums
  <1>8. Pending(b, live) = {Closes(c) : c \in open}
    <2>1. Pending(b, live) = {Booked(p) : p \in live}
      BY DEF Pending
    <2>2. \A p \in live : Booked(p) = Closes(p.mint) /\ p.mint \in open
      BY <1>4
    <2> HIDE DEF Booked, Closes, open
    <2>3. QED
      BY <1>5, <2>1, <2>2
  <1> HIDE DEF gains, Closes, open
  <1>9. Backtest.out = sw.out
    BY <1>1, <1>3, <1>8
  <1>10. Backtest.cash = sw.balance + ProceedsOf(sw.open)
    BY <1>1, <1>2, <1>3, <1>6, <1>7
  <1>11. QED
    BY <1>9, <1>10

----------------------------------------------------------------------------
(* The history *)

\* What the book was at each time, and the rows it was given.
Past(h, r) ==
    /\ h \in [0 .. clock -> EngineBooks]
    /\ h[0] = [cash |-> StartBalance, held |-> [c \in Mints |-> NoPosition], out |-> {}]
    /\ h[clock].cash = cash /\ h[clock].held = positions /\ h[clock].out = trades
    /\ \A ts \in 1 .. clock :
          RowsAt(r[ts], ts) /\ h[ts] = EnterAll(ManageAll(h[ts - 1], r[ts]), r[ts])

SimulationIInv == PanelOK /\ \E h, r : Past(h, r)

\* At every time of its past the backtest's book agreed with the sweep's.
LEMMA PastAgrees ==
    ASSUME PanelOK, NEW h, NEW r, Past(h, r)
    PROVE  EnginesAgree
  <1>1. clock \in Nat /\ clock \in 0 .. clock
    BY DEF PanelOK
  <1>2. PICK g \in [0 .. clock -> Swept] :
           /\ g[0] = [balance |-> StartBalance, open |-> {}, out |-> {},
                      refused |-> FALSE, early |-> FALSE]
           /\ \A i \in 1 .. clock : g[i] = SweepAt(g[i - 1], i)
           /\ Sweep = [g[clock] EXCEPT !.balance = g[clock].balance + ProceedsOf(g[clock].open)]
    BY SweepIs
  <1>3. /\ h \in [0 .. clock -> EngineBooks]
        /\ h[0] = [cash |-> StartBalance, held |-> [c \in Mints |-> NoPosition], out |-> {}]
        /\ h[clock].cash = cash /\ h[clock].held = positions /\ h[clock].out = trades
        /\ \A ts \in 1 .. clock :
              RowsAt(r[ts], ts) /\ h[ts] = EnterAll(ManageAll(h[ts - 1], r[ts]), r[ts])
    BY DEF Past
  <1> DEFINE S == {i \in 0 .. clock : Flagged(g[i]) \/ Agree(h[i], g[i], i)}
  <1>4. 0 \in S
    <2> DEFINE b == h[0]
               sw == g[0]
    <2>1. b.cash = StartBalance /\ b.out = {} /\ \A c \in Mints : ~b.held[c].open
      BY <1>3 DEF NoPosition
    <2>2. sw.balance = StartBalance /\ sw.open = {} /\ sw.out = {}
      BY <1>2
    <2> HIDE DEF b, sw
    <2>3. LiveSlots(sw.open, 0) = {} /\ Pending(b, {}) = {} /\ sw.open \ LiveSlots(sw.open, 0) = {}
      BY <2>2 DEF LiveSlots, Pending
    <2> DEFINE live == LiveSlots(sw.open, 0)
               rest == sw.open \ live
    <2>4. live = {} /\ rest = {}
      BY <2>3
    <2> HIDE DEF live, rest
    <2>5. b.cash = sw.balance + ProceedsOf(rest)
      <3>1. StartBalance \in Int
        BY ConstantsTyped
      <3>2. QED
        BY <2>1, <2>2, <2>4, <3>1, NoOpenSums
    <2>6. sw.out = b.out \union Pending(b, live)
      BY <2>1, <2>2, <2>3, <2>4
    <2>7. /\ \A p, q \in sw.open : p.mint = q.mint => p = q
          /\ \A p \in live : b.held[p.mint].open /\ Tracks(p, b.held[p.mint], 0)
          /\ \A c \in Mints : b.held[c].open => \E p \in live : p.mint = c
      BY <2>1, <2>2, <2>4
    <2>8. Agree(b, sw, 0)
      BY <2>5, <2>6, <2>7 DEF Agree, live, rest
    <2>9. QED
      BY <1>1, <2>8 DEF b, sw
  <1>5. ASSUME NEW i \in 0 .. clock, i \in S, i < clock
        PROVE  i + 1 \in S
    <2>1. i + 1 \in 1 .. clock /\ i + 1 \in 0 .. clock /\ (i + 1) - 1 = i /\ i \in Nat
      BY <1>1, <1>5
    <2>2. /\ h[i] \in EngineBooks /\ g[i] \in Swept /\ g[i + 1] = SweepAt(g[i], i + 1)
          /\ RowsAt(r[i + 1], i + 1)
          /\ h[i + 1] = EnterAll(ManageAll(h[i], r[i + 1]), r[i + 1])
      BY <1>2, <1>3, <2>1
    <2>3. Flagged(g[i]) \/ Agree(h[i], g[i], i)
      BY <1>5
    <2>4. Flagged(g[i + 1]) \/ Agree(h[i + 1], g[i + 1], i + 1)
      BY <2>1, <2>2, <2>3, TimeAgrees
    <2>5. QED
      BY <2>1, <2>4
  <1> HIDE DEF S
  <1>6. 0 .. clock \subseteq S
    BY <1>1, <1>4, <1>5, RangeInduction
  <1>7. Flagged(g[clock]) \/ Agree(h[clock], g[clock], clock)
    <2>1. clock \in S
      BY <1>1, <1>6
    <2>2. QED
      BY <2>1 DEF S
  <1> DEFINE sw == g[clock]
  <1>8. sw \in Swept /\ h[clock] \in EngineBooks
    BY <1>1, <1>2, <1>3
  <1>9. /\ Sweep.refused = sw.refused /\ Sweep.early = sw.early /\ Sweep.out = sw.out
        /\ Sweep.balance = sw.balance + ProceedsOf(sw.open)
    <2>1. Sweep = [sw EXCEPT !.balance = sw.balance + ProceedsOf(sw.open)]
      BY <1>2
    <2> HIDE DEF sw
    <2>2. QED
      BY <1>8, <2>1 DEF Swept
  <1>10. CASE Flagged(sw)
    BY <1>9, <1>10 DEF EnginesAgree, Flagged
  <1>11. CASE Agree(h[clock], sw, clock)
    <2>1. sw.out = Backtest.out /\ sw.balance + ProceedsOf(sw.open) = Backtest.cash
      BY <1>3, <1>8, <1>11, EndAgrees
    <2>2. QED
      BY <1>9, <2>1 DEF EnginesAgree
  <1>12. QED
    BY <1>7, <1>10, <1>11

\* What printing does to a token's bars: the old stay, and there is one more.
LEMMA PanelGrows ==
    ASSUME PanelOK, NEW bars, DOMAIN bars \subseteq Mints, \A c \in DOMAIN bars : bars[c] \in Bars,
           PrintBars(bars)
    PROVE  /\ clock' = clock + 1 /\ panel' \in [Mints -> Seq(BarRow)]
           /\ \A c \in Mints :
                 /\ Len(panel'[c]) \in Nat /\ DOMAIN panel'[c] = 1 .. Len(panel'[c])
                 /\ \A k \in DOMAIN panel[c] : k \in DOMAIN panel'[c] /\ panel'[c][k] = panel[c][k]
                 /\ \A k \in DOMAIN panel'[c] :
                       k \in DOMAIN panel[c] \/ (c \in DOMAIN bars /\ k = Len(panel[c]) + 1)
                 /\ c \in DOMAIN bars =>
                       /\ Len(panel[c]) + 1 \in DOMAIN panel'[c]
                       /\ panel'[c][Len(panel[c]) + 1] = [ts |-> clock + 1, bar |-> bars[c]]
  <1>1. /\ clock' = clock + 1
        /\ panel' = [c \in Mints |->
                       IF c \in DOMAIN bars
                       THEN Append(panel[c], [ts |-> clock + 1, bar |-> bars[c]]) ELSE panel[c]]
    BY DEF PrintBars
  <1>2. clock \in Nat /\ panel \in [Mints -> Seq(BarRow)]
    BY DEF PanelOK
  <1>3. ASSUME NEW c \in Mints
        PROVE  /\ panel'[c] \in Seq(BarRow)
               /\ Len(panel'[c]) \in Nat /\ DOMAIN panel'[c] = 1 .. Len(panel'[c])
               /\ \A k \in DOMAIN panel[c] : k \in DOMAIN panel'[c] /\ panel'[c][k] = panel[c][k]
               /\ \A k \in DOMAIN panel'[c] :
                     k \in DOMAIN panel[c] \/ (c \in DOMAIN bars /\ k = Len(panel[c]) + 1)
               /\ c \in DOMAIN bars =>
                     /\ Len(panel[c]) + 1 \in DOMAIN panel'[c]
                     /\ panel'[c][Len(panel[c]) + 1] = [ts |-> clock + 1, bar |-> bars[c]]
    <2> DEFINE s == panel[c]
               e == [ts |-> clock + 1, bar |-> bars[c]]
    <2>1. s \in Seq(BarRow) /\ Len(s) \in Nat /\ DOMAIN s = 1 .. Len(s)
      BY <1>2
    <2>2. CASE c \in DOMAIN bars
      <3>1. panel'[c] = Append(s, e)
        BY <1>1, <2>2
      <3>2. e \in BarRow
        BY <1>2, <2>2 DEF BarRow
      <3> HIDE DEF s, e
      <3>3. /\ Append(s, e) \in Seq(BarRow) /\ Len(Append(s, e)) = Len(s) + 1
            /\ DOMAIN Append(s, e) = 1 .. Len(s) + 1
            /\ \A k \in 1 .. Len(s) : Append(s, e)[k] = s[k]
            /\ Append(s, e)[Len(s) + 1] = e
        BY <2>1, <3>2
      <3> DEFINE new == panel'[c]
                 last == Len(s) + 1
      <3>4. /\ new \in Seq(BarRow) /\ Len(new) = last /\ DOMAIN new = 1 .. last /\ last \in Nat
            /\ \A k \in 1 .. Len(s) : new[k] = s[k]
            /\ new[last] = e
        BY <2>1, <3>1, <3>3
      <3>5. last \in 1 .. last /\ \A k \in 1 .. last : k \in 1 .. Len(s) \/ k = last
        BY <2>1
      <3>6. \A k \in 1 .. Len(s) : k \in 1 .. last
        BY <2>1
      <3> HIDE DEF new, last
      <3>7. /\ new \in Seq(BarRow) /\ Len(new) \in Nat /\ DOMAIN new = 1 .. Len(new)
            /\ \A k \in DOMAIN s : k \in DOMAIN new /\ new[k] = s[k]
            /\ \A k \in DOMAIN new : k \in DOMAIN s \/ k = last
            /\ last \in DOMAIN new /\ new[last] = e
        BY <2>1, <3>4, <3>5, <3>6
      <3>8. /\ new \in Seq(BarRow) /\ Len(new) \in Nat /\ DOMAIN new = 1 .. Len(new)
            /\ \A k \in DOMAIN s : k \in DOMAIN new /\ new[k] = s[k]
            /\ \A k \in DOMAIN new : k \in DOMAIN s \/ (c \in DOMAIN bars /\ k = last)
            /\ c \in DOMAIN bars => last \in DOMAIN new /\ new[last] = e
        BY <2>2, <3>7
      <3>9. QED
        BY <3>8, Zenon DEF s, e, new, last
    <2>3. CASE c \notin DOMAIN bars
      <3>1. panel'[c] = s
        BY <1>1, <2>3
      <3> HIDE DEF s
      <3>2. /\ panel'[c] \in Seq(BarRow) /\ Len(panel'[c]) \in Nat
            /\ DOMAIN panel'[c] = 1 .. Len(panel'[c])
            /\ \A k \in DOMAIN s : k \in DOMAIN panel'[c] /\ panel'[c][k] = s[k]
            /\ \A k \in DOMAIN panel'[c] : k \in DOMAIN s
        BY <2>1, <3>1
      <3>3. \A k \in DOMAIN panel'[c] : k \in DOMAIN s \/ (c \in DOMAIN bars /\ k = Len(s) + 1)
        BY <3>2
      <3>4. c \in DOMAIN bars => /\ Len(s) + 1 \in DOMAIN panel'[c]
                                 /\ panel'[c][Len(s) + 1] = [ts |-> clock + 1, bar |-> bars[c]]
        BY <2>3
      <3>5. QED
        BY <3>2, <3>3, <3>4, Zenon DEF s
    <2>4. QED
      BY <2>2, <2>3
  <1>4. panel' \in [Mints -> Seq(BarRow)]
    BY <1>1, <1>3
  <1>5. QED
    BY <1>1, <1>3, <1>4

LEMMA PanelStays ==
    ASSUME PanelOK, NEW bars, DOMAIN bars \subseteq Mints, \A c \in DOMAIN bars : bars[c] \in Bars,
           PrintBars(bars)
    PROVE  PanelOK'
  <1>1. clock \in Nat /\ clock' = clock + 1 /\ clock' \in Nat /\ panel' \in [Mints -> Seq(BarRow)]
    BY PanelGrows DEF PanelOK
  <1>2. ASSUME NEW c \in Mints
        PROVE  /\ Len(panel'[c]) \in Nat /\ DOMAIN panel'[c] = 1 .. Len(panel'[c])
               /\ \A k \in DOMAIN panel'[c] : panel'[c][k] \in BarRow /\ panel'[c][k].ts \in 1 .. clock'
               /\ \A i, j \in DOMAIN panel'[c] : i < j => panel'[c][i].ts < panel'[c][j].ts
    <2> DEFINE old == panel[c]
               new == panel'[c]
               last == Len(old) + 1
    <2>1. /\ Len(old) \in Nat /\ DOMAIN old = 1 .. Len(old)
          /\ \A k \in DOMAIN old : old[k] \in BarRow /\ old[k].ts \in 1 .. clock
          /\ \A i, j \in DOMAIN old : i < j => old[i].ts < old[j].ts
      BY DEF PanelOK
    <2>2. /\ Len(new) \in Nat /\ DOMAIN new = 1 .. Len(new)
          /\ \A k \in DOMAIN old : new[k] = old[k]
          /\ \A k \in DOMAIN new : k \in DOMAIN old \/ (c \in DOMAIN bars /\ k = last)
          /\ c \in DOMAIN bars => new[last] = [ts |-> clock + 1, bar |-> bars[c]]
      BY PanelGrows
    <2> HIDE DEF old, new, last
    <2>3. c \in DOMAIN bars => new[last] \in BarRow /\ new[last].ts = clock'
      BY <1>1, <2>2 DEF BarRow
    <2>4. \A k \in DOMAIN new : new[k] \in BarRow /\ new[k].ts \in 1 .. clock'
      <3>1. ASSUME NEW k \in DOMAIN new
            PROVE  new[k] \in BarRow /\ new[k].ts \in 1 .. clock'
        <4>1. CASE k \in DOMAIN old
          BY <1>1, <2>1, <2>2, <4>1
        <4>2. CASE c \in DOMAIN bars /\ k = last
          BY <1>1, <2>3, <4>2
        <4>3. QED
          BY <2>2, <3>1, <4>1, <4>2
      <3>2. QED
        BY <3>1
    <2>5. \A i, j \in DOMAIN new : i < j => new[i].ts < new[j].ts
      <3>1. ASSUME NEW i \in DOMAIN new, NEW j \in DOMAIN new, i < j
            PROVE  new[i].ts < new[j].ts
        <4>1. last = Len(old) + 1
          BY DEF last
        <4>2. i \in DOMAIN old
          BY <2>1, <2>2, <3>1, <4>1
        <4>3. CASE j \in DOMAIN old
          BY <2>1, <2>2, <3>1, <4>2, <4>3
        <4>4. CASE c \in DOMAIN bars /\ j = last
          <5>1. new[i].ts \in 1 .. clock /\ new[j].ts = clock + 1
            BY <1>1, <2>1, <2>2, <2>3, <4>2, <4>4
          <5>2. QED
            BY <1>1, <5>1
        <4>5. QED
          BY <2>2, <3>1, <4>3, <4>4
      <3>2. QED
        BY <3>1
    <2>6. QED
      BY <2>2, <2>4, <2>5 DEF new
  <1>3. QED
    BY <1>1, <1>2 DEF PanelOK

\* The rows a print is made of are the bars of its time, and those of an earlier
\* time are what they were.
LEMMA RowsStay ==
    ASSUME PanelOK, NEW bars, DOMAIN bars \subseteq Mints, \A c \in DOMAIN bars : bars[c] \in Bars,
           PrintBars(bars), NEW now, now = clock + 1,
           NEW rows, rows = [c \in DOMAIN bars |->
                               [idx |-> Len(panel[c]) + 1, ts |-> clock + 1, bar |-> bars[c]]]
    PROVE  /\ RowsAt(rows, now)'
           /\ \A ts \in 1 .. clock : \A x : RowsAt(x, ts) => RowsAt(x, ts)'
  <1>1. clock \in Nat /\ \A c \in Mints : \A k \in DOMAIN panel[c] : panel[c][k].ts \in 1 .. clock
    BY DEF PanelOK
  <1>2. \A c \in Mints : Len(panel[c]) \in Nat
    BY DEF PanelOK
  <1>3. \A c \in Mints :
           /\ \A k \in DOMAIN panel[c] : k \in DOMAIN panel'[c] /\ panel'[c][k] = panel[c][k]
           /\ \A k \in DOMAIN panel'[c] :
                 k \in DOMAIN panel[c] \/ (c \in DOMAIN bars /\ k = Len(panel[c]) + 1)
           /\ c \in DOMAIN bars =>
                 /\ Len(panel[c]) + 1 \in DOMAIN panel'[c]
                 /\ panel'[c][Len(panel[c]) + 1] = [ts |-> clock + 1, bar |-> bars[c]]
    BY PanelGrows
  <1>4. DOMAIN rows = DOMAIN bars
        /\ \A c \in DOMAIN bars : /\ rows[c].idx = Len(panel[c]) + 1 /\ rows[c].ts = now
                                  /\ rows[c].bar = bars[c]
                                  /\ rows[c] = [idx |-> Len(panel[c]) + 1, ts |-> now,
                                                bar |-> bars[c]]
    OBVIOUS
  <1>5. RowsTyped(rows)
    <2>1. \A c \in DOMAIN bars : Len(panel[c]) + 1 \in Nat \ {0} /\ now \in Nat
      BY <1>1, <1>2
    <2>2. \A c \in DOMAIN bars : rows[c] \in Events
      BY <1>4, <2>1 DEF Events
    <2>3. QED
      BY <1>4, <2>2 DEF RowsTyped
  <1>6. RowsAt(rows, now)'
    <2>1. ASSUME NEW c \in Mints, NEW k \in DOMAIN panel'[c], panel'[c][k].ts = now
          PROVE  c \in DOMAIN rows
      <3>1. CASE k \in DOMAIN panel[c]
        <4>1. panel[c][k].ts \in 1 .. clock /\ panel[c][k].ts = now
          BY <1>1, <1>3, <2>1, <3>1
        <4>2. QED
          BY <1>1, <4>1
      <3>2. CASE c \in DOMAIN bars
        BY <1>4, <3>2
      <3>3. QED
        BY <1>3, <2>1, <3>1, <3>2
    <2>2. ASSUME NEW c \in DOMAIN rows
          PROVE  /\ rows[c].idx \in DOMAIN panel'[c] /\ rows[c].ts = now
                 /\ panel'[c][rows[c].idx].ts = now /\ panel'[c][rows[c].idx].bar = rows[c].bar
      <3>1. c \in Mints /\ c \in DOMAIN bars
        BY <1>4, <2>2
      <3>2. panel'[c][rows[c].idx] = [ts |-> now, bar |-> bars[c]]
            /\ rows[c].idx \in DOMAIN panel'[c]
        BY <1>3, <1>4, <3>1
      <3>3. QED
        BY <1>4, <3>1, <3>2
    <2>3. RowsTyped(rows)'
      BY <1>5 DEF RowsTyped
    <2>4. QED
      BY <2>1, <2>2, <2>3 DEF RowsAt
  <1>7. ASSUME NEW ts \in 1 .. clock, NEW x, RowsAt(x, ts)
        PROVE  RowsAt(x, ts)'
    <2>1. /\ RowsTyped(x) /\ DOMAIN x \subseteq Mints
          /\ \A c \in Mints : (\E k \in DOMAIN panel[c] : panel[c][k].ts = ts) => c \in DOMAIN x
          /\ \A c \in DOMAIN x :
                /\ x[c].idx \in DOMAIN panel[c] /\ x[c].ts = ts
                /\ panel[c][x[c].idx].ts = ts /\ panel[c][x[c].idx].bar = x[c].bar
      BY <1>7 DEF RowsAt, RowsTyped
    <2>2. ASSUME NEW c \in Mints, NEW k \in DOMAIN panel'[c], panel'[c][k].ts = ts
          PROVE  c \in DOMAIN x
      <3>1. CASE k \in DOMAIN panel[c]
        BY <1>3, <2>1, <2>2, <3>1
      <3>2. CASE c \in DOMAIN bars /\ k = Len(panel[c]) + 1
        <4>a. panel'[c][Len(panel[c]) + 1] = [ts |-> clock + 1, bar |-> bars[c]]
          BY <1>3, <3>2
        <4>1. panel'[c][k].ts = clock + 1
          BY <3>2, <4>a
        <4>2. QED
          BY <1>1, <2>2, <4>1
      <3>3. QED
        BY <1>3, <2>2, <3>1, <3>2
    <2>3. ASSUME NEW c \in DOMAIN x
          PROVE  /\ x[c].idx \in DOMAIN panel'[c] /\ x[c].ts = ts
                 /\ panel'[c][x[c].idx].ts = ts /\ panel'[c][x[c].idx].bar = x[c].bar
      BY <1>3, <2>1, <2>3
    <2>4. RowsTyped(x)'
      BY <2>1 DEF RowsTyped
    <2>5. QED
      BY <2>2, <2>3, <2>4 DEF RowsAt
  <1>8. QED
    BY <1>6, <1>7

LEMMA InitPast == SimulationInit => SimulationIInv
  <1> SUFFICES ASSUME SimulationInit PROVE SimulationIInv
    OBVIOUS
  <1>1. /\ clock = 0 /\ cash = StartBalance /\ trades = {}
        /\ panel = [c \in Mints |-> <<>>]
        /\ positions = [c \in Mints |-> NoPosition]
    BY DEF SimulationInit
  <1>2. PanelOK
    <2>1. \A c \in Mints : panel[c] = <<>>
      BY <1>1
    <2>a. Len(<<>>) = 0 /\ DOMAIN <<>> = {} /\ <<>> \in Seq(BarRow)
      OBVIOUS
    <2>2. \A c \in Mints : Len(panel[c]) = 0 /\ DOMAIN panel[c] = {} /\ panel[c] \in Seq(BarRow)
      BY <2>1, <2>a
    <2>3. panel \in [Mints -> Seq(BarRow)]
      BY <1>1, <2>2
    <2>4. 1 .. 0 = {}
      OBVIOUS
    <2>5. QED
      BY <1>1, <2>2, <2>3, <2>4 DEF PanelOK
  <1> DEFINE book == [cash |-> StartBalance, held |-> [c \in Mints |-> NoPosition], out |-> {}]
             h == [ts \in 0 .. 0 |-> book]
  <1>3. book \in EngineBooks
    <2>1. StartBalance \in Int /\ [c \in Mints |-> NoPosition] \in [Mints -> KeptBy]
      BY ConstantsTyped DEF KeptBy
    <2>2. QED
      BY <2>1 DEF EngineBooks
  <1>4. Past(h, h)
    <2>1. h[0] = book /\ h \in [0 .. 0 -> EngineBooks]
      BY <1>3
    <2>2. book.cash = cash /\ book.held = positions /\ book.out = trades
      BY <1>1
    <2>3. 1 .. clock = {} /\ clock = 0
      BY <1>1
    <2> HIDE DEF h
    <2>4. QED
      BY <2>1, <2>2, <2>3 DEF Past
  <1>5. QED
    BY <1>2, <1>4 DEF SimulationIInv

LEMMA NextPast ==
    ASSUME SimulationIInv, [SimulationNext]_simulationVars
    PROVE  SimulationIInv'
  <1>1. PanelOK /\ \E h, r : Past(h, r)
    BY DEF SimulationIInv
  <1>2. PICK h, r : Past(h, r)
    BY <1>1
  <1>3. CASE UNCHANGED simulationVars
    <2>1. clock' = clock /\ panel' = panel /\ cash' = cash /\ positions' = positions
          /\ trades' = trades
      BY <1>3 DEF simulationVars
    <2>2. PanelOK'
      BY <1>1, <2>1 DEF PanelOK
    <2>3. \A ts, x : RowsAt(x, ts) => RowsAt(x, ts)'
      BY <2>1 DEF RowsAt, RowsTyped
    <2>4. Past(h, r)'
      BY <1>2, <2>1, <2>3 DEF Past
    <2>5. QED
      BY <2>2, <2>4 DEF SimulationIInv
  <1>4. CASE SimulationNext
    <2>1. PICK printing \in SUBSET Mints :
             \E bars \in {f \in [printing -> UNION {BarsOf[c] : c \in Mints}] :
                             \A c \in printing : f[c] \in BarsOf[c]} : PrintBars(bars)
      BY <1>4 DEF SimulationNext
    <2>2. PICK bars \in {f \in [printing -> UNION {BarsOf[c] : c \in Mints}] :
                            \A c \in printing : f[c] \in BarsOf[c]} : PrintBars(bars)
      BY <2>1
    <2>3. DOMAIN bars \subseteq Mints /\ \A c \in DOMAIN bars : bars[c] \in BarsOf[c]
      BY <2>1, <2>2
    <2>4. \A c \in DOMAIN bars : bars[c] \in Bars
      BY <2>3, SimulationAssumption DEF Bars
    <2>5. PanelOK' /\ clock \in Nat /\ clock' = clock + 1
      BY <1>1, <2>2, <2>3, <2>4, PanelStays, PanelGrows DEF PanelOK
    <2>6. PICK now : now = clock + 1
      OBVIOUS
    <2>7. PICK rows : rows = [c \in DOMAIN bars |->
                                [idx |-> Len(panel[c]) + 1, ts |-> clock + 1, bar |-> bars[c]]]
      OBVIOUS
    <2>8. /\ RowsAt(rows, now)'
          /\ \A ts \in 1 .. clock : \A x : RowsAt(x, ts) => RowsAt(x, ts)'
      BY <1>1, <2>2, <2>3, <2>4, <2>6, <2>7, RowsStay
    <2>9. PICK book : book = EnterAll(ManageAll(h[clock], rows), rows)
      OBVIOUS
    <2>10. PICK past : past = [ts \in 0 .. now |-> IF ts = now THEN book ELSE h[ts]]
      OBVIOUS
    <2>11. PICK given : given = [ts \in 1 .. now |-> IF ts = now THEN rows ELSE r[ts]]
      OBVIOUS
    <2>12. /\ h \in [0 .. clock -> EngineBooks]
           /\ h[0] = [cash |-> StartBalance, held |-> [c \in Mints |-> NoPosition], out |-> {}]
           /\ h[clock].cash = cash /\ h[clock].held = positions /\ h[clock].out = trades
           /\ \A ts \in 1 .. clock :
                 RowsAt(r[ts], ts) /\ h[ts] = EnterAll(ManageAll(h[ts - 1], r[ts]), r[ts])
      BY <1>2 DEF Past
    <2>13. now \in Nat \ {0} /\ clock' = now /\ now - 1 = clock /\ clock \in 0 .. clock
      BY <2>5, <2>6
    <2>14. h[clock] \in EngineBooks /\ RowsTyped(rows)
      <3>1. RowsTyped(rows)'
        BY <2>8 DEF RowsAt
      <3>2. QED
        BY <2>12, <2>13, <3>1 DEF RowsTyped
    <2>15. h[clock] = [cash |-> cash, held |-> positions, out |-> trades]
      BY <2>12, <2>14 DEF EngineBooks
    <2>16. book \in EngineBooks
      BY <2>9, <2>14, ManageAllTyped, EnterAllTyped
    <2>17. cash' = book.cash /\ positions' = book.held /\ trades' = book.out
      <3>1. LET new == EnterAll(ManageAll([cash |-> cash, held |-> positions, out |-> trades],
                                          rows), rows)
            IN  cash' = new.cash /\ positions' = new.held /\ trades' = new.out
        BY <2>2, <2>7 DEF PrintBars
      <3>2. QED
        BY <2>9, <2>15, <3>1
    <2>18. \A ts \in 0 .. clock : ts \in 0 .. now /\ ts # now /\ past[ts] = h[ts]
      BY <2>10, <2>13
    <2>19. \A ts \in 1 .. clock : given[ts] = r[ts] /\ ts - 1 \in 0 .. clock /\ ts \in 0 .. clock
      BY <2>11, <2>13
    <2>20. past[now] = book /\ given[now] = rows /\ now \in 0 .. now
      BY <2>10, <2>11, <2>13
    <2>21. past \in [0 .. now -> EngineBooks]
      <3>1. \A ts \in 0 .. now : ts = now \/ ts \in 0 .. clock
        BY <2>13
      <3>2. \A ts \in 0 .. now : past[ts] \in EngineBooks
        BY <2>12, <2>16, <2>18, <2>20, <3>1
      <3>3. QED
        BY <2>10, <3>2
    <2>22. past[0] = [cash |-> StartBalance, held |-> [c \in Mints |-> NoPosition], out |-> {}]
      <3>1. 0 \in 0 .. clock
        BY <2>13
      <3>2. QED
        BY <2>12, <2>18, <3>1
    <2>23. \A ts \in 1 .. now :
              /\ RowsAt(given[ts], ts)'
              /\ past[ts] = EnterAll(ManageAll(past[ts - 1], given[ts]), given[ts])
      <3>1. ASSUME NEW ts \in 1 .. now
            PROVE  /\ RowsAt(given[ts], ts)'
                   /\ past[ts] = EnterAll(ManageAll(past[ts - 1], given[ts]), given[ts])
        <4>1. CASE ts = now
          <5>1. given[ts] = rows /\ past[ts] = book
            BY <2>20, <4>1
          <5>2. past[ts - 1] = h[clock]
            BY <2>13, <2>18, <4>1
          <5>3. QED
            BY <2>8, <2>9, <4>1, <5>1, <5>2
        <4>2. CASE ts # now
          <5>1. ts \in 1 .. clock
            BY <2>13, <3>1, <4>2
          <5>2. given[ts] = r[ts] /\ past[ts] = h[ts] /\ past[ts - 1] = h[ts - 1]
            BY <2>18, <2>19, <5>1
          <5>3. RowsAt(r[ts], ts)'
            BY <2>8, <2>12, <5>1
          <5>4. QED
            BY <2>12, <5>1, <5>2, <5>3
        <4>3. QED
          BY <4>1, <4>2
      <3>2. QED
        BY <3>1
    <2>24. Past(past, given)'
      BY <2>13, <2>17, <2>20, <2>21, <2>22, <2>23 DEF Past
    <2>25. QED
      BY <2>5, <2>24 DEF SimulationIInv
  <1>5. QED
    BY <1>3, <1>4

\* At every length of the data the vectorised engine (solopt VectorEngine) has made
\* the backtest's trades and its balance, unless the sweep refused a candidate for
\* its correlation or used capital of a position whose data had ended.
THEOREM EnginesTradeAlike == SimulationSpec => []EnginesAgree
  <1>1. SimulationInit => SimulationIInv
    BY InitPast
  <1>2. SimulationIInv /\ [SimulationNext]_simulationVars => SimulationIInv'
    BY NextPast
  <1>3. SimulationIInv => EnginesAgree
    BY PastAgrees DEF SimulationIInv
  <1>4. QED
    BY <1>1, <1>2, <1>3, PTL DEF SimulationSpec

----------------------------------------------------------------------------
(* Types of the state *)

\* Nothing in a book is of later than ts, and no trade ends before it began.
Timely(book, ts) ==
    /\ \A c \in Mints : book.held[c].open => book.held[c].entry <= ts
    /\ \A t \in book.out : t.entry <= t.exit /\ t.exit <= ts

RowsOf(rows, ts) == RowsTyped(rows) /\ \A c \in DOMAIN rows : rows[c].ts = ts

LEMMA ManageTimely ==
    ASSUME NEW b \in EngineBooks, NEW then \in Nat, Timely(b, then), NEW rows,
           RowsOf(rows, then + 1)
    PROVE  Timely(ManageAll(b, rows), then + 1)
  <1> DEFINE Price(c) == ExitPrice(b.held[c], rows[c].ts, rows[c].bar)
             Brings(c) == Proceeds(b.held[c].size, b.held[c].price, Price(c))
             managed == {c \in DOMAIN rows : b.held[c].open}
             left == {c \in managed : Price(c) # 0}
             gains == [c \in left |-> Brings(c)]
             held == [c \in Mints |-> IF c \in left THEN NoPosition
                                      ELSE IF c \in managed THEN UpdateTrail(b.held[c], rows[c].bar)
                                      ELSE b.held[c]]
             T(c) == Trade(c, b.held[c].entry, rows[c].ts, b.held[c].size, Brings(c))
             out == {T(c) : c \in left}
  <1>1. b.held \in [Mints -> KeptBy] /\ b.out \in SUBSET Closed
    BY DEF EngineBooks
  <1>2. ManageAll(b, rows).held = held /\ ManageAll(b, rows).out = b.out \union out
    BY DEF ManageAll
  <1>3. ASSUME NEW c \in managed
        PROVE  /\ c \in Mints /\ b.held[c] \in HeldBy /\ rows[c] \in Events
               /\ rows[c].ts = then + 1 /\ b.held[c].entry \in Nat /\ b.held[c].entry <= then
    <2>1. c \in Mints /\ b.held[c] \in HeldBy /\ rows[c] \in Events /\ rows[c].ts = then + 1
      BY <1>1, <1>3, KeptIs DEF RowsOf, RowsTyped
    <2>2. b.held[c].open
      BY <1>3
    <2>3. QED
      BY <2>1, <2>2 DEF HeldBy, Timely
  <1>4. ASSUME NEW c \in Mints, held[c].open
        PROVE  held[c].entry <= then + 1
    <2>1. CASE c \in left
      <3>1. held[c] = NoPosition
        BY <2>1
      <3>2. QED
        BY <1>4, <3>1 DEF NoPosition
    <2>2. CASE c \notin left /\ c \in managed
      <3>1. held[c] = UpdateTrail(b.held[c], rows[c].bar)
        BY <2>2
      <3>2. rows[c].bar \in Bars
        BY <1>3, <2>2 DEF Events
      <3>3. UpdateTrail(b.held[c], rows[c].bar).entry = b.held[c].entry
        BY <1>3, <2>2, <3>2, UpdateTrailHeld
      <3> HIDE DEF held, left, managed
      <3>4. held[c].entry \in Nat /\ held[c].entry <= then
        BY <1>3, <2>2, <3>1, <3>3
      <3>5. QED
        BY <3>4
    <2>3. CASE c \notin left /\ c \notin managed
      <3>1. held[c] = b.held[c]
        BY <2>3
      <3> HIDE DEF held, left, managed
      <3>2. b.held[c].open /\ b.held[c] \in HeldBy /\ b.held[c].entry <= then
        BY <1>1, <1>4, <3>1, KeptIs DEF Timely
      <3>3. b.held[c].entry \in Nat
        BY <3>2 DEF HeldBy
      <3>4. QED
        BY <3>1, <3>2, <3>3
    <2>4. QED
      BY <2>1, <2>2, <2>3
  <1>5. ASSUME NEW t \in b.out \union out
        PROVE  t.entry <= t.exit /\ t.exit <= then + 1
    <2>1. CASE t \in b.out
      <3>1. t.entry <= t.exit /\ t.exit <= then /\ t.exit \in Nat
        BY <1>1, <2>1 DEF Timely, Closed
      <3>2. QED
        BY <3>1
    <2>2. CASE t \in out
      <3>1. PICK c \in left : t = T(c)
        BY <2>2
      <3>2. t.entry = b.held[c].entry /\ t.exit = rows[c].ts
        BY <3>1 DEF Trade
      <3>3. c \in managed
        BY <3>1
      <3> HIDE DEF T, left, managed
      <3>4. QED
        BY <1>3, <3>2, <3>3
    <2>3. QED
      BY <1>5, <2>1, <2>2
  <1> HIDE DEF held, out
  <1>6. QED
    BY <1>2, <1>4, <1>5 DEF Timely

LEMMA EnterTimely ==
    ASSUME NEW b \in EngineBooks, NEW now \in Nat, Timely(b, now), NEW rows, RowsOf(rows, now),
           NEW c \in Mints
    PROVE  Timely(Enter(b, c, rows), now)
  <1> DEFINE deployed == Deployed(b.held)
             size == SizePosition(b.cash + deployed, deployed, Liquidity[c])
             pos == OpenAt(c, rows[c].ts, rows[c].bar.close, size)
  <1>1. b.held \in [Mints -> KeptBy]
    BY DEF EngineBooks
  <1>2. \/ Enter(b, c, rows) = b
        \/ /\ c \in DOMAIN rows
           /\ Enter(b, c, rows) = [b EXCEPT !.cash = b.cash - size, !.held[c] = pos]
    BY DEF Enter
  <1>3. c \in DOMAIN rows => pos.entry = now
    BY DEF OpenAt, RowsOf
  <1> HIDE DEF deployed, size, pos
  <1>4. ASSUME c \in DOMAIN rows
        PROVE  Timely([b EXCEPT !.cash = b.cash - size, !.held[c] = pos], now)
    <2> DEFINE e == [b EXCEPT !.cash = b.cash - size, !.held[c] = pos]
    <2>1. e.out = b.out /\ e.held = [b.held EXCEPT ![c] = pos]
      BY DEF EngineBooks
    <2> HIDE DEF e
    <2>2. \A d \in Mints : e.held[d] = IF d = c THEN pos ELSE b.held[d]
      BY <1>1, <2>1
    <2>3. QED
      BY <1>3, <1>4, <2>1, <2>2 DEF Timely, e
  <1>5. QED
    BY <1>2, <1>4

LEMMA EnterAllTimely ==
    ASSUME NEW b \in EngineBooks, NEW now \in Nat, Timely(b, now), NEW rows, RowsOf(rows, now)
    PROVE  Timely(EnterAll(b, rows), now)
  <1>1. RowsTyped(rows) /\ Len(Tokens) \in Nat
    BY ConstantsTyped DEF RowsOf
  <1>2. PICK g \in [0 .. Len(Tokens) -> EngineBooks] :
           /\ g[0] = b
           /\ \A i \in 1 .. Len(Tokens) : g[i] = Enter(g[i - 1], Tokens[i], rows)
           /\ EnterAll(b, rows) = g[Len(Tokens)]
    BY <1>1, EnterAllIs
  <1> DEFINE N == Len(Tokens)
             S == {i \in 0 .. N : Timely(g[i], now)}
  <1>3. 0 \in S
    BY <1>1, <1>2
  <1>4. ASSUME NEW i \in 0 .. N, i \in S, i < N
        PROVE  i + 1 \in S
    <2>1. i + 1 \in 0 .. N /\ i + 1 \in 1 .. N /\ (i + 1) - 1 = i
      BY <1>1, <1>4
    <2>2. g[i + 1] = Enter(g[i], Tokens[i + 1], rows) /\ g[i] \in EngineBooks
      BY <1>2, <2>1
    <2>3. Tokens[i + 1] \in Mints /\ Timely(g[i], now)
      BY <1>4, <2>1, ConstantsTyped DEF Mints
    <2>4. Timely(g[i + 1], now)
      BY <2>2, <2>3, EnterTimely
    <2>5. QED
      BY <2>1, <2>4
  <1>5. N \in Nat
    BY <1>1
  <1> HIDE DEF N, S
  <1>6. 0 .. N \subseteq S
    BY <1>3, <1>4, <1>5, RangeInduction
  <1>7. N \in S
    BY <1>5, <1>6
  <1>8. QED
    BY <1>2, <1>7 DEF N, S

TheBook == [cash |-> cash, held |-> positions, out |-> trades]

\* A token's bars as the state keeps them.
Printed(c, now) == [ts : 1 .. now, bar : BarsOf[c]]

SimulationTInv ==
    /\ clock \in 0 .. MaxClock
    /\ \A c \in Mints : panel[c] \in Seq(Printed(c, clock))
    /\ TheBook \in EngineBooks /\ Timely(TheBook, clock)

LEMMA TimelyTypes == SimulationTInv => SimulationTypeOK
  <1> SUFFICES ASSUME SimulationTInv PROVE SimulationTypeOK
    OBVIOUS
  <1>1. cash \in Int /\ positions \in [Mints -> KeptBy] /\ trades \in SUBSET Closed
    BY DEF SimulationTInv, EngineBooks, TheBook
  <1>2. \A t \in trades : t.entry <= t.exit /\ t.exit <= clock
    BY DEF SimulationTInv, Timely, TheBook
  <1>3. clock \in 0 .. MaxClock /\ \A c \in Mints : panel[c] \in Seq([ts : 1 .. clock, bar : BarsOf[c]])
    BY DEF SimulationTInv, Printed
  <1>4. \A t \in trades : t.mint \in Mints
    BY <1>1 DEF Closed
  <1>5. QED
    BY <1>1, <1>2, <1>3, <1>4 DEF SimulationTypeOK

LEMMA InitTimely == SimulationInit => SimulationTInv
  <1> SUFFICES ASSUME SimulationInit PROVE SimulationTInv
    OBVIOUS
  <1>1. /\ clock = 0 /\ cash = StartBalance /\ trades = {}
        /\ panel = [c \in Mints |-> <<>>]
        /\ positions = [c \in Mints |-> NoPosition]
    BY DEF SimulationInit
  <1>2. TheBook \in EngineBooks
    <2>1. cash \in Int /\ positions \in [Mints -> KeptBy]
      BY <1>1, ConstantsTyped DEF KeptBy
    <2>2. QED
      BY <1>1, <2>1 DEF EngineBooks, TheBook
  <1>3. Timely(TheBook, clock)
    BY <1>1 DEF Timely, TheBook, NoPosition
  <1>4. clock \in 0 .. MaxClock
    BY <1>1, SimulationAssumption
  <1>5. \A c \in Mints : panel[c] \in Seq(Printed(c, clock))
    <2>1. \A c \in Mints : panel[c] = <<>>
      BY <1>1
    <2>2. \A S : <<>> \in Seq(S)
      OBVIOUS
    <2>3. QED
      BY <2>1, <2>2
  <1>6. QED
    BY <1>2, <1>3, <1>4, <1>5 DEF SimulationTInv

LEMMA PrintTimely ==
    ASSUME SimulationTInv, NEW bars, DOMAIN bars \subseteq Mints,
           \A c \in DOMAIN bars : bars[c] \in BarsOf[c], PrintBars(bars)
    PROVE  SimulationTInv'
  <1>1. /\ clock \in Nat /\ clock < MaxClock /\ clock' = clock + 1
        /\ panel' = [c \in Mints |->
                       IF c \in DOMAIN bars
                       THEN Append(panel[c], [ts |-> clock + 1, bar |-> bars[c]]) ELSE panel[c]]
    BY SimulationAssumption DEF SimulationTInv, PrintBars
  <1>0. MaxClock \in Nat
    BY SimulationAssumption
  <1>2. clock' \in 0 .. MaxClock
    <2>1. clock' = clock + 1 /\ clock \in Nat /\ clock < MaxClock
      BY <1>1
    <2>2. QED
      BY <1>0, <2>1
  <1>3. ASSUME NEW c \in Mints
        PROVE  panel'[c] \in Seq(Printed(c, clock'))
    <2> DEFINE s == panel[c]
               e == [ts |-> clock + 1, bar |-> bars[c]]
               S == Printed(c, clock')
    <2>1. Printed(c, clock) \subseteq S
      <3>1. \A i \in 1 .. clock : i \in 1 .. clock'
        BY <1>1
      <3>2. QED
        BY <3>1 DEF Printed
    <2>2. s \in Seq(Printed(c, clock))
      BY <1>3 DEF SimulationTInv
    <2> HIDE DEF s
    <2>3. s \in Seq(S)
      <3> HIDE DEF S
      <3>1. QED
        BY <2>1, <2>2
    <2>4. CASE c \in DOMAIN bars
      <3>1. clock + 1 \in 1 .. clock' /\ bars[c] \in BarsOf[c]
        BY <1>1, <2>4
      <3>2. e \in S
        BY <3>1 DEF Printed
      <3> HIDE DEF e, S
      <3>3. Append(s, e) \in Seq(S)
        BY <2>3, <3>2
      <3>4. QED
        BY <1>1, <2>4, <3>3 DEF s, e, S
    <2>5. CASE c \notin DOMAIN bars
      BY <1>1, <2>3, <2>5 DEF s
    <2>6. QED
      BY <2>4, <2>5
  <1> DEFINE rows == [c \in DOMAIN bars |->
                        [idx |-> Len(panel[c]) + 1, ts |-> clock + 1, bar |-> bars[c]]]
             managed == ManageAll(TheBook, rows)
             book == EnterAll(managed, rows)
  <1>4. RowsOf(rows, clock + 1)
    <2>1. ASSUME NEW c \in DOMAIN bars
          PROVE  Len(panel[c]) + 1 \in Nat \ {0} /\ bars[c] \in Bars
      <3>1. c \in Mints /\ panel[c] \in Seq(Printed(c, clock))
        BY <2>1 DEF SimulationTInv
      <3>2. Len(panel[c]) \in Nat
        BY <3>1
      <3>3. bars[c] \in Bars
        BY <2>1, <3>1, SimulationAssumption DEF Bars
      <3>4. QED
        BY <3>2, <3>3
    <2>2. clock + 1 \in Nat
      BY <1>1
    <2>3. QED
      BY <2>1, <2>2 DEF RowsOf, RowsTyped, Events
  <1>5. RowsTyped(rows)
    BY <1>4 DEF RowsOf
  <1>6. cash' = book.cash /\ positions' = book.held /\ trades' = book.out
    BY DEF PrintBars, TheBook
  <1> HIDE DEF rows
  <1>7. managed \in EngineBooks /\ Timely(managed, clock + 1)
    BY <1>1, <1>4, <1>5, ManageAllTyped, ManageTimely DEF SimulationTInv
  <1>8. book \in EngineBooks /\ Timely(book, clock + 1)
    <2>1. clock + 1 \in Nat
      BY <1>1
    <2> HIDE DEF managed
    <2>2. QED
      BY <1>4, <1>5, <1>7, <2>1, EnterAllTyped, EnterAllTimely
  <1> HIDE DEF book
  <1>9. TheBook' = book
    <2>1. book = [cash |-> book.cash, held |-> book.held, out |-> book.out]
      BY <1>8 DEF EngineBooks
    <2>2. TheBook' = [cash |-> cash', held |-> positions', out |-> trades']
      BY DEF TheBook
    <2>3. QED
      BY <1>6, <2>1, <2>2
  <1>10. TheBook' \in EngineBooks /\ Timely(TheBook', clock')
    BY <1>1, <1>8, <1>9
  <1>11. QED
    BY <1>2, <1>3, <1>10 DEF SimulationTInv, Timely

\* Money stays an amount, no bar is of later than now, and no trade of the backtest
\* (backtest.Backtester) leaves before it entered or after the last bar.
THEOREM SimulationTypeCorrect == SimulationSpec => []SimulationTypeOK
  <1>1. SimulationInit => SimulationTInv
    BY InitTimely
  <1>2. SimulationTInv /\ [SimulationNext]_simulationVars => SimulationTInv'
    <2> SUFFICES ASSUME SimulationTInv, [SimulationNext]_simulationVars
                 PROVE  SimulationTInv'
      OBVIOUS
    <2>1. CASE UNCHANGED simulationVars
      <3>1. clock' = clock /\ panel' = panel /\ TheBook' = TheBook
        BY <2>1 DEF simulationVars, TheBook
      <3>2. QED
        BY <3>1 DEF SimulationTInv, Timely
    <2>2. CASE SimulationNext
      <3>1. PICK printing \in SUBSET Mints :
               \E bars \in {f \in [printing -> UNION {BarsOf[c] : c \in Mints}] :
                               \A c \in printing : f[c] \in BarsOf[c]} : PrintBars(bars)
        BY <2>2 DEF SimulationNext
      <3>2. PICK bars \in {f \in [printing -> UNION {BarsOf[c] : c \in Mints}] :
                              \A c \in printing : f[c] \in BarsOf[c]} : PrintBars(bars)
        BY <3>1
      <3>3. DOMAIN bars \subseteq Mints /\ \A c \in DOMAIN bars : bars[c] \in BarsOf[c]
        BY <3>1, <3>2
      <3>4. QED
        BY <3>2, <3>3, PrintTimely
    <2>3. QED
      BY <2>1, <2>2
  <1>3. QED
    BY <1>1, <1>2, TimelyTypes, PTL DEF SimulationSpec
=============================================================================
