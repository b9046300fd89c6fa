----------------------------- MODULE WorkerProofs -----------------------------
(***************************************************************************)
(* What TLAPS checks about Worker, for every value of its constants: first *)
(* types, turns, snapshots, the queue and crashes, then the book from its  *)
(* sums and cardinalities up, and that the worker implements Account.      *)
(***************************************************************************)
EXTENDS Worker, FoldProofs

----------------------------------------------------------------------------
(* The command queue *)

LEMMA FinishCommandLemma ==
    ASSUME QueueTypeOK, NEW c \in DOMAIN commands, NEW answer \in {"done", "failed"},
           FinishCommand(c, answer)
    PROVE  /\ QueueTypeOK'
           /\ DOMAIN commands' = DOMAIN commands
           /\ \A d \in DOMAIN commands : d # c => commands'[d] = commands[d]
           /\ commands'[c].status = answer
           /\ commands'[c].arg = commands[c].arg
  <1> DEFINE row == [commands[c] EXCEPT !.status = answer]
  <1>1. commands \in Seq(CommandRow)
    BY DEF QueueTypeOK
  <1>2. commands[c] \in CommandRow
    BY <1>1, LenProperties, ElementOfSeq
  <1>3. row \in CommandRow /\ row.status = answer /\ row.arg = commands[c].arg
    BY <1>2 DEF CommandRow
  <1>4. commands' = [commands EXCEPT ![c] = row]
    BY DEF FinishCommand
  <1> HIDE DEF row
  <1>5. QED
    BY <1>1, <1>3, <1>4, UpdateLemma DEF QueueTypeOK

LEMMA EnqueueLemma ==
    ASSUME QueueTypeOK, NEW op \in Ops, NEW arg \in Nat, Enqueue(op, arg)
    PROVE  /\ QueueTypeOK'
           /\ DOMAIN commands' = DOMAIN commands \cup {Len(commands) + 1}
           /\ Len(commands) + 1 \notin DOMAIN commands
           /\ \A d \in DOMAIN commands :
                 commands'[d] = commands[d] /\ d < Len(commands) + 1
           /\ commands'[Len(commands) + 1].status = "pending"
           /\ commands'[Len(commands) + 1].arg = arg
  <1> DEFINE row == [op |-> op, arg |-> arg, status |-> "pending"]
  <1>1. commands \in Seq(CommandRow) /\ row \in CommandRow
    BY DEF QueueTypeOK, CommandRow
  <1>2. commands' = Append(commands, row)
    BY DEF Enqueue
  <1>3. row.status = "pending" /\ row.arg = arg
    OBVIOUS
  <1> HIDE DEF row
  <1>4. /\ Append(commands, row) \in Seq(CommandRow)
        /\ DOMAIN Append(commands, row) = DOMAIN commands \cup {Len(commands) + 1}
        /\ Len(commands) + 1 \notin DOMAIN commands
        /\ \A k \in DOMAIN commands :
              Append(commands, row)[k] = commands[k] /\ k < Len(commands) + 1
        /\ Append(commands, row)[Len(commands) + 1] = row
    BY <1>1, AppendLemma
  <1>5. QED
    BY <1>2, <1>3, <1>4 DEF QueueTypeOK

----------------------------------------------------------------------------
(* The operations of the parts *)

LEMMA OpenPositionLemma ==
    ASSUME PortfolioTypeOK, NEW i \in Instances, NEW m \in Mints,
           NEW gross \in Nat, NEW ts \in Nat, OpenPosition(i, m, gross, ts)
    PROVE  /\ PortfolioTypeOK'
           /\ DOMAIN positions' = DOMAIN positions \cup {Len(positions) + 1}
           /\ Len(positions) + 1 \notin DOMAIN positions
           /\ \A p \in DOMAIN positions :
                 positions'[p] = positions[p] /\ p < Len(positions) + 1
           /\ positions'[Len(positions) + 1]
                 = [instance |-> i, mint |-> m, status |-> "open",
                    size_usd |-> gross, entry_ts |-> ts]
  <1> DEFINE row == [instance |-> i, mint |-> m, status |-> "open",
                     size_usd |-> gross, entry_ts |-> ts]
  <1>1. row \in PositionRow
    BY DEF PositionRow
  <1>2. positions' = Append(positions, row)
    BY DEF OpenPosition
  <1>3. balance' \in [Instances -> Int] /\ trades' = trades
    BY DEF OpenPosition, PortfolioTypeOK
  <1> HIDE DEF row
  <1>4. positions \in Seq(PositionRow) /\ trades \in Seq(TradeRow)
    BY DEF PortfolioTypeOK
  <1>5. /\ Append(positions, row) \in Seq(PositionRow)
        /\ DOMAIN Append(positions, row) = DOMAIN positions \cup {Len(positions) + 1}
        /\ Len(positions) + 1 \notin DOMAIN positions
        /\ \A k \in DOMAIN positions :
              Append(positions, row)[k] = positions[k] /\ k < Len(positions) + 1
        /\ Append(positions, row)[Len(positions) + 1] = row
    BY <1>1, <1>4, AppendLemma
  <1>6. PortfolioTypeOK'
    BY <1>2, <1>3, <1>4, <1>5 DEF PortfolioTypeOK
  <1>7. QED
    BY <1>2, <1>5, <1>6 DEF row

LEMMA ClosePositionLemma ==
    ASSUME PortfolioTypeOK, NEW p \in DOMAIN positions, NEW proceeds \in Nat,
           ClosePosition(p, proceeds)
    PROVE  /\ PortfolioTypeOK'
           /\ DOMAIN positions' = DOMAIN positions
           /\ \A q \in DOMAIN positions :
                 /\ q # p => positions'[q] = positions[q]
                 /\ positions'[q].instance = positions[q].instance
                 /\ positions'[q].mint = positions[q].mint
                 /\ positions'[q].size_usd = positions[q].size_usd
                 /\ positions'[q].entry_ts = positions[q].entry_ts
           /\ positions'[p].status = "closed"
           /\ trades' # << >>
  <1> DEFINE old == positions[p]
             row == [old EXCEPT !.status = "closed"]
             pnl == proceeds - old.size_usd
             trade == [position_id |-> p, instance |-> old.instance, pnl_usd |-> pnl]
  <1>1. positions \in Seq(PositionRow) /\ trades \in Seq(TradeRow)
    BY DEF PortfolioTypeOK
  <1>2. p \in Nat /\ old \in PositionRow
    BY <1>1, LenProperties, ElementOfSeq
  <1>3. row \in PositionRow /\ row.status = "closed"
        /\ row.instance = old.instance /\ row.mint = old.mint
        /\ row.size_usd = old.size_usd /\ row.entry_ts = old.entry_ts
    BY <1>2 DEF PositionRow
  <1>4. trade \in TradeRow
    BY <1>2 DEF TradeRow, PositionRow
  <1>5. positions' = [positions EXCEPT ![p] = row] /\ trades' = Append(trades, trade)
    BY DEF ClosePosition
  <1>6. balance' \in [Instances -> Int]
    <2>1. balance' = [balance EXCEPT ![old.instance] = balance[old.instance] + proceeds]
      BY DEF ClosePosition
    <2>2. old.instance \in Instances /\ balance \in [Instances -> Int]
      BY <1>2 DEF PositionRow, PortfolioTypeOK
    <2> HIDE DEF old
    <2>3. QED
      BY <2>1, <2>2
  <1> HIDE DEF row, trade, old
  <1>7. PortfolioTypeOK' /\ trades' # << >>
    BY <1>1, <1>3, <1>4, <1>5, <1>6, UpdateLemma, AppendProperties DEF PortfolioTypeOK
  <1>8. /\ DOMAIN positions' = DOMAIN positions
        /\ \A q \in DOMAIN positions :
              positions'[q] = IF q = p THEN row ELSE positions[q]
    BY <1>1, <1>3, <1>5, UpdateLemma
  <1>9. QED
    BY <1>3, <1>7, <1>8 DEF old

LEMMA ControlsLemma ==
    ASSUME ControlsTypeOK
    PROVE  /\ \A on \in BOOLEAN : SetRun(on) \/ SetKill(on) \/ SetHalt(on)
                 => ControlsTypeOK'
           /\ ResetCircuit => ControlsTypeOK'
           /\ \A pnl \in Int : RecordTradeResult(pnl) => ControlsTypeOK'
           /\ \A breached \in BOOLEAN : CheckDailyDrawdown(breached) => ControlsTypeOK'
           /\ UNCHANGED controlVars => ControlsTypeOK'
  <1> USE DEF ControlsTypeOK
  <1>1. \A on \in BOOLEAN : SetRun(on) \/ SetKill(on) \/ SetHalt(on) => ControlsTypeOK'
    BY DEF SetRun, SetKill, SetHalt
  <1>2. ResetCircuit => ControlsTypeOK'
    BY DEF ResetCircuit
  <1>3. ASSUME NEW pnl \in Int, RecordTradeResult(pnl)
        PROVE  ControlsTypeOK'
    <2> DEFINE streak == IF pnl < 0 THEN circuit.losses + 1 ELSE 0
               tripped == circuit.tripped \/ streak >= CircuitLosses
    <2>1. circuit' = [tripped |-> tripped, losses |-> streak]
      BY <1>3 DEF RecordTradeResult, AfterTrade
    <2>2. streak \in Nat /\ tripped \in BOOLEAN
      OBVIOUS
    <2> HIDE DEF streak, tripped
    <2>3. QED
      BY <1>3, <2>1, <2>2 DEF RecordTradeResult
  <1>4. ASSUME NEW breached \in BOOLEAN, CheckDailyDrawdown(breached)
        PROVE  ControlsTypeOK'
    <2> DEFINE tripped == circuit.tripped \/ breached
    <2>1. circuit' = [circuit EXCEPT !.tripped = tripped]
      BY <1>4 DEF CheckDailyDrawdown
    <2>2. tripped \in BOOLEAN
      OBVIOUS
    <2> HIDE DEF tripped
    <2>3. QED
      BY <1>4, <2>1, <2>2 DEF CheckDailyDrawdown
  <1>5. UNCHANGED controlVars => ControlsTypeOK'
    BY DEF controlVars
  <1>6. QED
    BY <1>1, <1>2, <1>3, <1>4, <1>5

LEMMA UnchangedLemma ==
    /\ PortfolioTypeOK /\ UNCHANGED portfolioVars => PortfolioTypeOK'
    /\ QueueTypeOK /\ UNCHANGED commands => QueueTypeOK'
  BY DEF PortfolioTypeOK, portfolioVars, QueueTypeOK

\* The instance list is never empty.
LEMMA BuildInstancesLemma ==
    ASSUME NEW sh \in BOOLEAN
    PROVE  /\ BuildInstances(sh) \in Seq(Instances)
           /\ BuildInstances(sh) # << >>
           /\ 1 \in DOMAIN BuildInstances(sh)
  <1>1. Base \in Seq(Instances) /\ Base # << >> /\ "shadow" \in Instances
    BY WorkerAssumption
  <1>2. Len(Base) \in Nat \ {0} /\ DOMAIN Base = 1..Len(Base)
    BY <1>1, EmptySeq, LenProperties
  <1>3. /\ Append(Base, "shadow") \in Seq(Instances)
        /\ DOMAIN Append(Base, "shadow") = DOMAIN Base \cup {Len(Base) + 1}
        /\ Append(Base, "shadow") # << >>
    BY <1>1, AppendLemma, AppendProperties
  <1>4. QED
    BY <1>1, <1>2, <1>3 DEF BuildInstances

----------------------------------------------------------------------------
(* Orders *)

LEMMA OutcomeLemma ==
    ASSUME WorkerTypeOK, NEW i \in Instances, NEW m \in Mints, NEW amount \in Int,
           NEW outcome, Outcome(i, outcome), MoveTokens(i, m, amount, outcome)
    PROVE  /\ faults' \in Nat
           /\ torn' \subseteq {"wallet", "breaker"}
           /\ wallet' \in [Mints -> Int]
  <1>1. wallet \in [Mints -> Int] /\ faults \in Nat /\ torn \subseteq {"wallet", "breaker"}
    BY DEF WorkerTypeOK
  <1>2. faults' \in Nat /\ torn' \subseteq {"wallet", "breaker"}
    <2>1. CASE UNCHANGED <<faults, torn>>
      BY <1>1, <2>1
    <2>2. CASE faults' = faults + 1 /\ torn' = torn \cup {"wallet"}
      BY <1>1, <2>2
    <2>3. QED
      BY <2>1, <2>2 DEF Outcome
  <1>3. wallet' \in [Mints -> Int]
    BY <1>1 DEF MoveTokens
  <1>4. QED
    BY <1>2, <1>3

LEMMA SubmitSellLemma ==
    ASSUME PortfolioTypeOK, WorkerTypeOK, NEW p \in DOMAIN positions,
           NEW manual \in BOOLEAN, NEW refusedTo, SubmitSell(p, manual, refusedTo)
    PROVE  /\ faults' \in Nat
           /\ torn' \subseteq {"wallet", "breaker"}
           /\ wallet' \in [Mints -> Int]
           /\ swap' \in Swaps
           /\ \/ pc' = refusedTo /\ swap' = swap
              \/ /\ pc' = "CloseDb"
                 /\ swap'.side = "sell" /\ swap'.id = p /\ swap'.manual = manual
                 /\ swap'.instance = positions[p].instance
  <1> DEFINE i == positions[p].instance
             m == positions[p].mint
             qty == positions[p].size_usd
             amount == IF i \in OnChain THEN SellAmount(m, qty) ELSE qty
  <1>1. positions \in Seq(PositionRow)
    BY DEF PortfolioTypeOK
  <1>2. p \in Nat /\ positions[p] \in PositionRow
    BY <1>1, LenProperties, ElementOfSeq
  <1>3. i \in Instances /\ m \in Mints /\ qty \in Nat
    BY <1>2 DEF PositionRow
  <1>4. amount \in Int
    <2>1. UnitsPerToken[m] \in Nat \ {0}
      BY <1>3, WorkerAssumption
    <2> HIDE DEF m, qty
    <2>2. qty * 1000000 \in Nat
      BY <1>3
    <2>3. QED
      BY <1>3, <2>1, <2>2 DEF SellAmount
  <1>5. PICK outcome \in {"filled", "refused", "unseen", "ghost"}, gain \in Moves :
           /\ Outcome(i, outcome)
           /\ MoveTokens(i, m, -amount, outcome)
           /\ IF Reported(outcome)
              THEN /\ swap' = [side |-> "sell", instance |-> i, mint |-> m, id |-> p,
                               usd |-> IF amount + gain > 0 THEN amount + gain ELSE 0,
                               manual |-> manual]
                   /\ Goto("CloseDb")
              ELSE UNCHANGED swap /\ Goto(refusedTo)
    BY DEF SubmitSell
  <1> HIDE DEF i, m, qty, amount
  <1>6. gain \in Int
    BY WorkerAssumption
  <1>7. /\ faults' \in Nat
        /\ torn' \subseteq {"wallet", "breaker"}
        /\ wallet' \in [Mints -> Int]
    BY <1>3, <1>4, <1>5, OutcomeLemma
  <1>8. CASE Reported(outcome)
    <2> DEFINE usd == IF amount + gain > 0 THEN amount + gain ELSE 0
    <2>1. usd \in Nat
      BY <1>4, <1>6
    <2>2. swap' = [side |-> "sell", instance |-> i, mint |-> m, id |-> p, usd |-> usd,
                   manual |-> manual]
          /\ pc' = "CloseDb"
      BY <1>5, <1>8 DEF Goto
    <2> HIDE DEF usd
    <2>3. QED
      BY <1>2, <1>3, <1>7, <2>1, <2>2 DEF Swaps, i
  <1>9. CASE ~Reported(outcome)
    BY <1>5, <1>7, <1>9 DEF Goto, WorkerTypeOK
  <1>10. QED
    BY <1>8, <1>9

----------------------------------------------------------------------------
(* Type correctness *)

LEMMA InitLemma == Init => IInv
  <1> SUFFICES ASSUME Init PROVE IInv
    OBVIOUS
  <1>1. Base \in Seq(Instances) /\ Base # << >> /\ Primary \in Instances
        /\ 1 \in DOMAIN Base
    BY WorkerAssumption, EmptySeq, LenProperties, ElementOfSeq DEF Primary
  <1>2. PortfolioTypeOK
    BY StartBalanceAssumption, EmptySeq DEF Init, PortfolioInit, PortfolioTypeOK
  <1>3. ControlsTypeOK
    BY DEF Init, ControlsInit, ControlsTypeOK
  <1>4. QueueTypeOK
    BY EmptySeq DEF Init, QueueInit, QueueTypeOK
  <1>5. WorkerTypeOK
    <2>1. NoSwap \in Swaps
      BY DEF NoSwap, Swaps
    <2>2. wallet \in [Mints -> Int] /\ todo \subseteq DOMAIN commands
          /\ book \subseteq DOMAIN positions /\ cands \subseteq Mints
      BY DEF Init
    <2>3. running \in Seq(Instances) /\ pc \in Points /\ swap \in Swaps
      BY <1>1, <2>1 DEF Init, Points
    <2>4. shadow \in BOOLEAN
      BY Zenon DEF Init
    <2>7. tier \in {"halted", "hot", "broad"} /\ turn \in Nat \ {0} /\ now \in Nat
      BY DEF Init
    <2>5. /\ webPc \in {"idle"} \cup (KillOps \cap Ops)
          /\ crashes \in Nat /\ faults \in Nat
          /\ asked \in {"engage", "release", "unanswered"}
          /\ late \in Nat /\ resetAt \in Nat /\ raisedAt \in Nat
          /\ torn \subseteq {"wallet", "breaker"}
      BY DEF Init
    <2>6. QED
      BY <2>2, <2>3, <2>4, <2>5, <2>7 DEF WorkerTypeOK
  <1>6. TurnInv /\ SnapshotInv /\ SwapInv
    BY <1>1 DEF Init, TurnInv, SnapshotInv, SwapInv
  <1>7. QED
    BY <1>2, <1>3, <1>4, <1>5, <1>6 DEF IInv, TypeOK

LEMMA TypeStep == IInv /\ [Next]_vars => TypeOK'
  <1> SUFFICES ASSUME TypeOK, TurnInv, SnapshotInv, SwapInv, [Next]_vars
               PROVE  TypeOK'
    BY DEF IInv
  <1>0. PortfolioTypeOK /\ ControlsTypeOK /\ QueueTypeOK /\ WorkerTypeOK
    BY DEF TypeOK
  <1>1. CASE Drain
    BY <1>1, UnchangedLemma, ControlsLemma
       DEF Drain, TypeOK, WorkerTypeOK, Points, portfolioVars, Goto, memoryVars, outsideVars, historyVars, PendingCommands
  <1>2. CASE BeginTick
    BY <1>2, UnchangedLemma, ControlsLemma
       DEF BeginTick, TypeOK, WorkerTypeOK, Points, portfolioVars, Goto, memoryVars, outsideVars, historyVars, OpenPositions
  <1>3. CASE ManageNext
    BY <1>3, UnchangedLemma, ControlsLemma
       DEF ManageNext, TypeOK, WorkerTypeOK, Points, portfolioVars, Goto, memoryVars, outsideVars, historyVars, EndTick, OpenPositions
  <1>4. CASE GatePass
    BY <1>4, UnchangedLemma, ControlsLemma
       DEF GatePass, TypeOK, WorkerTypeOK, Points, portfolioVars, Goto, memoryVars, outsideVars, historyVars
  <1>5. CASE GateRefuse
    BY <1>5, UnchangedLemma, ControlsLemma
       DEF GateRefuse, TypeOK, WorkerTypeOK, Points, portfolioVars, Goto, memoryVars, outsideVars, historyVars
  <1>6. CASE GateDone
    BY <1>6, UnchangedLemma, ControlsLemma
       DEF GateDone, TypeOK, WorkerTypeOK, Points, portfolioVars, Goto, memoryVars, outsideVars, historyVars
  <1>7. CASE EndScan
    BY <1>7, UnchangedLemma, ControlsLemma
       DEF EndScan, TypeOK, WorkerTypeOK, Points, portfolioVars, Goto, memoryVars, outsideVars, historyVars
  <1>8. CASE ServeBroad
    BY <1>8, UnchangedLemma, ControlsLemma
       DEF ServeBroad, TypeOK, WorkerTypeOK, Points, portfolioVars, Goto, memoryVars, outsideVars, historyVars, EndTick
  <1>9. CASE Tick
    BY <1>9, UnchangedLemma, ControlsLemma
       DEF Tick, TypeOK, WorkerTypeOK, Points, portfolioVars, Goto, memoryVars, outsideVars, historyVars
  <1>10. CASE Startup
    <2>1. shadow \in BOOLEAN
      BY <1>0 DEF WorkerTypeOK
    <2>2. running' \in Seq(Instances)
      BY <1>10, <2>1, BuildInstancesLemma DEF Startup
    <2>3. /\ pc' = "Drain"
          /\ UNCHANGED portfolioVars /\ UNCHANGED commands
          /\ UNCHANGED <<shadow, tier, turn, todo, book, cands, swap, wallet, now, webPc,
                         crashes, asked, late, resetAt, torn>>
      BY <1>10 DEF Startup, Goto
    <2>4. ControlsTypeOK'
      BY <1>0, <1>10, ControlsLemma DEF Startup
    <2>5. faults' \in Nat /\ raisedAt' \in Nat
      <3>1. faults \in Nat /\ raisedAt \in Nat /\ Len(commands) \in Nat
        BY <1>0, LenProperties DEF WorkerTypeOK, QueueTypeOK
      <3>2. (faults' = faults \/ faults' = faults + 1)
            /\ (raisedAt' = raisedAt \/ raisedAt' = Len(commands))
        BY <1>10 DEF Startup
      <3>3. QED
        BY <3>1, <3>2
    <2>6. QED
      BY <1>0, <2>2, <2>3, <2>4, <2>5, UnchangedLemma
         DEF TypeOK, WorkerTypeOK, Points, portfolioVars
  <1>11. CASE Crash
    <2>1. Base \in Seq(Instances) /\ NoSwap \in Swaps
      BY WorkerAssumption DEF NoSwap, Swaps
    <2>2. torn' \subseteq {"wallet", "breaker"}
      <3>1. torn \subseteq {"wallet", "breaker"}
        BY <1>0 DEF WorkerTypeOK
      <3>2. \E lost \in SUBSET {"wallet", "breaker"} : torn' = torn \cup lost
        BY <1>11 DEF Crash
      <3>3. QED
        BY <3>1, <3>2
    <2>3. QED
      BY <1>11, <2>1, <2>2, UnchangedLemma, ControlsLemma
         DEF Crash, TypeOK, WorkerTypeOK, Points, portfolioVars, Goto, memoryVars, outsideVars, historyVars
  <1>12. CASE HandleControl
    <2>1. PICK c \in todo :
             \/ SetRun(TRUE) /\ UNCHANGED <<late, resetAt>>
             \/ SetRun(FALSE) /\ UNCHANGED <<late, resetAt>>
             \/ WriteKill(TRUE) /\ UNCHANGED resetAt
             \/ WriteKill(FALSE) /\ UNCHANGED resetAt
             \/ ResetCircuit /\ resetAt' = Len(trades) /\ UNCHANGED late
             \/ SetHalt(FALSE) /\ UNCHANGED <<late, resetAt>>
      BY <1>12 DEF HandleControl
    <2>2. ControlsTypeOK'
      BY <1>0, <2>1, ControlsLemma DEF WriteKill
    <2>3. late' \in Nat /\ resetAt' \in Nat
      <3>1. late \in Nat /\ resetAt \in Nat /\ Len(trades) \in Nat
        BY <1>0, LenProperties DEF WorkerTypeOK, PortfolioTypeOK
      <3>2. /\ late' = late \/ late' = 0
            /\ resetAt' = resetAt \/ resetAt' = Len(trades)
        BY <2>1 DEF WriteKill
      <3>3. QED
        BY <3>1, <3>2
    <2>4. QED
      BY <1>0, <1>12, <2>2, <2>3, UnchangedLemma DEF HandleControl, TypeOK, WorkerTypeOK, Points, portfolioVars, Goto, memoryVars, outsideVars, historyVars
  <1>13. CASE HandleSetShadow
    <2>1. shadow' \in BOOLEAN /\ running' = BuildInstances(shadow')
      BY <1>13 DEF HandleSetShadow
    <2>2. running' \in Seq(Instances)
      BY <2>1, BuildInstancesLemma
    <2>3. QED
      BY <1>0, <1>13, <2>1, <2>2, UnchangedLemma, ControlsLemma
         DEF HandleSetShadow, TypeOK, WorkerTypeOK, Points, portfolioVars, Goto, memoryVars, outsideVars, historyVars
  <1>14. CASE HandleManualClose
    <2>1. PICK c \in todo :
             IF Closable(commands[c].arg)
             THEN SubmitSell(commands[c].arg, TRUE, "Finish")
             ELSE Goto("Finish") /\ UNCHANGED <<swap, wallet, faults, torn>>
      BY <1>14 DEF HandleManualClose
    <2>2. CASE Closable(commands[c].arg)
      <3>1. commands[c].arg \in DOMAIN positions
        BY <2>2 DEF Closable, OpenPositions
      <3>2. SubmitSell(commands[c].arg, TRUE, "Finish")
        BY <2>1, <2>2
      <3>3. /\ faults' \in Nat /\ torn' \subseteq {"wallet", "breaker"}
            /\ wallet' \in [Mints -> Int] /\ swap' \in Swaps
            /\ pc' = "Finish" \/ pc' = "CloseDb"
        BY <1>0, <3>1, <3>2, SubmitSellLemma
      <3>4. QED
        BY <1>0, <1>14, <3>3, UnchangedLemma, ControlsLemma
           DEF HandleManualClose, TypeOK, WorkerTypeOK, Points, portfolioVars, Goto, memoryVars, outsideVars, historyVars
    <2>3. CASE ~Closable(commands[c].arg)
      BY <1>0, <1>14, <2>1, <2>3, UnchangedLemma, ControlsLemma
         DEF HandleManualClose, TypeOK, WorkerTypeOK, Points, portfolioVars, Goto, memoryVars, outsideVars, historyVars
    <2>4. QED
      BY <2>2, <2>3
  <1>15. CASE Finish
    <2>1. PICK c \in todo : FinishCommand(c, "done") /\ todo' = todo \ {c}
      BY <1>15 DEF Finish
    <2>2. QueueTypeOK' /\ DOMAIN commands' = DOMAIN commands
      BY <1>0, <2>1, FinishCommandLemma DEF WorkerTypeOK
    <2>3. NoSwap \in Swaps
      BY DEF NoSwap, Swaps
    <2>4. QED
      BY <1>0, <1>15, <2>1, <2>2, <2>3, UnchangedLemma, ControlsLemma
         DEF Finish, TypeOK, WorkerTypeOK, Points, portfolioVars, Goto, memoryVars, outsideVars, historyVars
  <1>16. CASE CommandFails
    <2>1. PICK c \in todo : FinishCommand(c, "failed") /\ todo' = todo \ {c}
      BY <1>16 DEF CommandFails
    <2>2. QueueTypeOK' /\ DOMAIN commands' = DOMAIN commands
      BY <1>0, <2>1, FinishCommandLemma DEF WorkerTypeOK
    <2>3. QED
      BY <1>0, <1>16, <2>1, <2>2, UnchangedLemma, ControlsLemma
         DEF CommandFails, TypeOK, WorkerTypeOK, Points, portfolioVars, Goto, memoryVars, outsideVars, historyVars
  <1>17. CASE Exit
    <2>1. PICK p \in book :
             book' = {q \in book : q > p} /\ SubmitSell(p, FALSE, "Manage")
      BY <1>17 DEF Exit, After
    <2>2. p \in DOMAIN positions
      BY <1>0 DEF WorkerTypeOK
    <2>3. /\ faults' \in Nat /\ torn' \subseteq {"wallet", "breaker"}
          /\ wallet' \in [Mints -> Int] /\ swap' \in Swaps
          /\ pc' = "Manage" \/ pc' = "CloseDb"
      BY <1>0, <2>1, <2>2, SubmitSellLemma
    <2>4. QED
      BY <1>0, <1>17, <2>1, <2>3, UnchangedLemma, ControlsLemma
         DEF Exit, TypeOK, WorkerTypeOK, Points, portfolioVars, Goto, memoryVars, outsideVars, historyVars
  <1>18. CASE CloseDb
    <2>1. /\ swap \in Swaps /\ swap.side = "sell"
          /\ swap.id \in DOMAIN positions
      BY <1>0, <1>18 DEF CloseDb, SwapInv, WorkerTypeOK
    <2>2. swap.usd \in Nat /\ swap.manual \in BOOLEAN
      BY <2>1 DEF Swaps
    <2>3. ClosePosition(swap.id, swap.usd)
      BY <1>18 DEF CloseDb
    <2>4. PortfolioTypeOK' /\ DOMAIN positions' = DOMAIN positions
      BY <1>0, <2>1, <2>2, <2>3, ClosePositionLemma
    <2>5. swap' \in Swaps
      <3>1. Settled \in Swaps
        BY <2>2 DEF Settled, NoSwap, Swaps
      <3>2. QED
        BY <1>18, <3>1 DEF CloseDb
    <2>6. QED
      BY <1>0, <1>18, <2>4, <2>5, UnchangedLemma, ControlsLemma
         DEF CloseDb, AfterClose, Points, portfolioVars, Goto, memoryVars, outsideVars, historyVars, TypeOK, WorkerTypeOK
  <1>19. CASE RiskDb
    <2>1. trades[Len(trades)].pnl_usd \in Int
      <3>1. trades \in Seq(TradeRow) /\ trades # << >>
        BY <1>0, <1>19 DEF RiskDb, SwapInv, PortfolioTypeOK
      <3>2. Len(trades) \in 1..Len(trades)
        BY <3>1, EmptySeq
      <3>3. trades[Len(trades)] \in TradeRow
        BY <3>1, <3>2, ElementOfSeq
      <3>4. QED
        BY <3>3 DEF TradeRow
    <2>2. ControlsTypeOK'
      BY <1>0, <1>19, <2>1, ControlsLemma DEF RiskDb
    <2>3. QED
      BY <1>0, <1>19, <2>2, UnchangedLemma DEF RiskDb, AfterClose, TypeOK, WorkerTypeOK, Points, portfolioVars, Goto, memoryVars, outsideVars, historyVars
  <1>20. CASE Enter
    <2>1. PICK m \in Mints, size \in Sizes,
               outcome \in {"filled", "refused", "unseen", "ghost"} :
             /\ Outcome(Serving, outcome)
             /\ MoveTokens(Serving, m, size, outcome)
             /\ cands' = cands \ {m}
             /\ late' = IF kill THEN late + 1 ELSE late
             /\ IF Reported(outcome)
                THEN /\ swap' = [side |-> "buy", instance |-> Serving, mint |-> m,
                                 id |-> 0, usd |-> size, manual |-> FALSE]
                     /\ Goto("OpenDb")
                ELSE UNCHANGED <<swap, pc>>
      BY <1>20 DEF Enter
    <2>2. Serving \in Instances
      <3>1. turn \in DOMAIN running /\ running \in Seq(Instances)
        BY <1>0, <1>20 DEF Enter, TurnInv, WorkerTypeOK
      <3>2. QED
        BY <3>1, LenProperties, ElementOfSeq DEF Serving
    <2>3. size \in Nat /\ size \in Int
      BY WorkerAssumption
    <2>4. /\ faults' \in Nat /\ torn' \subseteq {"wallet", "breaker"}
          /\ wallet' \in [Mints -> Int]
      BY <1>0, <2>1, <2>2, <2>3, OutcomeLemma
    <2>5. late' \in Nat
      BY <1>0, <2>1 DEF WorkerTypeOK
    <2>6. swap' \in Swaps /\ pc' \in Points
      <3>1. CASE Reported(outcome)
        <4> DEFINE new == [side |-> "buy", instance |-> Serving, mint |-> m,
                           id |-> 0, usd |-> size, manual |-> FALSE]
        <4>1. new \in Swaps
          BY <2>2, <2>3 DEF Swaps
        <4>2. swap' = new /\ pc' = "OpenDb"
          BY <2>1, <3>1 DEF Goto
        <4> HIDE DEF new
        <4>3. QED
          BY <4>1, <4>2 DEF Points
      <3>2. CASE ~Reported(outcome)
        BY <1>0, <2>1, <3>2 DEF WorkerTypeOK
      <3>3. QED
        BY <3>1, <3>2
    <2>7. QED
      BY <1>0, <1>20, <2>1, <2>4, <2>5, <2>6, UnchangedLemma, ControlsLemma
         DEF Enter, Points, portfolioVars, Goto, memoryVars, outsideVars, historyVars, TypeOK, WorkerTypeOK
  <1>21. CASE OpenDb
    <2>1. swap \in Swaps /\ swap.side = "buy" /\ now \in Nat
      BY <1>0, <1>21 DEF OpenDb, SwapInv, WorkerTypeOK
    <2>2. swap.instance \in Instances /\ swap.mint \in Mints /\ swap.usd \in Nat
      BY <2>1 DEF Swaps
    <2>3. OpenPosition(swap.instance, swap.mint, swap.usd, now)
      BY <1>21 DEF OpenDb
    <2>4. /\ PortfolioTypeOK'
          /\ DOMAIN positions' = DOMAIN positions \cup {Len(positions) + 1}
      BY <1>0, <2>1, <2>2, <2>3, OpenPositionLemma
    <2>5. swap' \in Swaps
      BY <1>21 DEF OpenDb, NoSwap, Swaps
    <2>6. QED
      BY <1>0, <1>21, <2>4, <2>5, UnchangedLemma, ControlsLemma
         DEF OpenDb, Points, portfolioVars, Goto, memoryVars, outsideVars, historyVars, TypeOK, WorkerTypeOK
  <1>22. CASE Housekeeping
    <2>1. ControlsTypeOK'
      BY <1>0, <1>22, ControlsLemma DEF Housekeeping
    <2>2. /\ shadow' \in BOOLEAN /\ running' \in Seq(Instances)
          /\ QueueTypeOK' /\ DOMAIN commands \subseteq DOMAIN commands'
      <3>1. CASE UNCHANGED <<shadow, running, commands>>
        BY <1>0, <3>1, UnchangedLemma DEF WorkerTypeOK
      <3>2. CASE /\ shadow
                 /\ shadow' = FALSE
                 /\ running' = BuildInstances(FALSE)
                 /\ Enqueue("set_shadow", 0)
        <4>1. "set_shadow" \in Ops
          BY <3>2 DEF TurnInv
        <4>2. QueueTypeOK' /\ DOMAIN commands \subseteq DOMAIN commands'
          BY <1>0, <3>2, <4>1, EnqueueLemma
        <4>3. QED
          BY <3>2, <4>2, BuildInstancesLemma
      <3>3. QED
        BY <1>22, <3>1, <3>2 DEF Housekeeping
    <2>3. QED
      BY <1>0, <1>22, <2>1, <2>2, UnchangedLemma
         DEF Housekeeping, EndTick, Points, portfolioVars, Goto, memoryVars, outsideVars, historyVars, TypeOK, WorkerTypeOK
  <1>23. CASE DbError
    <2>1. torn' \subseteq {"wallet", "breaker"}
      <3>1. torn \subseteq {"wallet", "breaker"}
        BY <1>0 DEF WorkerTypeOK
      <3>2. \E lost \in SUBSET {"wallet", "breaker"} : torn' = torn \cup lost
        BY <1>23 DEF DbError
      <3>3. QED
        BY <3>1, <3>2
    <2>2. NoSwap \in Swaps
      BY DEF NoSwap, Swaps
    <2>3. CASE swap.manual
      <3>1. PICK c \in todo : FinishCommand(c, "failed") /\ todo' = todo \ {c}
        BY <1>23, <2>3 DEF DbError
      <3>2. QueueTypeOK' /\ DOMAIN commands' = DOMAIN commands
        BY <1>0, <3>1, FinishCommandLemma DEF WorkerTypeOK
      <3>3. QED
        BY <1>0, <1>23, <2>1, <2>2, <2>3, <3>1, <3>2, UnchangedLemma, ControlsLemma
           DEF DbError, Points, portfolioVars, Goto, memoryVars, outsideVars, historyVars, TypeOK, WorkerTypeOK
    <2>4. CASE ~swap.manual
      BY <1>0, <1>23, <2>1, <2>2, <2>4, UnchangedLemma, ControlsLemma
         DEF DbError, EndTick, Points, portfolioVars, Goto, memoryVars, outsideVars, historyVars, TypeOK, WorkerTypeOK
    <2>5. QED
      BY <2>3, <2>4
  <1>24. CASE WebEnqueue
    <2>1. PICK op \in Ops, arg \in 0..MaxPositions : Enqueue(op, arg)
      BY <1>24 DEF WebEnqueue
    <2>2. arg \in Nat
      BY WorkerAssumption
    <2>3. QueueTypeOK' /\ DOMAIN commands \subseteq DOMAIN commands'
      BY <1>0, <2>1, <2>2, EnqueueLemma
    <2>4. QED
      BY <1>0, <1>24, <2>3, UnchangedLemma, ControlsLemma
         DEF WebEnqueue, TypeOK, WorkerTypeOK, Points, portfolioVars, Goto, memoryVars, outsideVars, historyVars, webUnchanged
  <1>25. CASE WebWriteKill
    <2>1. PICK op \in KillOps \cap Ops :
             /\ SetKill(op = "kill_switch")
             /\ late' \in {late, 0}
             /\ asked' \in {"engage", "release"}
             /\ webPc' = op
      BY <1>25 DEF WebWriteKill, WriteKill
    <2>2. ControlsTypeOK'
      BY <1>0, <2>1, ControlsLemma
    <2>3. QED
      BY <1>0, <1>25, <2>1, <2>2, UnchangedLemma
         DEF WebWriteKill, TypeOK, WorkerTypeOK, Points, portfolioVars, Goto, memoryVars, outsideVars, historyVars, webUnchanged
  <1>26. CASE WebQueueKill
    <2>1. webPc \in Ops
      BY <1>0, <1>26 DEF WebQueueKill, WorkerTypeOK
    <2>2. QueueTypeOK' /\ DOMAIN commands \subseteq DOMAIN commands'
      BY <1>0, <1>26, <2>1, EnqueueLemma DEF WebQueueKill
    <2>3. QED
      BY <1>0, <1>26, <2>2, UnchangedLemma, ControlsLemma
         DEF WebQueueKill, TypeOK, WorkerTypeOK, Points, portfolioVars, Goto, memoryVars, outsideVars, historyVars, webUnchanged
  <1>27. CASE WebDies
    BY <1>0, <1>27, UnchangedLemma, ControlsLemma
       DEF WebDies, TypeOK, WorkerTypeOK, Points, portfolioVars, Goto, memoryVars, outsideVars, historyVars, webUnchanged
  <1>28. CASE UNCHANGED vars
    BY <1>0, <1>28, UnchangedLemma, ControlsLemma
       DEF vars, TypeOK, WorkerTypeOK, Points, portfolioVars, Goto, memoryVars, outsideVars, historyVars
  <1>29. CASE FinishError
    <2>1. NoSwap \in Swaps
      BY DEF NoSwap, Swaps
    <2>2. CASE \E c \in todo : FinishCommand(c, "failed") /\ todo' = todo \ {c}
      <3>1. PICK c \in todo : FinishCommand(c, "failed") /\ todo' = todo \ {c}
        BY <2>2
      <3>2. QueueTypeOK' /\ DOMAIN commands' = DOMAIN commands
        BY <1>0, <3>1, FinishCommandLemma DEF WorkerTypeOK
      <3>3. QED
        BY <1>0, <1>29, <2>1, <3>1, <3>2, UnchangedLemma, ControlsLemma
           DEF FinishError, EndTick, Points, portfolioVars, Goto, memoryVars, outsideVars, historyVars, TypeOK, WorkerTypeOK
    <2>3. CASE todo' = {} /\ EndTick /\ UNCHANGED commands
      BY <1>0, <1>29, <2>1, <2>3, UnchangedLemma, ControlsLemma
         DEF FinishError, EndTick, Points, portfolioVars, Goto, memoryVars, outsideVars, historyVars, TypeOK, WorkerTypeOK
    <2>4. QED
      BY <1>29, <2>2, <2>3 DEF FinishError
  <1>30. CASE Abort
    BY <1>0, <1>30, UnchangedLemma, ControlsLemma
       DEF Abort, EndTick, Points, portfolioVars, Goto, memoryVars, outsideVars, historyVars, TypeOK, WorkerTypeOK
  <1>31. QED
    BY <1>1, <1>2, <1>3, <1>4, <1>5, <1>6, <1>7, <1>8, <1>9, <1>10, <1>11, <1>12,
       <1>13, <1>14, <1>15, <1>16, <1>17, <1>18, <1>19, <1>20, <1>21, <1>22,
       <1>23, <1>24, <1>25, <1>26, <1>27, <1>28, <1>29, <1>30
       DEF Next, WorkerStep, Environment, Web

----------------------------------------------------------------------------
(* The instance being served exists *)

\* What a sale does to the point of the tick and to the pending fill.
LEMMA SellFlow ==
    ASSUME PortfolioTypeOK, WorkerTypeOK,
           HandleManualClose \/ Exit
    PROVE  \/ /\ pc = "Command" /\ pc' = "Finish" /\ swap' = swap
           \/ /\ pc = "Command" /\ pc' = "CloseDb" /\ swap'.manual = TRUE
           \/ /\ pc = "Manage" /\ pc' = "Manage" /\ swap' = swap
           \/ /\ pc = "Manage" /\ pc' = "CloseDb" /\ swap'.manual = FALSE
  <1>1. CASE HandleManualClose
    <2>1. PICK c \in todo :
             IF Closable(commands[c].arg)
             THEN SubmitSell(commands[c].arg, TRUE, "Finish")
             ELSE Goto("Finish") /\ UNCHANGED swap
      BY <1>1 DEF HandleManualClose
    <2>2. pc = "Command"
      BY <1>1 DEF HandleManualClose
    <2>3. CASE Closable(commands[c].arg)
      <3>1. commands[c].arg \in DOMAIN positions
        BY <2>3 DEF Closable, OpenPositions
      <3>2. QED
        BY <2>1, <2>2, <2>3, <3>1, SubmitSellLemma
    <2>4. CASE ~Closable(commands[c].arg)
      BY <2>1, <2>2, <2>4 DEF Goto
    <2>5. QED
      BY <2>3, <2>4
  <1>2. CASE Exit
    <2>1. PICK p \in book : SubmitSell(p, FALSE, "Manage")
      BY <1>2 DEF Exit
    <2>2. pc = "Manage" /\ p \in DOMAIN positions
      BY <1>2 DEF Exit, WorkerTypeOK
    <2>3. QED
      BY <2>1, <2>2, SubmitSellLemma
  <1>3. QED
    BY <1>1, <1>2

LEMMA TurnStep == IInv /\ [Next]_vars => TurnInv'
  <1> SUFFICES ASSUME PortfolioTypeOK, QueueTypeOK, WorkerTypeOK, TurnInv, SwapInv,
                      [Next]_vars
               PROVE  TurnInv'
    BY DEF IInv, TypeOK
  <1>a. running \in Seq(Instances) /\ shadow \in BOOLEAN /\ turn \in Nat \ {0}
    BY DEF WorkerTypeOK
  <1>b. /\ Len(running) \in Nat /\ DOMAIN running = 1..Len(running)
        /\ 1 \in DOMAIN running
    BY <1>a, LenProperties, EmptySeq DEF TurnInv
  <1>c. QueueTypeOK
    OBVIOUS
  <1>1. CASE Startup
    <2>1. running' = BuildInstances(shadow) /\ UNCHANGED <<shadow, turn, swap>>
          /\ pc = "Down" /\ pc' = "Drain"
      BY <1>1 DEF Startup, Goto
    <2>2. QED
      BY <1>a, <2>1, BuildInstancesLemma DEF TurnInv
  <1>2. CASE Crash
    <2>1. Base # << >> /\ 1 \in DOMAIN Base
      BY WorkerAssumption, EmptySeq, LenProperties
    <2>2. QED
      BY <1>2, <2>1 DEF Crash, TurnInv, Goto
  <1>3. CASE HandleSetShadow
    <2>1. "set_shadow" \in Ops
      <3>1. PICK c \in todo : commands[c].op = "set_shadow"
        BY <1>3 DEF HandleSetShadow
      <3>2. commands \in Seq(CommandRow) /\ c \in DOMAIN commands
        BY <1>c DEF QueueTypeOK, WorkerTypeOK
      <3>3. commands[c] \in CommandRow
        BY <3>2, LenProperties, ElementOfSeq
      <3>4. QED
        BY <3>1, <3>3 DEF CommandRow
    <2>2. shadow' \in BOOLEAN /\ running' = BuildInstances(shadow')
          /\ pc = "Command" /\ pc' = "Finish" /\ UNCHANGED turn
      BY <1>3 DEF HandleSetShadow, Goto
    <2>3. QED
      BY <2>1, <2>2, BuildInstancesLemma DEF TurnInv
  <1>4. CASE HandleManualClose \/ Exit
    <2>1. UNCHANGED <<running, turn, shadow>>
      BY <1>4 DEF HandleManualClose, Exit
    <2>2. QED
      BY <1>4, <2>1, SellFlow DEF TurnInv
  <1>5. CASE Housekeeping
    <2>1. /\ pc' = "Drain" /\ turn' = 1
          /\ \/ UNCHANGED <<shadow, running>>
             \/ shadow' = FALSE /\ running' = BuildInstances(FALSE)
      BY <1>5 DEF Housekeeping, EndTick, Goto
    <2>2. BuildInstances(FALSE) # << >> /\ 1 \in DOMAIN BuildInstances(FALSE)
      BY BuildInstancesLemma
    <2>3. running' # << >> /\ 1 \in DOMAIN running'
      BY <1>b, <2>1, <2>2 DEF TurnInv
    <2>4. shadow' => "set_shadow" \in Ops
      <3>1. CASE UNCHANGED shadow
        BY <3>1 DEF TurnInv
      <3>2. CASE shadow' = FALSE
        BY <3>2
      <3>3. QED
        BY <2>1, <3>1, <3>2
    <2>5. QED
      BY <2>1, <2>3, <2>4 DEF TurnInv
  <1>6. CASE Drain
    BY <1>6 DEF Drain, TurnInv, Goto, memoryVars, outsideVars, historyVars, portfolioVars
  <1>7. CASE HandleControl
    BY <1>7 DEF HandleControl, TurnInv, Goto, memoryVars, outsideVars, historyVars, portfolioVars
  <1>8. CASE Finish
    BY <1>8 DEF Finish, TurnInv, Goto, memoryVars, outsideVars, historyVars, portfolioVars
  <1>9. CASE CommandFails
    BY <1>9 DEF CommandFails, TurnInv, Goto, memoryVars, outsideVars, historyVars, portfolioVars
  <1>10. CASE BeginTick
    BY <1>10 DEF BeginTick, TurnInv, Goto, memoryVars, outsideVars, historyVars, portfolioVars
  <1>11. CASE ManageNext
    BY <1>11, <1>b DEF ManageNext, TurnInv, Goto, memoryVars, outsideVars, historyVars, portfolioVars, EndTick
  <1>12. CASE CloseDb
    BY <1>12 DEF CloseDb, TurnInv, Goto, memoryVars, outsideVars, historyVars, portfolioVars, AfterClose, Settled, NoSwap
  <1>13. CASE RiskDb
    BY <1>13 DEF RiskDb, TurnInv, Goto, memoryVars, outsideVars, historyVars, portfolioVars, AfterClose
  <1>14. CASE GatePass
    BY <1>14, <1>a, <1>b DEF GatePass, TurnInv, Goto, memoryVars, outsideVars, historyVars, portfolioVars
  <1>15. CASE GateRefuse
    BY <1>15, <1>b DEF GateRefuse, TurnInv, Goto, memoryVars, outsideVars, historyVars, portfolioVars
  <1>16. CASE GateDone
    BY <1>16, <1>b DEF GateDone, TurnInv, Goto, memoryVars, outsideVars, historyVars, portfolioVars
  <1>17. CASE Enter
    BY <1>17 DEF Enter, TurnInv, Goto, memoryVars, outsideVars, historyVars, portfolioVars
  <1>18. CASE OpenDb
    BY <1>18 DEF OpenDb, TurnInv, Goto, memoryVars, outsideVars, historyVars, portfolioVars, NoSwap
  <1>19. CASE EndScan
    BY <1>19, <1>b DEF EndScan, TurnInv, Goto, memoryVars, outsideVars, historyVars, portfolioVars
  <1>20. CASE ServeBroad
    BY <1>20, <1>b DEF ServeBroad, TurnInv, Goto, memoryVars, outsideVars, historyVars, portfolioVars, EndTick
  <1>21. CASE DbError
    BY <1>21, <1>b DEF DbError, TurnInv, Goto, memoryVars, outsideVars, historyVars, portfolioVars, EndTick, SwapInv, NoSwap
  <1>22. CASE Tick
    BY <1>22 DEF Tick, TurnInv, Goto, memoryVars, outsideVars, historyVars, portfolioVars
  <1>23. CASE WebEnqueue
    BY <1>23 DEF WebEnqueue, TurnInv, Goto, memoryVars, outsideVars, historyVars, portfolioVars, webUnchanged
  <1>24. CASE WebWriteKill
    BY <1>24 DEF WebWriteKill, TurnInv, Goto, memoryVars, outsideVars, historyVars, portfolioVars, webUnchanged
  <1>25. CASE WebQueueKill
    BY <1>25 DEF WebQueueKill, TurnInv, Goto, memoryVars, outsideVars, historyVars, portfolioVars, webUnchanged
  <1>26. CASE WebDies
    BY <1>26 DEF WebDies, TurnInv, Goto, memoryVars, outsideVars, historyVars, portfolioVars, webUnchanged
  <1>27. CASE UNCHANGED vars
    BY <1>27 DEF vars, TurnInv, Goto, memoryVars, outsideVars, historyVars, portfolioVars
  <1>28. CASE FinishError
    BY <1>28, <1>b DEF FinishError, TurnInv, Goto, memoryVars, outsideVars, historyVars, portfolioVars, EndTick
  <1>29. CASE Abort
    BY <1>29, <1>b DEF Abort, TurnInv, Goto, memoryVars, outsideVars, historyVars, portfolioVars, EndTick
  <1>30. QED
    BY <1>1, <1>2, <1>3, <1>4, <1>5, <1>6, <1>7, <1>8, <1>9, <1>10, <1>11, <1>12,
       <1>13, <1>14, <1>15, <1>16, <1>17, <1>18, <1>19, <1>20, <1>21, <1>22,
       <1>23, <1>24, <1>25, <1>26, <1>27, <1>28, <1>29
       DEF Next, WorkerStep, Environment, Web

----------------------------------------------------------------------------
(* The snapshot of open positions *)

LEMMA SnapshotStep == IInv /\ [Next]_vars => SnapshotInv'
  <1> SUFFICES ASSUME PortfolioTypeOK, QueueTypeOK, WorkerTypeOK, SnapshotInv,
                      SwapInv, [Next]_vars
               PROVE  SnapshotInv'
    BY DEF IInv, TypeOK
  <1>a. book \subseteq DOMAIN positions
    BY DEF WorkerTypeOK
  <1>1. CASE HandleManualClose
    <2>1. pc = "Command" /\ UNCHANGED book
      BY <1>1 DEF HandleManualClose
    <2>2. QED
      BY <1>1, <2>1, SellFlow DEF SnapshotInv
  <1>2. CASE Exit
    <2>1. book' \subseteq book /\ UNCHANGED positions
      BY <1>2 DEF Exit, After, portfolioVars
    <2>2. pc = "Manage"
      BY <1>2 DEF Exit, After
    <2>3. QED
      BY <1>2, <2>1, <2>2, SellFlow DEF SnapshotInv
  <1>3. CASE CloseDb
    <2>1. /\ swap \in Swaps /\ swap.side = "sell"
          /\ swap.id \in DOMAIN positions \ book
      BY <1>3 DEF CloseDb, SwapInv, WorkerTypeOK
    <2>2. swap.usd \in Nat
      BY <2>1 DEF Swaps
    <2>3. ClosePosition(swap.id, swap.usd)
      BY <1>3 DEF CloseDb
    <2>4. \A q \in book : positions'[q] = positions[q]
      BY <1>a, <2>1, <2>2, <2>3, ClosePositionLemma
    <2>5. /\ pc' \in {"RiskDb", IF swap.manual THEN "Finish" ELSE "Manage"}
          /\ pc = "CloseDb" /\ UNCHANGED book /\ swap'.manual = swap.manual
      BY <1>3 DEF CloseDb, AfterClose, Settled, NoSwap, Goto
    <2>6. QED
      BY <2>4, <2>5 DEF SnapshotInv
  <1>4. CASE OpenDb
    BY <1>4 DEF OpenDb, SnapshotInv, Goto
  <1>5. CASE Startup
    BY <1>5 DEF Startup, SnapshotInv, Goto, memoryVars, outsideVars, historyVars, portfolioVars
  <1>6. CASE Crash
    BY <1>6 DEF Crash, SnapshotInv, Goto, memoryVars, outsideVars, historyVars, portfolioVars
  <1>7. CASE Drain
    BY <1>7 DEF Drain, SnapshotInv, Goto, memoryVars, outsideVars, historyVars, portfolioVars
  <1>8. CASE HandleControl
    BY <1>8 DEF HandleControl, SnapshotInv, Goto, memoryVars, outsideVars, historyVars, portfolioVars
  <1>9. CASE HandleSetShadow
    BY <1>9 DEF HandleSetShadow, SnapshotInv, Goto, memoryVars, outsideVars, historyVars, portfolioVars
  <1>10. CASE Finish
    BY <1>10 DEF Finish, SnapshotInv, Goto, memoryVars, outsideVars, historyVars, portfolioVars
  <1>11. CASE CommandFails
    BY <1>11 DEF CommandFails, SnapshotInv, Goto, memoryVars, outsideVars, historyVars, portfolioVars
  <1>12. CASE BeginTick
    BY <1>12 DEF BeginTick, SnapshotInv, Goto, memoryVars, outsideVars, historyVars, portfolioVars, OpenPositions
  <1>13. CASE ManageNext
    BY <1>13 DEF ManageNext, SnapshotInv, Goto, memoryVars, outsideVars, historyVars, portfolioVars, EndTick, OpenPositions
  <1>14. CASE RiskDb
    BY <1>14 DEF RiskDb, SnapshotInv, Goto, memoryVars, outsideVars, historyVars, portfolioVars, AfterClose
  <1>15. CASE GatePass
    BY <1>15 DEF GatePass, SnapshotInv, Goto, memoryVars, outsideVars, historyVars, portfolioVars
  <1>16. CASE GateRefuse
    BY <1>16 DEF GateRefuse, SnapshotInv, Goto, memoryVars, outsideVars, historyVars, portfolioVars
  <1>17. CASE GateDone
    BY <1>17 DEF GateDone, SnapshotInv, Goto, memoryVars, outsideVars, historyVars, portfolioVars
  <1>18. CASE Enter
    BY <1>18 DEF Enter, SnapshotInv, Goto, memoryVars, outsideVars, historyVars, portfolioVars
  <1>19. CASE EndScan
    BY <1>19 DEF EndScan, SnapshotInv, Goto, memoryVars, outsideVars, historyVars, portfolioVars
  <1>20. CASE ServeBroad
    BY <1>20 DEF ServeBroad, SnapshotInv, Goto, memoryVars, outsideVars, historyVars, portfolioVars, EndTick
  <1>21. CASE Housekeeping
    BY <1>21 DEF Housekeeping, SnapshotInv, Goto, memoryVars, outsideVars, historyVars, portfolioVars, EndTick
  <1>22. CASE DbError
    BY <1>22 DEF DbError, SnapshotInv, Goto, memoryVars, outsideVars, historyVars, portfolioVars, EndTick, SwapInv, NoSwap
  <1>23. CASE Tick
    BY <1>23 DEF Tick, SnapshotInv, Goto, memoryVars, outsideVars, historyVars, portfolioVars
  <1>24. CASE WebEnqueue
    BY <1>24 DEF WebEnqueue, SnapshotInv, Goto, memoryVars, outsideVars, historyVars, portfolioVars, webUnchanged
  <1>25. CASE WebWriteKill
    BY <1>25 DEF WebWriteKill, SnapshotInv, Goto, memoryVars, outsideVars, historyVars, portfolioVars, webUnchanged
  <1>26. CASE WebQueueKill
    BY <1>26 DEF WebQueueKill, SnapshotInv, Goto, memoryVars, outsideVars, historyVars, portfolioVars, webUnchanged
  <1>27. CASE WebDies
    BY <1>27 DEF WebDies, SnapshotInv, Goto, memoryVars, outsideVars, historyVars, portfolioVars, webUnchanged
  <1>28. CASE UNCHANGED vars
    BY <1>28 DEF vars, SnapshotInv, Goto, memoryVars, outsideVars, historyVars, portfolioVars
  <1>29. CASE FinishError
    BY <1>29 DEF FinishError, SnapshotInv, Goto, memoryVars, outsideVars, historyVars, portfolioVars, EndTick
  <1>30. CASE Abort
    BY <1>30 DEF Abort, SnapshotInv, Goto, memoryVars, outsideVars, historyVars, portfolioVars, EndTick
  <1>31. QED
    BY <1>1, <1>2, <1>3, <1>4, <1>5, <1>6, <1>7, <1>8, <1>9, <1>10, <1>11, <1>12,
       <1>13, <1>14, <1>15, <1>16, <1>17, <1>18, <1>19, <1>20, <1>21, <1>22,
       <1>23, <1>24, <1>25, <1>26, <1>27, <1>28, <1>29, <1>30
       DEF Next, WorkerStep, Environment, Web

----------------------------------------------------------------------------
(* The fill that waits to be recorded *)

\* Nothing a pending fill relies on is undone while time passes or while
\* somebody else writes.
LEMMA SwapKept ==
    ASSUME WorkerTypeOK, PortfolioTypeOK, SwapInv,
           UNCHANGED <<positions, trades, swap, pc, book>>,
           now' = now \/ now' = now + 1
    PROVE  SwapInv'
  <1>1. CASE pc = "CloseDb"
    BY <1>1 DEF SwapInv
  <1>2. CASE pc = "OpenDb"
    <2> DEFINE i == swap.instance
               m == swap.mint
    <2>1. PositionFor(i, m)' = PositionFor(i, m)
      BY DEF PositionFor, OpenPositions
    <2>2. ASSUME NEW q \in Rows(i, m)
          PROVE  ~(now' - positions[q].entry_ts < SameMintGap)
      <3>1. ~(now - positions[q].entry_ts < SameMintGap)
        BY <1>2 DEF SwapInv, CoolingOff, Within
      <3>2. positions \in Seq(PositionRow) /\ q \in DOMAIN positions
        BY DEF PortfolioTypeOK, Rows
      <3>3. positions[q] \in PositionRow
        BY <3>2, LenProperties, ElementOfSeq
      <3>4. positions[q].entry_ts \in Nat /\ now \in Nat /\ SameMintGap \in Nat
        BY <3>3, WorkerAssumption DEF PositionRow, WorkerTypeOK
      <3>5. QED
        BY <3>1, <3>4
    <2>3. ~CoolingOff(i, m)'
      BY <2>2 DEF CoolingOff, Within, Rows
    <2>4. QED
      BY <1>2, <2>1, <2>3 DEF SwapInv
  <1>3. CASE pc \notin {"CloseDb", "OpenDb"}
    BY <1>3 DEF SwapInv
  <1>4. QED
    BY <1>1, <1>2, <1>3

LEMMA SwapStep == IInv /\ [Next]_vars => SwapInv'
  <1> SUFFICES ASSUME PortfolioTypeOK, QueueTypeOK, WorkerTypeOK, TurnInv,
                      SnapshotInv, SwapInv, [Next]_vars
               PROVE  SwapInv'
    BY DEF IInv, TypeOK
  <1>1. CASE HandleManualClose
    <2>1. PICK c \in todo :
             IF Closable(commands[c].arg)
             THEN SubmitSell(commands[c].arg, TRUE, "Finish")
             ELSE Goto("Finish")
      BY <1>1 DEF HandleManualClose
    <2>2. book' = {} /\ UNCHANGED positions
      BY <1>1 DEF HandleManualClose, SnapshotInv, portfolioVars
    <2>3. CASE Closable(commands[c].arg)
      <3>1. commands[c].arg \in DOMAIN positions
            /\ positions[commands[c].arg].status = "open"
        BY <2>3 DEF Closable, OpenPositions
      <3>2. \/ pc' = "Finish"
            \/ /\ pc' = "CloseDb" /\ swap'.side = "sell"
               /\ swap'.id = commands[c].arg
               /\ swap'.instance = positions[commands[c].arg].instance
        BY <2>1, <2>3, <3>1, SubmitSellLemma
      <3>3. QED
        BY <2>2, <3>1, <3>2 DEF SwapInv
    <2>4. CASE ~Closable(commands[c].arg)
      BY <2>1, <2>4 DEF Goto, SwapInv
    <2>5. QED
      BY <2>3, <2>4
  <1>2. CASE Exit
    <2>1. PICK p \in book :
             book' = {q \in book : q > p} /\ SubmitSell(p, FALSE, "Manage")
      BY <1>2 DEF Exit, After
    <2>2. p \in DOMAIN positions /\ p \in Nat /\ positions[p].status = "open"
      BY LenProperties DEF WorkerTypeOK, SnapshotInv, PortfolioTypeOK
    <2>3. p \notin book' /\ UNCHANGED positions /\ pc = "Manage"
      BY <1>2, <2>1, <2>2 DEF Exit, portfolioVars
    <2>4. \/ pc' = "Manage"
          \/ /\ pc' = "CloseDb" /\ swap'.side = "sell" /\ swap'.id = p
             /\ swap'.instance = positions[p].instance
      BY <2>1, <2>2, <2>3, SubmitSellLemma
    <2>5. QED
      BY <2>2, <2>3, <2>4 DEF SwapInv
  <1>3. CASE CloseDb
    <2>1. /\ swap \in Swaps /\ swap.side = "sell"
          /\ swap.id \in DOMAIN positions
      BY <1>3 DEF CloseDb, SwapInv, WorkerTypeOK
    <2>2. swap.usd \in Nat
      BY <2>1 DEF Swaps
    <2>3. ClosePosition(swap.id, swap.usd)
      BY <1>3 DEF CloseDb
    <2>4. trades' # << >>
      BY <2>1, <2>2, <2>3, ClosePositionLemma
    <2>5. pc' \in {"RiskDb", "Finish", "Manage"}
      BY <1>3 DEF CloseDb, AfterClose, Goto
    <2>6. QED
      BY <2>4, <2>5 DEF SwapInv
  <1>4. CASE Enter
    <2>1. PICK m \in Mints, size \in Sizes,
               outcome \in {"filled", "refused", "unseen", "ghost"} :
             /\ Candidate(Serving, m)
             /\ IF Reported(outcome)
                THEN /\ swap' = [side |-> "buy", instance |-> Serving, mint |-> m,
                                 id |-> 0, usd |-> size, manual |-> FALSE]
                     /\ Goto("OpenDb")
                ELSE UNCHANGED <<swap, pc>>
      BY <1>4 DEF Enter
    <2>2. CASE Reported(outcome)
      <3>1. /\ pc' = "OpenDb" /\ swap'.side = "buy" /\ swap'.manual = FALSE
            /\ swap'.instance = Serving /\ swap'.mint = m /\ swap'.usd = size
        BY <2>1, <2>2 DEF Goto
      <3>2. size > 0
        BY WorkerAssumption
      <3>3. UNCHANGED <<positions, now>>
        BY <1>4 DEF Enter, portfolioVars
      <3>4. PositionFor(Serving, m) = {} /\ ~CoolingOff(Serving, m)
        BY <2>1 DEF Candidate
      <3>5. PositionFor(swap.instance, swap.mint)' = PositionFor(Serving, m)
        BY <3>1, <3>3 DEF PositionFor, OpenPositions
      <3>6. CoolingOff(swap.instance, swap.mint)' = CoolingOff(Serving, m)
        BY <3>1, <3>3 DEF CoolingOff, Within, Rows
      <3>7. QED
        BY <3>1, <3>2, <3>4, <3>5, <3>6 DEF SwapInv
    <2>3. CASE ~Reported(outcome)
      BY <1>4, <2>1, <2>3 DEF Enter, SwapInv
    <2>4. QED
      BY <2>2, <2>3
  <1>5. CASE Tick \/ WebEnqueue \/ WebWriteKill \/ WebQueueKill \/ WebDies \/ UNCHANGED vars
    <2>1. UNCHANGED <<positions, trades, swap, pc, book>>
          /\ (now' = now \/ now' = now + 1)
      BY <1>5 DEF Tick, WebEnqueue, WebWriteKill, WebQueueKill, WebDies, webUnchanged,
                 vars, Goto, memoryVars, outsideVars, historyVars, portfolioVars
    <2>2. QED
      BY <2>1, SwapKept
  <1>6. CASE Startup
    BY <1>6 DEF Startup, SwapInv, Goto
  <1>7. CASE Crash
    BY <1>7 DEF Crash, SwapInv, Goto
  <1>8. CASE Drain
    BY <1>8 DEF Drain, SwapInv, Goto
  <1>9. CASE HandleControl
    BY <1>9 DEF HandleControl, SwapInv, Goto
  <1>10. CASE HandleSetShadow
    BY <1>10 DEF HandleSetShadow, SwapInv, Goto
  <1>11. CASE Finish
    BY <1>11 DEF Finish, SwapInv, Goto
  <1>12. CASE CommandFails
    BY <1>12 DEF CommandFails, SwapInv, Goto
  <1>13. CASE BeginTick
    BY <1>13 DEF BeginTick, SwapInv, Goto
  <1>14. CASE ManageNext
    BY <1>14 DEF ManageNext, SwapInv, Goto, EndTick
  <1>15. CASE RiskDb
    BY <1>15 DEF RiskDb, SwapInv, Goto, AfterClose
  <1>16. CASE GatePass
    BY <1>16 DEF GatePass, SwapInv, Goto
  <1>17. CASE GateRefuse
    BY <1>17 DEF GateRefuse, SwapInv, Goto
  <1>18. CASE GateDone
    BY <1>18 DEF GateDone, SwapInv, Goto
  <1>19. CASE OpenDb
    BY <1>19 DEF OpenDb, SwapInv, Goto
  <1>20. CASE EndScan
    BY <1>20 DEF EndScan, SwapInv, Goto
  <1>21. CASE ServeBroad
    BY <1>21 DEF ServeBroad, SwapInv, Goto, EndTick
  <1>22. CASE Housekeeping
    BY <1>22 DEF Housekeeping, SwapInv, Goto, EndTick
  <1>23. CASE DbError
    BY <1>23 DEF DbError, SwapInv, Goto, EndTick
  <1>24. CASE FinishError \/ Abort
    BY <1>24 DEF FinishError, Abort, SwapInv, Goto, EndTick
  <1>25. QED
    BY <1>1, <1>2, <1>3, <1>4, <1>5, <1>6, <1>7, <1>8, <1>9, <1>10, <1>11, <1>12,
       <1>13, <1>14, <1>15, <1>16, <1>17, <1>18, <1>19, <1>20, <1>21, <1>22, <1>23, <1>24
       DEF Next, WorkerStep, Environment, Web

(* Every state of every run has the types its variables are declared with,  *)
(* and the control points hold what the code relies on between two steps:   *)
(* the instance served exists, a position waiting to be closed is still     *)
(* open and no longer queued for another exit, a fill waiting to be booked  *)
(* is for a token the book is flat in.                                      *)
THEOREM Invariance == Spec => []IInv
  <1>1. IInv /\ [Next]_vars => IInv'
    BY TypeStep, TurnStep, SnapshotStep, SwapStep DEF IInv
  <1>2. QED
    BY <1>1, InitLemma, PTL DEF Spec

(* Type correctness of the worker, its book, its switches and its queue.    *)
THEOREM TypeCorrect == Spec => []TypeOK
  <1>1. IInv => TypeOK
    BY DEF IInv
  <1>2. QED
    BY <1>1, Invariance, PTL

----------------------------------------------------------------------------
(* The command queue *)

LEMMA QueueFinish ==
    ASSUME QueueTypeOK, todo \subseteq DOMAIN commands, QueueInv,
           NEW c, NextCommand(c), NEW status \in {"done", "failed"},
           FinishCommand(c, status), todo' = todo \ {c}
    PROVE  QueueInv'
  <1>1. commands \in Seq(CommandRow) /\ c \in DOMAIN commands
    BY DEF QueueTypeOK, NextCommand
  <1>2. DOMAIN commands \subseteq Nat
    BY <1>1, LenProperties
  <1>3. /\ DOMAIN commands' = DOMAIN commands
        /\ \A d \in DOMAIN commands : d # c => commands'[d] = commands[d]
        /\ commands'[c].status = status
    BY <1>1, FinishCommandLemma
  <1>4. PendingCommands' = PendingCommands \ {c}
    BY <1>1, <1>3 DEF PendingCommands
  <1>5. todo' \subseteq PendingCommands'
        /\ \A e \in todo', d \in PendingCommands' \ todo' : e < d
    BY <1>4 DEF QueueInv
  <1>6. ASSUME NEW e \in DOMAIN commands, NEW d \in DOMAIN commands, e < d,
               commands'[d].status # "pending"
        PROVE  commands'[e].status # "pending"
    <2>1. CASE e = c
      BY <1>3, <2>1
    <2>2. CASE e # c /\ d # c
      BY <1>3, <1>6, <2>2 DEF QueueInv, CommandsInOrder
    <2>3. CASE e # c /\ d = c
      <3>1. e \notin todo
        BY <1>2, <1>6, <2>3 DEF NextCommand
      <3>2. c \in todo
        BY DEF NextCommand
      <3>3. e \notin PendingCommands
        BY <1>2, <1>6, <2>3, <3>1, <3>2 DEF QueueInv
      <3>4. QED
        BY <1>3, <2>3, <3>3 DEF PendingCommands
    <2>4. QED
      BY <2>1, <2>2, <2>3
  <1>7. QED
    BY <1>3, <1>5, <1>6 DEF QueueInv, CommandsInOrder

LEMMA QueueGrow ==
    ASSUME QueueTypeOK, todo \subseteq DOMAIN commands, QueueInv,
           NEW op \in Ops, NEW arg \in Nat, Enqueue(op, arg), UNCHANGED todo
    PROVE  QueueInv'
  <1>1. commands \in Seq(CommandRow)
    BY DEF QueueTypeOK
  <1>2. DOMAIN commands \subseteq Nat /\ Len(commands) \in Nat
    BY <1>1, LenProperties
  <1> DEFINE new == Len(commands) + 1
  <1>3. /\ DOMAIN commands' = DOMAIN commands \cup {new}
        /\ new \notin DOMAIN commands
        /\ \A d \in DOMAIN commands : commands'[d] = commands[d] /\ d < new
        /\ commands'[new].status = "pending"
    BY EnqueueLemma
  <1> HIDE DEF new
  <1>4. PendingCommands' = PendingCommands \cup {new}
    BY <1>3 DEF PendingCommands
  <1>5. todo' \subseteq PendingCommands'
        /\ \A e \in todo', d \in PendingCommands' \ todo' : e < d
    BY <1>3, <1>4 DEF QueueInv
  <1>6. ASSUME NEW e \in DOMAIN commands', NEW d \in DOMAIN commands', e < d,
               commands'[d].status # "pending"
        PROVE  commands'[e].status # "pending"
    <2>1. d \in DOMAIN commands
      BY <1>3, <1>6
    <2>2. e \in DOMAIN commands
      BY <1>2, <1>3, <1>6, <2>1 DEF new
    <2>3. QED
      BY <1>3, <1>6, <2>1, <2>2 DEF QueueInv, CommandsInOrder
  <1>7. QED
    BY <1>5, <1>6 DEF QueueInv, CommandsInOrder

LEMMA QueueStep == IInv /\ QueueInv /\ [Next]_vars => QueueInv'
  <1> SUFFICES ASSUME IInv, QueueInv, [Next]_vars
               PROVE  QueueInv'
    OBVIOUS
  <1>a. QueueTypeOK /\ todo \subseteq DOMAIN commands
    BY DEF IInv, TypeOK, WorkerTypeOK
  <1>1. CASE Drain
    <2>1. todo' = PendingCommands /\ UNCHANGED commands
      BY <1>1 DEF Drain
    <2>2. QED
      BY <2>1 DEF QueueInv, CommandsInOrder, PendingCommands
  <1>2. CASE Crash
    <2>1. todo' = {} /\ UNCHANGED commands
      BY <1>2 DEF Crash
    <2>2. QED
      BY <2>1 DEF QueueInv, CommandsInOrder
  <1>3. CASE Finish
    BY <1>3, <1>a, QueueFinish DEF Finish
  <1>4. CASE CommandFails
    BY <1>4, <1>a, QueueFinish DEF CommandFails
  <1>5. CASE DbError /\ swap.manual
    BY <1>5, <1>a, QueueFinish DEF DbError
  <1>6. CASE Housekeeping /\ ~UNCHANGED commands
    <2>1. shadow /\ Enqueue("set_shadow", 0) /\ UNCHANGED todo
      BY <1>6 DEF Housekeeping
    <2>2. "set_shadow" \in Ops
      BY <2>1 DEF IInv, TurnInv
    <2>3. QED
      BY <1>a, <2>1, <2>2, QueueGrow
  <1>7. CASE WebEnqueue
    <2>1. PICK op \in Ops, arg \in 0..MaxPositions : Enqueue(op, arg)
      BY <1>7 DEF WebEnqueue
    <2>2. arg \in Nat /\ UNCHANGED todo
      BY <1>7, WorkerAssumption DEF WebEnqueue, webUnchanged, memoryVars
    <2>3. QED
      BY <1>a, <2>1, <2>2, QueueGrow
  <1>8. CASE WebQueueKill
    <2>1. webPc \in Ops
      BY <1>8 DEF IInv, TypeOK, WebQueueKill, WorkerTypeOK
    <2>2. Enqueue(webPc, 0) /\ UNCHANGED todo
      BY <1>8 DEF WebQueueKill, webUnchanged, memoryVars
    <2>3. QED
      BY <1>a, <2>1, <2>2, QueueGrow
  <1>9. CASE UNCHANGED <<commands, todo>>
    BY <1>9 DEF QueueInv, CommandsInOrder, PendingCommands
  <1>b. CASE FinishError
    <2>1. CASE todo' = {} /\ UNCHANGED commands
      BY <2>1 DEF QueueInv, CommandsInOrder
    <2>2. CASE ~(todo' = {} /\ UNCHANGED commands)
      BY <1>a, <1>b, <2>2, QueueFinish DEF FinishError
    <2>3. QED
      BY <2>1, <2>2
  <1>10. \/ UNCHANGED <<commands, todo>>
         \/ Drain \/ Crash \/ Finish \/ CommandFails \/ (DbError /\ swap.manual)
         \/ (Housekeeping /\ ~UNCHANGED commands) \/ WebEnqueue \/ WebQueueKill
         \/ FinishError
    <2>1. CASE \/ Startup \/ HandleControl \/ HandleSetShadow \/ HandleManualClose
               \/ BeginTick \/ Exit \/ ManageNext \/ CloseDb \/ RiskDb
      BY <2>1 DEF Startup, HandleControl, HandleSetShadow, HandleManualClose, BeginTick,
                  Exit, ManageNext, CloseDb, RiskDb, memoryVars
    <2>2. CASE \/ GatePass \/ GateRefuse \/ GateDone \/ Enter \/ OpenDb \/ EndScan
               \/ ServeBroad \/ Housekeeping
      BY <2>2 DEF GatePass, GateRefuse, GateDone, Enter, OpenDb, EndScan, ServeBroad,
                  Housekeeping, memoryVars
    <2>3. CASE DbError \/ Abort \/ Tick \/ WebWriteKill \/ WebDies \/ UNCHANGED vars
      BY <2>3 DEF DbError, Abort, Tick, WebWriteKill, WebDies, webUnchanged, memoryVars, vars
    <2>4. QED
      BY <2>1, <2>2, <2>3 DEF Next, WorkerStep, Environment, Web
  <1>11. QED
    BY <1>1, <1>2, <1>3, <1>4, <1>5, <1>6, <1>7, <1>8, <1>9, <1>10, <1>b

(* Dashboard commands take effect in the order they were queued, through   *)
(* crashes that have one handled twice, failed handlers and commands the   *)
(* worker queues for itself (drain_commands, enqueue_command).             *)
THEOREM InOrder == Spec => []CommandsInOrder
  <1>1. Init => QueueInv
    BY DEF Init, QueueInit, QueueInv, CommandsInOrder, PendingCommands
  <1>2. QueueInv => CommandsInOrder
    BY DEF QueueInv
  <1>3. QED
    BY <1>1, <1>2, QueueStep, Invariance, PTL DEF Spec

----------------------------------------------------------------------------
(* The book *)

\* Two actions write the book, both for the worker's one thread.
LEMMA BookWriters ==
    ASSUME [Next]_vars
    PROVE  \/ OpenDb /\ UNCHANGED now
           \/ CloseDb /\ UNCHANGED now
           \/ UNCHANGED <<positions, balance>> /\ (UNCHANGED now \/ now' = now + 1)
  <1>1. CASE \/ Startup \/ Drain \/ HandleControl \/ HandleSetShadow \/ HandleManualClose
             \/ Finish \/ BeginTick \/ Exit \/ ManageNext \/ CloseDb \/ RiskDb
    BY <1>1 DEF Startup, Drain, HandleControl, HandleSetShadow, HandleManualClose, Finish,
                BeginTick, Exit, ManageNext, CloseDb, RiskDb, outsideVars, portfolioVars
  <1>2. CASE \/ GatePass \/ GateRefuse \/ GateDone \/ Enter \/ OpenDb \/ EndScan
             \/ ServeBroad \/ Housekeeping
    BY <1>2 DEF GatePass, GateRefuse, GateDone, Enter, OpenDb, EndScan, ServeBroad,
                Housekeeping, outsideVars, portfolioVars
  <1>3. CASE \/ Crash \/ CommandFails \/ DbError \/ FinishError \/ Abort \/ Tick \/ WebDies
             \/ Web \/ UNCHANGED vars
    BY <1>3 DEF Web, Crash, CommandFails, DbError, FinishError, Abort, Tick, WebDies,
                WebEnqueue, WebWriteKill, WebQueueKill, webUnchanged, outsideVars,
                portfolioVars, vars
  <1>4. QED
    BY <1>1, <1>2, <1>3 DEF Next, WorkerStep, Environment

\* What OpenDb finds and leaves.
LEMMA OpenDbLemma ==
    ASSUME IInv, OpenDb
    PROVE  /\ swap.instance \in Instances /\ swap.mint \in Mints
           /\ swap.usd \in Nat \ {0} /\ now \in Nat
           /\ OpenPosition(swap.instance, swap.mint, swap.usd, now)
           /\ PositionFor(swap.instance, swap.mint) = {}
           /\ \A q \in Rows(swap.instance, swap.mint) :
                 now - positions[q].entry_ts >= SameMintGap
           /\ DOMAIN positions' = DOMAIN positions \cup {Len(positions) + 1}
           /\ Len(positions) + 1 \notin DOMAIN positions
           /\ \A q \in DOMAIN positions :
                 positions'[q] = positions[q] /\ q < Len(positions) + 1
           /\ positions'[Len(positions) + 1]
                 = [instance |-> swap.instance, mint |-> swap.mint, status |-> "open",
                    size_usd |-> swap.usd, entry_ts |-> now]
  <1>1. PortfolioTypeOK /\ WorkerTypeOK /\ SwapInv
    BY DEF IInv, TypeOK
  <1>2. /\ swap \in Swaps /\ swap.side = "buy" /\ now \in Nat
        /\ swap.usd > 0
        /\ PositionFor(swap.instance, swap.mint) = {}
        /\ ~CoolingOff(swap.instance, swap.mint)
    BY <1>1 DEF OpenDb, SwapInv, WorkerTypeOK
  <1>3. swap.instance \in Instances /\ swap.mint \in Mints /\ swap.usd \in Nat
    BY <1>2 DEF Swaps
  <1>4. ASSUME NEW q \in Rows(swap.instance, swap.mint)
        PROVE  now - positions[q].entry_ts >= SameMintGap
    <2>1. positions \in Seq(PositionRow) /\ q \in DOMAIN positions
      BY <1>1 DEF PortfolioTypeOK, Rows
    <2>2. positions[q] \in PositionRow
      BY <2>1, LenProperties, ElementOfSeq
    <2>3. positions[q].entry_ts \in Nat /\ SameMintGap \in Nat
      BY <2>2, WorkerAssumption DEF PositionRow
    <2>4. ~(now - positions[q].entry_ts < SameMintGap)
      BY <1>2 DEF CoolingOff, Within
    <2>5. QED
      BY <1>2, <2>3, <2>4
  <1>5. OpenPosition(swap.instance, swap.mint, swap.usd, now)
    BY DEF OpenDb
  <1>6. /\ DOMAIN positions' = DOMAIN positions \cup {Len(positions) + 1}
        /\ Len(positions) + 1 \notin DOMAIN positions
        /\ \A q \in DOMAIN positions :
              positions'[q] = positions[q] /\ q < Len(positions) + 1
        /\ positions'[Len(positions) + 1]
              = [instance |-> swap.instance, mint |-> swap.mint, status |-> "open",
                 size_usd |-> swap.usd, entry_ts |-> now]
    <2> DEFINE i == swap.instance
               m == swap.mint
               usd == swap.usd
    <2>1. PortfolioTypeOK /\ i \in Instances /\ m \in Mints /\ usd \in Nat /\ now \in Nat
          /\ OpenPosition(i, m, usd, now)
      BY <1>1, <1>2, <1>3, <1>5
    <2> HIDE DEF i, m, usd
    <2>2. /\ DOMAIN positions' = DOMAIN positions \cup {Len(positions) + 1}
          /\ Len(positions) + 1 \notin DOMAIN positions
          /\ \A q \in DOMAIN positions :
                positions'[q] = positions[q] /\ q < Len(positions) + 1
          /\ positions'[Len(positions) + 1]
                = [instance |-> i, mint |-> m, status |-> "open", size_usd |-> usd,
                   entry_ts |-> now]
      BY <2>1, OpenPositionLemma
    <2>3. QED
      BY <2>2 DEF i, m, usd
  <1>7. QED
    BY <1>2, <1>3, <1>4, <1>5, <1>6

\* What CloseDb finds and leaves.
LEMMA CloseDbLemma ==
    ASSUME IInv, CloseDb
    PROVE  /\ swap.id \in DOMAIN positions /\ swap.usd \in Nat
           /\ positions[swap.id].status = "open"
           /\ positions[swap.id].instance \in Instances
           /\ positions[swap.id].mint \in Mints
           /\ ClosePosition(swap.id, swap.usd)
           /\ DOMAIN positions' = DOMAIN positions
           /\ \A q \in DOMAIN positions :
                 /\ q # swap.id => positions'[q] = positions[q]
                 /\ positions'[q].instance = positions[q].instance
                 /\ positions'[q].mint = positions[q].mint
                 /\ positions'[q].size_usd = positions[q].size_usd
                 /\ positions'[q].entry_ts = positions[q].entry_ts
           /\ positions'[swap.id].status = "closed"
  <1>1. PortfolioTypeOK /\ WorkerTypeOK /\ SwapInv
    BY DEF IInv, TypeOK
  <1>2. /\ swap \in Swaps /\ swap.side = "sell" /\ swap.id \in DOMAIN positions
        /\ positions[swap.id].status = "open"
    BY <1>1 DEF CloseDb, SwapInv, WorkerTypeOK
  <1>3. swap.usd \in Nat
    BY <1>2 DEF Swaps
  <1>4. positions[swap.id] \in PositionRow
    BY <1>1, <1>2, LenProperties, ElementOfSeq DEF PortfolioTypeOK
  <1>5. ClosePosition(swap.id, swap.usd)
    BY DEF CloseDb
  <1>6. QED
    BY <1>1, <1>2, <1>3, <1>4, <1>5, ClosePositionLemma DEF PositionRow

LEMMA BookStep == IInv /\ BookInv /\ [Next]_vars => BookInv'
  <1> SUFFICES ASSUME IInv, BookInv, [Next]_vars
               PROVE  BookInv'
    OBVIOUS
  <1>1. CASE OpenDb
    <2> DEFINE new == Len(positions) + 1
               i == swap.instance
               m == swap.mint
    <2>0. DOMAIN positions \subseteq Nat /\ Len(positions) \in Nat
      BY LenProperties DEF IInv, TypeOK, PortfolioTypeOK
    <2>1. /\ PositionFor(i, m) = {}
          /\ \A q \in Rows(i, m) : now - positions[q].entry_ts >= SameMintGap
          /\ DOMAIN positions' = DOMAIN positions \cup {new}
          /\ new \notin DOMAIN positions
          /\ \A q \in DOMAIN positions : positions'[q] = positions[q] /\ q < new
          /\ positions'[new].instance = i /\ positions'[new].mint = m
          /\ positions'[new].entry_ts = now
      BY <1>1, OpenDbLemma
    <2> HIDE DEF new
    <2>2. OneOpenPerMint'
      <3> SUFFICES ASSUME NEW j \in Instances, NEW k \in Mints,
                          NEW p \in PositionFor(j, k)', NEW q \in PositionFor(j, k)'
                   PROVE  p = q
        BY DEF OneOpenPerMint
      <3>1. CASE j = i /\ k = m
        <4>1. PositionFor(j, k)' \subseteq {new}
          BY <2>1, <3>1 DEF PositionFor, OpenPositions
        <4>2. QED
          BY <4>1
      <3>2. CASE ~(j = i /\ k = m)
        <4>1. PositionFor(j, k)' \subseteq PositionFor(j, k)
          BY <2>1, <3>2 DEF PositionFor, OpenPositions
        <4>2. QED
          BY <4>1 DEF BookInv, OneOpenPerMint
      <3>3. QED
        BY <3>1, <3>2
    <2>3. SameMintCooldown'
      <3> SUFFICES ASSUME NEW p \in DOMAIN positions', NEW q \in DOMAIN positions',
                          p < q,
                          positions'[p].instance = positions'[q].instance,
                          positions'[p].mint = positions'[q].mint
                   PROVE  positions'[q].entry_ts - positions'[p].entry_ts >= SameMintGap
        BY DEF SameMintCooldown
      <3>1. p \in DOMAIN positions
        BY <2>0, <2>1 DEF new
      <3>2. CASE q = new
        <4>1. p \in Rows(i, m)
          BY <2>1, <3>1, <3>2 DEF Rows
        <4>2. QED
          BY <2>1, <3>1, <3>2, <4>1
      <3>3. CASE q # new
        BY <2>1, <3>1, <3>3 DEF BookInv, SameMintCooldown
      <3>4. QED
        BY <3>2, <3>3
    <2>4. QED
      BY <2>2, <2>3 DEF BookInv
  <1>2. CASE CloseDb
    <2>1. /\ DOMAIN positions' = DOMAIN positions
          /\ positions'[swap.id].status = "closed"
          /\ \A q \in DOMAIN positions :
                /\ q # swap.id => positions'[q] = positions[q]
                /\ positions'[q].instance = positions[q].instance
                /\ positions'[q].mint = positions[q].mint
                /\ positions'[q].entry_ts = positions[q].entry_ts
      BY <1>2, CloseDbLemma
    <2>2. \A j \in Instances, k \in Mints : PositionFor(j, k)' \subseteq PositionFor(j, k)
      BY <2>1 DEF PositionFor, OpenPositions
    <2>3. QED
      BY <2>1, <2>2 DEF BookInv, OneOpenPerMint, SameMintCooldown
  <1>3. CASE UNCHANGED positions
    BY <1>3 DEF BookInv, OneOpenPerMint, SameMintCooldown, PositionFor, OpenPositions
  <1>4. QED
    BY <1>1, <1>2, <1>3, BookWriters

LEMMA BookInvariance == Spec => []BookInv
  <1>1. Init => BookInv
    BY DEF Init, PortfolioInit, BookInv, OneOpenPerMint, SameMintCooldown, PositionFor,
           OpenPositions
  <1>2. QED
    BY <1>1, BookStep, Invariance, PTL DEF Spec

(* No instance ever holds two open positions in one token, although no     *)
(* constraint of the schema forbids it (_entries_for_instance).            *)
THEOREM OnePosition == Spec => []OneOpenPerMint
  <1>1. BookInv => OneOpenPerMint
    BY DEF BookInv
  <1>2. QED
    BY <1>1, BookInvariance, PTL

(* No token is entered again before its cooldown has passed, on any tier   *)
(* and after any crash (_cooling_off).                                     *)
THEOREM Cooldown == Spec => []SameMintCooldown
  <1>1. BookInv => SameMintCooldown
    BY DEF BookInv
  <1>2. QED
    BY <1>1, BookInvariance, PTL

----------------------------------------------------------------------------
(* The switches *)

LEMMA PermitStep == IInv /\ PermitInv /\ [Next]_vars => PermitInv'
  <1> SUFFICES ASSUME IInv, PermitInv, [Next]_vars
               PROVE  PermitInv'
    OBVIOUS
  <1>1. CASE UNCHANGED <<pc, tier, run, halt, circuit, swap>>
    BY <1>1 DEF PermitInv
  <1>2. CASE BeginTick
    <2>1. /\ UNCHANGED <<run, halt>>
          /\ pc' \in {"Manage", "Broad"}
          /\ (tier' = "hot" \/ pc' = "Broad") => TradingEnabled
          /\ pc' = "Manage" => tier' \in {"halted", "hot"}
      BY <1>2 DEF BeginTick, Goto, controlVars
    <2>2. QED
      BY <2>1 DEF PermitInv, TradingEnabled
  <1>3. CASE Exit \/ HandleManualClose
    <2>1. UNCHANGED <<run, halt, tier>>
      BY <1>3 DEF Exit, HandleManualClose, controlVars
    <2>2. \/ pc = "Command" /\ pc' = "Finish"
          \/ pc' = "CloseDb" /\ swap'.manual = TRUE
          \/ pc = "Manage" /\ pc' = "Manage"
          \/ pc = "Manage" /\ pc' = "CloseDb" /\ swap'.manual = FALSE
      BY <1>3, SellFlow DEF IInv, TypeOK
    <2>3. QED
      BY <2>1, <2>2 DEF PermitInv
  <1>4. CASE CloseDb \/ RiskDb
    <2>1. /\ UNCHANGED <<run, halt, tier>>
          /\ pc \in {"CloseDb", "RiskDb"}
          /\ swap'.manual = swap.manual
          /\ \/ pc' = "RiskDb"
             \/ pc' = IF swap.manual THEN "Finish" ELSE "Manage"
      BY <1>4 DEF CloseDb, RiskDb, Goto, AfterClose, Settled, NoSwap, RecordTradeResult,
             controlVars, memoryVars
    <2>2. QED
      BY <2>1 DEF PermitInv
  <1>5. CASE ManageNext
    <2>1. /\ UNCHANGED <<run, halt, tier>>
          /\ pc = "Manage"
          /\ \/ pc' \in {"Manage", "Drain"}
             \/ tier = "hot" /\ pc' \in {"Gate", "Broad"}
          /\ pc' = "Drain" \/ UNCHANGED tier
      BY <1>5 DEF ManageNext, EndTick, Goto, controlVars
    <2>2. QED
      BY <2>1 DEF PermitInv
  <1>6. CASE GatePass
    <2>1. pc = "Gate" /\ pc' = "Scan" /\ ~circuit.tripped /\ UNCHANGED <<run, halt, circuit>>
      BY <1>6 DEF GatePass, CanOpenPosition, Goto, controlVars
    <2>2. QED
      BY <2>1 DEF PermitInv
  <1>7. CASE GateRefuse \/ GateDone \/ ServeBroad
    <2>1. /\ UNCHANGED <<run, halt>> /\ pc \in {"Gate", "Broad"}
          /\ pc' \in {"Gate", "Broad", "Housekeeping", "Drain"}
      BY <1>7 DEF GateRefuse, GateDone, ServeBroad, EndTick, Goto, controlVars
    <2>2. QED
      BY <2>1 DEF PermitInv
  <1>8. CASE Enter \/ OpenDb \/ EndScan
    <2>1. /\ UNCHANGED <<run, halt, circuit>> /\ pc \in {"Scan", "OpenDb"}
          /\ pc' \in {"Scan", "OpenDb", "Gate"}
      BY <1>8 DEF Enter, OpenDb, EndScan, Goto, controlVars
    <2>2. QED
      BY <2>1 DEF PermitInv
  <1>9. CASE pc' \in {"Down", "Drain", "Command", "Finish"}
    BY <1>9 DEF PermitInv
  <1>10. \/ UNCHANGED <<pc, tier, run, halt, circuit, swap>>
         \/ BeginTick \/ Exit \/ HandleManualClose \/ CloseDb \/ RiskDb \/ ManageNext
         \/ GatePass \/ GateRefuse \/ GateDone \/ ServeBroad \/ Enter \/ OpenDb \/ EndScan
         \/ pc' \in {"Down", "Drain", "Command", "Finish"}
    BY DEF Next, WorkerStep, Environment, Web, Startup, Crash, Drain, HandleControl,
           HandleSetShadow, Finish, CommandFails, Housekeeping, DbError, FinishError, Abort,
           EndTick, Tick,
           WebEnqueue, WebWriteKill, WebQueueKill, WebDies, WriteKill, SetKill, Goto,
           webUnchanged, memoryVars, controlVars, vars
  <1>11. QED
    BY <1>1, <1>2, <1>3, <1>4, <1>5, <1>6, <1>7, <1>8, <1>9, <1>10

LEMMA PermitInvariance == Spec => []PermitInv
  <1>1. Init => PermitInv
    BY DEF Init, PermitInv
  <1>2. QED
    BY <1>1, PermitStep, Invariance, PTL DEF Spec

(* No order is sent while the bot is stopped, a reconciliation halt is in  *)
(* force or the breaker has tripped, although those switches are read at   *)
(* the top of the tick or scan (tick, _entries_for_instance).              *)
THEOREM Permitted == Spec => EntriesPermitted
  <1>1. PermitInv /\ [Next]_vars => [OrderSent => run /\ ~halt /\ ~circuit.tripped]_vars
    BY DEF PermitInv, OrderSent
  <1>2. QED
    BY <1>1, PermitInvariance, PTL DEF Spec, EntriesPermitted

\* The candidates that one scan may still enter.
Pending == IF pc \in {"Scan", "OpenDb"} THEN Cardinality(cands) ELSE 0

LEMMA PendingLemma ==
    ASSUME WorkerTypeOK
    PROVE  /\ IsFiniteSet(cands)
           /\ Pending \in Nat /\ Cardinality(Mints) \in Nat
           /\ Pending <= Cardinality(Mints)
  <1>1. cands \subseteq Mints
    BY DEF WorkerTypeOK
  <1>2. IsFiniteSet(cands) /\ Cardinality(cands) <= Cardinality(Mints)
    BY <1>1, MintsAssumption, FS_Subset
  <1>3. Cardinality(cands) \in Nat /\ Cardinality(Mints) \in Nat
    BY <1>2, MintsAssumption, FS_CardinalityType
  <1>4. QED
    BY <1>2, <1>3 DEF Pending

LEMMA LateStep == IInv /\ LateEntriesBounded /\ [Next]_vars => LateEntriesBounded'
  <1> SUFFICES ASSUME IInv, LateEntriesBounded, [Next]_vars
               PROVE  LateEntriesBounded'
    OBVIOUS
  <1>a. WorkerTypeOK /\ kill \in BOOLEAN /\ late \in Nat
    BY DEF IInv, TypeOK, WorkerTypeOK, ControlsTypeOK
  <1>b. IsFiniteSet(cands) /\ Pending \in Nat /\ Cardinality(Mints) \in Nat
        /\ Pending <= Cardinality(Mints)
    BY <1>a, PendingLemma
  <1>c. kill => late + Pending <= Cardinality(Mints)
    BY DEF LateEntriesBounded, Pending
  <1>d. ASSUME kill' => late' + Pending' <= Cardinality(Mints)
        PROVE  LateEntriesBounded'
    BY <1>d DEF LateEntriesBounded, Pending
  <1>1. CASE WebWriteKill \/ HandleControl
    <2>1. /\ pc' \in {"Scan", "OpenDb"} => pc' = pc
          /\ UNCHANGED cands
          /\ \/ UNCHANGED <<kill, late>>
             \/ WriteKill(TRUE)
             \/ WriteKill(FALSE)
      BY <1>1, Zenon DEF WebWriteKill, HandleControl, SetRun, ResetCircuit, SetHalt, Goto,
             webUnchanged, memoryVars
    <2>2. Pending' = Pending \/ Pending' = 0
      BY <2>1 DEF Pending
    <2>3. CASE UNCHANGED <<kill, late>>
      BY <1>a, <1>b, <1>c, <1>d, <2>2, <2>3
    <2>4. CASE WriteKill(TRUE)
      <3>1. (late' = late /\ kill) \/ late' = 0
        BY <1>a, <2>4 DEF WriteKill
      <3>2. QED
        BY <1>a, <1>b, <1>c, <1>d, <2>2, <3>1
    <2>5. CASE WriteKill(FALSE)
      <3>1. ~kill'
        BY <2>5 DEF WriteKill, SetKill
      <3>2. QED
        BY <1>d, <3>1
    <2>6. QED
      BY <2>1, <2>3, <2>4, <2>5
  <1>2. CASE Enter
    <2>1. PICK m \in cands : cands' = cands \ {m}
      BY <1>2 DEF Enter, Candidate
    <2>2. pc = "Scan" /\ UNCHANGED kill /\ late' = IF kill THEN late + 1 ELSE late
      BY <1>2 DEF Enter, controlVars
    <2>3. Cardinality(cands') = Cardinality(cands) - 1 /\ Cardinality(cands) \in Nat
      BY <1>b, <2>1, FS_RemoveElement, FS_CardinalityType
    <2>4. pc' \in {"Scan", "OpenDb"}
      BY <1>2, <2>2 DEF Enter, Goto
    <2>5. Pending' = Pending - 1
      BY <2>2, <2>3, <2>4 DEF Pending
    <2>6. QED
      BY <1>a, <1>b, <1>c, <1>d, <2>2, <2>5
  <1>3. CASE GatePass
    <2>1. ~kill'
      BY <1>3 DEF GatePass, CanOpenPosition, controlVars
    <2>2. QED
      BY <1>d, <2>1
  <1>4. CASE /\ UNCHANGED <<kill, late>>
             /\ \/ pc' \notin {"Scan", "OpenDb"}
                \/ pc \in {"Scan", "OpenDb"} /\ UNCHANGED cands
    <2>1. Pending' = Pending \/ Pending' = 0
      BY <1>4 DEF Pending
    <2>2. QED
      BY <1>4, <1>a, <1>b, <1>c, <1>d, <2>1
  <1>5. \/ WebWriteKill \/ HandleControl \/ Enter \/ GatePass
        \/ /\ UNCHANGED <<kill, late>>
           /\ \/ pc' \notin {"Scan", "OpenDb"}
              \/ pc \in {"Scan", "OpenDb"} /\ UNCHANGED cands
    <2>1. CASE Exit \/ HandleManualClose
      <3>1. UNCHANGED <<kill, late>>
        BY <2>1 DEF Exit, HandleManualClose, controlVars
      <3>2. pc' \notin {"Scan", "OpenDb"}
        BY <2>1, SellFlow DEF IInv, TypeOK
      <3>3. QED
        BY <3>1, <3>2
    <2>2. CASE ~(Exit \/ HandleManualClose)
      BY <2>2 DEF Next, WorkerStep, Environment, Web, Startup, Crash, Drain, HandleSetShadow,
           Finish, CommandFails, BeginTick, ManageNext, CloseDb, RiskDb, GateRefuse,
           GateDone, OpenDb, EndScan, ServeBroad, Housekeeping, DbError, FinishError, Abort, EndTick, Tick,
           WebEnqueue, WebQueueKill, WebDies, SetHalt, RecordTradeResult, CheckDailyDrawdown,
           AfterClose, Goto, webUnchanged, memoryVars, controlVars, outsideVars, historyVars,
           vars
    <2>3. QED
      BY <2>1, <2>2
  <1>6. QED
    BY <1>1, <1>2, <1>3, <1>4, <1>5

(* After the kill switch is engaged, by the dashboard or by a command, at  *)
(* most the candidates of the scan in progress still lead to an order      *)
(* (look_for_entries reads the switch once).                               *)
THEOREM LateBound == Spec => []LateEntriesBounded
  <1>1. Init => LateEntriesBounded
    BY DEF Init, ControlsInit, LateEntriesBounded
  <1>2. QED
    BY <1>1, LateStep, Invariance, PTL DEF Spec

----------------------------------------------------------------------------
(* The ledger *)

LEMMA BookTypes ==
    ASSUME PortfolioTypeOK
    PROVE  /\ IsFiniteSet(DOMAIN positions) /\ IsFiniteSet(DOMAIN trades)
           /\ DOMAIN positions \subseteq Nat /\ DOMAIN trades \subseteq Nat
           /\ Len(positions) \in Nat /\ Len(trades) \in Nat
           /\ \A p \in DOMAIN positions : positions[p] \in PositionRow
           /\ \A t \in DOMAIN trades : trades[t] \in TradeRow
  <1>1. positions \in Seq(PositionRow) /\ trades \in Seq(TradeRow)
    BY DEF PortfolioTypeOK
  <1>2. /\ Len(positions) \in Nat /\ DOMAIN positions = 1..Len(positions)
        /\ Len(trades) \in Nat /\ DOMAIN trades = 1..Len(trades)
    BY <1>1, LenProperties
  <1>3. IsFiniteSet(1..Len(positions)) /\ IsFiniteSet(1..Len(trades))
    BY <1>2, FS_Interval
  <1>4. QED
    BY <1>1, <1>2, <1>3, ElementOfSeq

\* The columns the two sums of the ledger add up.
SizeColumn == [p \in DOMAIN positions |-> positions[p].size_usd]
PnlColumn == [t \in DOMAIN trades |-> trades[t].pnl_usd]

LEMMA ColumnsLemma ==
    ASSUME NEW i \in Instances
    PROVE  /\ DeployedUsd(i) = SumFunctionOnSet(SizeColumn, OpenPositions(i))
           /\ RealizedUsd(i) = SumFunctionOnSet(PnlColumn, Journalled(i))
           /\ DeployedUsd(i)' = SumFunctionOnSet(SizeColumn', OpenPositions(i)')
           /\ RealizedUsd(i)' = SumFunctionOnSet(PnlColumn', Journalled(i)')
  BY DEF DeployedUsd, SumSizes, RealizedUsd, SizeColumn, PnlColumn

LEMMA LedgerTypes ==
    ASSUME PortfolioTypeOK, NEW i \in Instances
    PROVE  /\ IsFiniteSet(OpenPositions(i)) /\ IsFiniteSet(Journalled(i))
           /\ \A p \in OpenPositions(i) : SizeColumn[p] \in Nat
           /\ \A t \in Journalled(i) : PnlColumn[t] \in Int
           /\ DeployedUsd(i) \in Nat /\ RealizedUsd(i) \in Int /\ balance[i] \in Int
  <1>1. IsFiniteSet(OpenPositions(i)) /\ IsFiniteSet(Journalled(i))
    BY BookTypes, FS_Subset DEF OpenPositions, Journalled
  <1>2. /\ \A p \in OpenPositions(i) : SizeColumn[p] \in Nat
        /\ \A t \in Journalled(i) : PnlColumn[t] \in Int
    BY BookTypes DEF OpenPositions, Journalled, SizeColumn, PnlColumn, PositionRow, TradeRow
  <1>3. SumFunctionOnSet(SizeColumn, OpenPositions(i)) \in Nat
    BY <1>1, <1>2, SumNat
  <1>4. SumFunctionOnSet(PnlColumn, Journalled(i)) \in Int
    BY <1>1, <1>2, SumFacts
  <1>5. QED
    BY <1>1, <1>2, <1>3, <1>4, ColumnsLemma DEF PortfolioTypeOK

\* Recording a buy deploys what it takes from the cash.
LEMMA OpenDeploys ==
    ASSUME IInv, OpenDb
    PROVE  /\ UNCHANGED trades
           /\ \A i \in Instances :
                 IF i = swap.instance
                 THEN /\ DeployedUsd(i)' = DeployedUsd(i) + swap.usd
                      /\ balance'[i] = balance[i] - swap.usd
                 ELSE /\ DeployedUsd(i)' = DeployedUsd(i)
                      /\ balance'[i] = balance[i]
  <1> DEFINE new == Len(positions) + 1
  <1>1. PortfolioTypeOK
    BY DEF IInv, TypeOK
  <1>2. /\ swap.instance \in Instances /\ swap.usd \in Nat
        /\ OpenPosition(swap.instance, swap.mint, swap.usd, now)
        /\ DOMAIN positions' = DOMAIN positions \cup {new}
        /\ new \notin DOMAIN positions
        /\ \A q \in DOMAIN positions : positions'[q] = positions[q]
        /\ positions'[new].instance = swap.instance
        /\ positions'[new].status = "open"
        /\ positions'[new].size_usd = swap.usd
    BY OpenDbLemma
  <1> HIDE DEF new
  <1>3. UNCHANGED trades /\ balance' = [balance EXCEPT ![swap.instance] = @ - swap.usd]
    BY <1>2 DEF OpenPosition
  <1>4. ASSUME NEW i \in Instances
        PROVE  DeployedUsd(i)' = DeployedUsd(i) + IF i = swap.instance THEN swap.usd ELSE 0
    <2>1. /\ IsFiniteSet(OpenPositions(i)) /\ DeployedUsd(i) \in Nat
          /\ \A p \in OpenPositions(i) : SizeColumn[p] \in Int
      BY <1>1, LedgerTypes
    <2>2. \A p \in OpenPositions(i) : SizeColumn'[p] = SizeColumn[p]
      BY <1>2 DEF SizeColumn, OpenPositions
    <2>3. CASE i = swap.instance
      <3>1. OpenPositions(i)' = OpenPositions(i) \cup {new} /\ new \notin OpenPositions(i)
        BY <1>2, <2>3 DEF OpenPositions
      <3>2. SizeColumn'[new] = swap.usd
        BY <1>2 DEF SizeColumn
      <3>3. SumFunctionOnSet(SizeColumn', OpenPositions(i) \cup {new})
               = swap.usd + SumFunctionOnSet(SizeColumn, OpenPositions(i))
        BY <1>2, <2>1, <2>2, <3>1, <3>2, SumAdd
      <3>4. DeployedUsd(i)' = swap.usd + DeployedUsd(i)
        BY <3>1, <3>3, ColumnsLemma
      <3>5. QED
        BY <1>2, <2>1, <2>3, <3>4
    <2>4. CASE i # swap.instance
      <3>1. OpenPositions(i)' = OpenPositions(i)
        BY <1>2, <2>4 DEF OpenPositions
      <3>2. SumFunctionOnSet(SizeColumn', OpenPositions(i))
               = SumFunctionOnSet(SizeColumn, OpenPositions(i))
        BY <2>1, <2>2, SumAgree
      <3>3. QED
        BY <2>1, <2>4, <3>1, <3>2, ColumnsLemma
    <2>5. QED
      BY <2>3, <2>4
  <1>5. \A i \in Instances : balance[i] \in Int /\ DeployedUsd(i) \in Nat
    BY <1>1, LedgerTypes
  <1>6. balance \in [Instances -> Int]
    BY <1>1 DEF PortfolioTypeOK
  <1>7. QED
    BY <1>2, <1>3, <1>4, <1>5, <1>6

\* Recording a sale journals one trade.
LEMMA CloseJournals ==
    ASSUME IInv, CloseDb
    PROVE  /\ trades \in Seq(TradeRow) /\ trades' \in Seq(TradeRow)
           /\ DOMAIN trades' = DOMAIN trades \cup {Len(trades) + 1}
           /\ Len(trades) + 1 \notin DOMAIN trades /\ Len(trades') = Len(trades) + 1
           /\ \A t \in DOMAIN trades : trades'[t] = trades[t] /\ t < Len(trades) + 1
           /\ trades'[Len(trades) + 1].position_id = swap.id
           /\ trades'[Len(trades) + 1].instance = positions[swap.id].instance
           /\ trades'[Len(trades) + 1].pnl_usd = swap.usd - positions[swap.id].size_usd
  <1> DEFINE row == positions[swap.id]
             trade == [position_id |-> swap.id, instance |-> row.instance,
                       pnl_usd |-> swap.usd - row.size_usd]
  <1>1. PortfolioTypeOK
    BY DEF IInv, TypeOK
  <1>2. /\ swap.id \in DOMAIN positions /\ swap.usd \in Nat
        /\ ClosePosition(swap.id, swap.usd)
    BY CloseDbLemma
  <1>3. row \in PositionRow /\ swap.id \in Nat
    BY <1>1, <1>2, BookTypes
  <1> HIDE DEF row
  <1>4. trades \in Seq(TradeRow) /\ trade \in TradeRow
    <2>1. trades \in Seq(TradeRow)
      BY <1>1 DEF PortfolioTypeOK
    <2>2. row.instance \in Instances /\ row.size_usd \in Nat
      BY <1>3 DEF PositionRow
    <2>3. swap.usd - row.size_usd \in Int
      BY <1>2, <2>2
    <2>4. trade \in TradeRow
      BY <1>3, <2>2, <2>3 DEF TradeRow
    <2>5. QED
      BY <2>1, <2>4
  <1>5. trades' = Append(trades, trade)
    BY <1>2 DEF ClosePosition, row
  <1>6. /\ trade.position_id = swap.id /\ trade.instance = row.instance
        /\ trade.pnl_usd = swap.usd - row.size_usd
    OBVIOUS
  <1> HIDE DEF trade
  <1>7. /\ trades' \in Seq(TradeRow)
        /\ DOMAIN trades' = DOMAIN trades \cup {Len(trades) + 1}
        /\ Len(trades) + 1 \notin DOMAIN trades
        /\ \A t \in DOMAIN trades : trades'[t] = trades[t] /\ t < Len(trades) + 1
        /\ trades'[Len(trades) + 1] = trade
    BY <1>4, <1>5, AppendLemma
  <1>8. Len(trades') = Len(trades) + 1
    BY <1>4, <1>5, AppendProperties
  <1>9. QED
    BY <1>4, <1>6, <1>7, <1>8 DEF row

\* Recording a sale settles one stake.
LEMMA CloseSettles ==
    ASSUME IInv, CloseDb, NEW owner, owner = positions[swap.id].instance,
           NEW stake, stake = positions[swap.id].size_usd
    PROVE  /\ owner \in Instances /\ stake \in Nat /\ swap.usd \in Nat
           /\ \A i \in Instances :
                 IF i = owner
                 THEN /\ DeployedUsd(i)' = DeployedUsd(i) - stake
                      /\ balance'[i] = balance[i] + swap.usd
                      /\ RealizedUsd(i)' = RealizedUsd(i) + (swap.usd - stake)
                 ELSE /\ DeployedUsd(i)' = DeployedUsd(i)
                      /\ balance'[i] = balance[i]
                      /\ RealizedUsd(i)' = RealizedUsd(i)
  <1> DEFINE new == Len(trades) + 1
  <1>1. PortfolioTypeOK
    BY DEF IInv, TypeOK
  <1>2. /\ swap.id \in DOMAIN positions /\ swap.usd \in Nat
        /\ positions[swap.id].status = "open"
        /\ ClosePosition(swap.id, swap.usd)
        /\ DOMAIN positions' = DOMAIN positions
        /\ \A q \in DOMAIN positions :
              /\ q # swap.id => positions'[q] = positions[q]
              /\ positions'[q].instance = positions[q].instance
              /\ positions'[q].size_usd = positions[q].size_usd
        /\ positions'[swap.id].status = "closed"
    BY CloseDbLemma
  <1>3. owner \in Instances /\ stake \in Nat /\ swap.id \in Nat
    BY <1>1, <1>2, BookTypes DEF PositionRow
  <1>4. balance' = [balance EXCEPT ![owner] = @ + swap.usd]
    BY <1>2 DEF ClosePosition
  <1>5. /\ DOMAIN trades' = DOMAIN trades \cup {new} /\ new \notin DOMAIN trades
        /\ \A t \in DOMAIN trades : trades'[t] = trades[t]
        /\ trades'[new].instance = owner
        /\ trades'[new].pnl_usd = swap.usd - stake
    BY CloseJournals
  <1> HIDE DEF new
  <1>6. ASSUME NEW i \in Instances
        PROVE  DeployedUsd(i)' = DeployedUsd(i) - IF i = owner THEN stake ELSE 0
    <2>1. /\ IsFiniteSet(OpenPositions(i)) /\ DeployedUsd(i) \in Nat
          /\ \A p \in OpenPositions(i) : SizeColumn[p] \in Int
      BY <1>1, LedgerTypes
    <2>2. \A p \in OpenPositions(i) : SizeColumn'[p] = SizeColumn[p]
      BY <1>2 DEF SizeColumn, OpenPositions
    <2>3. CASE i = owner
      <3>1. OpenPositions(i)' = OpenPositions(i) \ {swap.id} /\ swap.id \in OpenPositions(i)
        BY <1>2, <2>3 DEF OpenPositions
      <3> DEFINE rest == OpenPositions(i) \ {swap.id}
      <3>2. IsFiniteSet(rest) /\ rest \subseteq OpenPositions(i)
        BY <2>1, FS_Subset
      <3>3. SumFunctionOnSet(SizeColumn, OpenPositions(i))
               = SizeColumn[swap.id] + SumFunctionOnSet(SizeColumn, rest)
        BY <2>1, <3>1, SumFacts
      <3>4. SumFunctionOnSet(SizeColumn', rest) = SumFunctionOnSet(SizeColumn, rest)
        BY <2>2, <3>2, SumAgree
      <3>5. SumFunctionOnSet(SizeColumn, rest) \in Int
        BY <2>1, <3>2, SumFacts
      <3>6. SizeColumn[swap.id] = stake
        BY <1>2 DEF SizeColumn
      <3>7. DeployedUsd(i) = stake + SumFunctionOnSet(SizeColumn, rest)
            /\ DeployedUsd(i)' = SumFunctionOnSet(SizeColumn, rest)
        BY <3>1, <3>3, <3>4, <3>6, ColumnsLemma
      <3> HIDE DEF rest
      <3>8. QED
        BY <1>3, <2>3, <3>5, <3>7
    <2>4. CASE i # owner
      <3>1. OpenPositions(i)' = OpenPositions(i)
        BY <1>2, <2>4 DEF OpenPositions
      <3>2. SumFunctionOnSet(SizeColumn', OpenPositions(i))
               = SumFunctionOnSet(SizeColumn, OpenPositions(i))
        BY <2>1, <2>2, SumAgree
      <3>3. QED
        BY <2>1, <2>4, <3>1, <3>2, ColumnsLemma
    <2>5. QED
      BY <2>3, <2>4
  <1>7. ASSUME NEW i \in Instances
        PROVE  RealizedUsd(i)' = RealizedUsd(i) + IF i = owner THEN swap.usd - stake ELSE 0
    <2>1. /\ IsFiniteSet(Journalled(i)) /\ RealizedUsd(i) \in Int
          /\ \A t \in Journalled(i) : PnlColumn[t] \in Int
      BY <1>1, LedgerTypes
    <2>2. \A t \in Journalled(i) : PnlColumn'[t] = PnlColumn[t]
      BY <1>5 DEF PnlColumn, Journalled
    <2>3. CASE i = owner
      <3>1. Journalled(i)' = Journalled(i) \cup {new} /\ new \notin Journalled(i)
        BY <1>5, <2>3 DEF Journalled
      <3>2. PnlColumn'[new] = swap.usd - stake
        BY <1>5 DEF PnlColumn
      <3>3. SumFunctionOnSet(PnlColumn', Journalled(i) \cup {new})
               = PnlColumn'[new] + SumFunctionOnSet(PnlColumn, Journalled(i))
        <4>1. PnlColumn'[new] \in Int
          BY <1>2, <1>3, <3>2
        <4>2. QED
          BY <2>1, <2>2, <3>1, <4>1, SumAdd
      <3>4. RealizedUsd(i)' = (swap.usd - stake) + RealizedUsd(i)
        BY <3>1, <3>2, <3>3, ColumnsLemma
      <3>5. swap.usd - stake \in Int
        BY <1>2, <1>3
      <3>6. QED
        BY <2>1, <2>3, <3>4, <3>5
    <2>4. CASE i # owner
      <3>1. Journalled(i)' = Journalled(i)
        BY <1>5, <2>4 DEF Journalled
      <3>2. SumFunctionOnSet(PnlColumn', Journalled(i))
               = SumFunctionOnSet(PnlColumn, Journalled(i))
        BY <2>1, <2>2, SumAgree
      <3>3. QED
        BY <2>1, <2>4, <3>1, <3>2, ColumnsLemma
    <2>5. QED
      BY <2>3, <2>4
  <1>8. \A i \in Instances : /\ balance[i] \in Int /\ DeployedUsd(i) \in Nat
                             /\ RealizedUsd(i) \in Int
    BY <1>1, LedgerTypes
  <1>9. balance \in [Instances -> Int]
    BY <1>1 DEF PortfolioTypeOK
  <1>10. \A i \in Instances :
            IF i = owner
            THEN /\ DeployedUsd(i)' = DeployedUsd(i) - stake
                 /\ balance'[i] = balance[i] + swap.usd
                 /\ RealizedUsd(i)' = RealizedUsd(i) + (swap.usd - stake)
            ELSE /\ DeployedUsd(i)' = DeployedUsd(i)
                 /\ balance'[i] = balance[i]
                 /\ RealizedUsd(i)' = RealizedUsd(i)
    BY <1>3, <1>4, <1>6, <1>7, <1>8, <1>9
  <1>11. QED
    BY <1>2, <1>3, <1>10

\* Nothing else writes the book or the journal.
LEMMA JournalWriters ==
    ASSUME [Next]_vars
    PROVE  OpenDb \/ CloseDb \/ UNCHANGED portfolioVars
  BY DEF Next, WorkerStep, Environment, Web, Startup, Crash, Drain, HandleControl,
         HandleSetShadow, HandleManualClose, Finish, CommandFails, BeginTick, Exit,
         ManageNext, RiskDb, GatePass, GateRefuse, GateDone, Enter, EndScan, ServeBroad,
         Housekeeping, DbError, FinishError, Abort, Tick, WebEnqueue, WebWriteKill,
         WebQueueKill, WebDies, webUnchanged, portfolioVars, vars

LEMMA LedgerStep == IInv /\ LedgerBalances /\ [Next]_vars => LedgerBalances'
  <1> SUFFICES ASSUME IInv, LedgerBalances, [Next]_vars, NEW i \in Instances
               PROVE  balance'[i] = StartBalance - DeployedUsd(i)' + RealizedUsd(i)'
    BY DEF LedgerBalances
  <1>1. /\ balance[i] = StartBalance - DeployedUsd(i) + RealizedUsd(i)
        /\ balance[i] \in Int /\ DeployedUsd(i) \in Nat /\ RealizedUsd(i) \in Int
        /\ StartBalance \in Nat
    BY LedgerTypes, StartBalanceAssumption DEF IInv, TypeOK, LedgerBalances
  <1>2. CASE OpenDb
    <2>1. RealizedUsd(i)' = RealizedUsd(i)
      BY <1>2, OpenDeploys DEF RealizedUsd, Journalled
    <2>2. swap.usd \in Nat
      BY <1>2, OpenDbLemma
    <2>3. QED
      BY <1>1, <1>2, <2>1, <2>2, OpenDeploys
  <1>3. CASE CloseDb
    <2> DEFINE owner == positions[swap.id].instance
               stake == positions[swap.id].size_usd
    <2>1. /\ stake \in Nat /\ swap.usd \in Nat
          /\ IF i = owner
             THEN /\ DeployedUsd(i)' = DeployedUsd(i) - stake
                  /\ balance'[i] = balance[i] + swap.usd
                  /\ RealizedUsd(i)' = RealizedUsd(i) + (swap.usd - stake)
             ELSE /\ DeployedUsd(i)' = DeployedUsd(i)
                  /\ balance'[i] = balance[i]
                  /\ RealizedUsd(i)' = RealizedUsd(i)
      BY <1>3, CloseSettles
    <2> HIDE DEF owner, stake
    <2>2. QED
      BY <1>1, <2>1
  <1>4. CASE UNCHANGED portfolioVars
    BY <1>1, <1>4 DEF portfolioVars, DeployedUsd, SumSizes, OpenPositions, RealizedUsd, Journalled
  <1>5. QED
    BY <1>2, <1>3, <1>4, JournalWriters

(* No money appears or disappears: through every open, close, manual       *)
(* close, failed write, crash and restart the free cash of each instance   *)
(* is its starting balance, less what is deployed, plus what its           *)
(* journalled trades made (Portfolio.open_position, close_position).       *)
THEOREM Conservation == Spec => []LedgerBalances
  <1>1. Init => LedgerBalances
    <2> SUFFICES ASSUME Init, NEW i \in Instances
                 PROVE  balance[i] = StartBalance - DeployedUsd(i) + RealizedUsd(i)
      BY DEF LedgerBalances
    <2>1. OpenPositions(i) = {} /\ Journalled(i) = {} /\ balance[i] = StartBalance
      BY DEF Init, PortfolioInit, OpenPositions, Journalled
    <2>2. DeployedUsd(i) = 0 /\ RealizedUsd(i) = 0
      BY <2>1, ColumnsLemma, SumEmpty
    <2>3. QED
      BY <2>1, <2>2, StartBalanceAssumption
  <1>2. QED
    BY <1>1, LedgerStep, Invariance, PTL DEF Spec

\* The journal rows of one position.
RowsOf(p) == {t \in DOMAIN trades : trades[t].position_id = p}

LEMMA JournalStep == IInv /\ JournalInv /\ [Next]_vars => JournalInv'
  <1> SUFFICES ASSUME IInv, JournalInv, [Next]_vars
               PROVE  JournalInv'
    OBVIOUS
  <1>1. PortfolioTypeOK
    BY DEF IInv, TypeOK
  <1>2. \A p : IsFiniteSet(RowsOf(p))
    BY <1>1, BookTypes, FS_Subset DEF RowsOf
  <1>3. /\ \A p \in DOMAIN positions :
              Cardinality(RowsOf(p)) = IF positions[p].status = "closed" THEN 1 ELSE 0
        /\ \A t \in DOMAIN trades : trades[t].position_id \in DOMAIN positions
    BY DEF JournalInv, JournalMatchesBook, RowsOf
  <1>4. CASE OpenDb
    <2> DEFINE new == Len(positions) + 1
    <2>1. /\ DOMAIN positions' = DOMAIN positions \cup {new}
          /\ new \notin DOMAIN positions
          /\ \A q \in DOMAIN positions : positions'[q] = positions[q]
          /\ positions'[new].status = "open"
          /\ UNCHANGED trades
      BY <1>4, OpenDbLemma, OpenDeploys
    <2> HIDE DEF new
    <2>2. RowsOf(new) = {} /\ \A p : RowsOf(p)' = RowsOf(p)
      BY <1>3, <2>1 DEF RowsOf
    <2>3. \A p \in DOMAIN positions' :
             Cardinality(RowsOf(p)') = IF positions'[p].status = "closed" THEN 1 ELSE 0
      BY <1>3, <2>1, <2>2, FS_EmptySet
    <2>4. QED
      BY <1>3, <2>1, <2>3 DEF JournalInv, JournalMatchesBook, RowsOf
  <1>5. CASE CloseDb
    <2> DEFINE new == Len(trades) + 1
    <2>0. PICK s : s = swap.id
      OBVIOUS
    <2>1. /\ s \in DOMAIN positions
          /\ positions[s].status = "open"
          /\ DOMAIN positions' = DOMAIN positions
          /\ \A q \in DOMAIN positions : q # s => positions'[q] = positions[q]
          /\ positions'[s].status = "closed"
      BY <1>5, <2>0, CloseDbLemma
    <2>2. /\ DOMAIN trades' = DOMAIN trades \cup {new} /\ new \notin DOMAIN trades
          /\ \A t \in DOMAIN trades : trades'[t] = trades[t]
          /\ trades'[new].position_id = s
      BY <1>5, <2>0, CloseJournals
    <2> HIDE DEF new
    <2>3. /\ RowsOf(s)' = RowsOf(s) \cup {new} /\ new \notin RowsOf(s)
          /\ \A p : p # s => RowsOf(p)' = RowsOf(p)
      BY <2>2 DEF RowsOf
    <2>4. Cardinality(RowsOf(s)') = 1
      <3>1. Cardinality(RowsOf(s)) = 0
        BY <1>3, <2>1
      <3>2. QED
        BY <1>2, <2>3, <3>1, FS_AddElement
    <2>5. \A p \in DOMAIN positions' :
             Cardinality(RowsOf(p)') = IF positions'[p].status = "closed" THEN 1 ELSE 0
      BY <1>3, <2>1, <2>3, <2>4
    <2>6. QED
      BY <1>3, <2>1, <2>2, <2>5 DEF JournalInv, JournalMatchesBook, RowsOf
  <1>6. CASE UNCHANGED portfolioVars
    BY <1>6 DEF portfolioVars, JournalInv, JournalMatchesBook
  <1>7. QED
    BY <1>4, <1>5, <1>6, JournalWriters

(* The journal the tax export reads has one row for each closed position   *)
(* and none for an open one: whatever exits, manual closes, repeated       *)
(* commands and crashes do, a position is booked as sold at most once      *)
(* (Portfolio.close_position, which does not ask whether it is open).      *)
THEOREM JournalOnce == Spec => []JournalMatchesBook
  <1>1. Init => JournalInv
    BY DEF Init, PortfolioInit, JournalInv, JournalMatchesBook
  <1>2. JournalInv => JournalMatchesBook
    BY DEF JournalInv
  <1>3. QED
    BY <1>1, <1>2, JournalStep, Invariance, PTL DEF Spec

----------------------------------------------------------------------------
(* The caps *)

\* How the worker gets to a scan, and to an order that waits to be recorded.
LEMMA ScanFlow ==
    ASSUME IInv, [Next]_vars
    PROVE  \/ Enter \/ OpenDb \/ GatePass
           \/ pc' \notin {"Scan", "OpenDb"}
           \/ UNCHANGED <<portfolioVars, pc, running, turn, cands, swap>>
  <1>1. CASE HandleManualClose \/ Exit
    BY <1>1, SellFlow DEF IInv, TypeOK
  <1>2. CASE ~(HandleManualClose \/ Exit)
    BY <1>2 DEF Next, WorkerStep, Environment, Web, Startup, Crash, Drain, HandleControl,
         HandleSetShadow, Finish, CommandFails, BeginTick, ManageNext, CloseDb, RiskDb,
         AfterClose, GateRefuse, GateDone, EndScan, ServeBroad, Housekeeping, DbError,
         FinishError, Abort, EndTick, Goto, Tick, WebEnqueue, WebWriteKill, WebQueueKill,
         WebDies, webUnchanged, memoryVars, portfolioVars, vars
  <1>3. QED
    BY <1>1, <1>2

LEMMA CapStep == IInv /\ CapInv /\ [Next]_vars => CapInv'
  <1> SUFFICES ASSUME IInv, CapInv, [Next]_vars, pc' = "OpenDb"
               PROVE  Room(swap.instance, swap.usd)'
    BY DEF CapInv
  <1>1. CASE Enter
    <2>1. PICK m \in Mints, size \in Sizes :
             /\ Room(Serving, size)
             /\ swap' = [side |-> "buy", instance |-> Serving, mint |-> m, id |-> 0,
                         usd |-> size, manual |-> FALSE]
      BY <1>1 DEF Enter
    <2>2. swap'.instance = Serving /\ swap'.usd = size
      BY <2>1
    <2>3. UNCHANGED portfolioVars
      BY <1>1 DEF Enter
    <2>4. QED
      BY <2>1, <2>2, <2>3 DEF Room, WalletUsd, DeployedUsd, SumSizes, OpenPositions, portfolioVars
  <1>2. CASE UNCHANGED <<portfolioVars, pc, swap>>
    BY <1>2 DEF CapInv, Room, WalletUsd, DeployedUsd, SumSizes, OpenPositions, portfolioVars
  <1>3. CASE OpenDb \/ GatePass
    BY <1>3 DEF OpenDb, GatePass, Goto
  <1>4. QED
    BY <1>1, <1>2, <1>3, ScanFlow

LEMMA CapInvariance == Spec => []CapInv
  <1>1. Init => CapInv
    BY DEF Init, CapInv
  <1>2. QED
    BY <1>1, CapStep, Invariance, PTL DEF Spec

(* No entry leaves more than max_total_deployed_pct of the wallet deployed, *)
(* although the capital an order is sized by is read before the swap and   *)
(* the entry is booked after it (_entries_for_instance, size_position).    *)
THEOREM CapHolds == Spec => DeployedCapHolds
  <1> DEFINE Kept == \A i \in Instances :
                        DeployedUsd(i)' > DeployedUsd(i)
                           => 100 * DeployedUsd(i)' <= MaxDeployedPct * WalletUsd(i)'
  <1>1. ASSUME IInv, CapInv, [Next]_vars, NEW i \in Instances,
               DeployedUsd(i)' > DeployedUsd(i)
        PROVE  100 * DeployedUsd(i)' <= MaxDeployedPct * WalletUsd(i)'
    <2>1. DeployedUsd(i) \in Nat /\ balance[i] \in Int
      BY <1>1, LedgerTypes DEF IInv, TypeOK
    <2>2. CASE OpenDb
      <3>1. swap.usd \in Nat
        BY <1>1, <2>2, OpenDbLemma
      <3>2. i = swap.instance
        BY <1>1, <2>1, <2>2, OpenDeploys
      <3>3. /\ DeployedUsd(i)' = DeployedUsd(i) + swap.usd
            /\ balance'[i] = balance[i] - swap.usd
        BY <1>1, <2>2, <3>2, OpenDeploys
      <3>4. WalletUsd(i)' = WalletUsd(i)
        BY <2>1, <3>1, <3>3 DEF WalletUsd
      <3>5. (DeployedUsd(i) + swap.usd) * 100 <= MaxDeployedPct * WalletUsd(i)
        BY <1>1, <2>2, <3>2 DEF CapInv, OpenDb, Room
      <3>6. QED
        BY <2>1, <3>1, <3>3, <3>4, <3>5
    <2>3. CASE CloseDb
      <3>1. PICK owner, stake : /\ owner = positions[swap.id].instance
                                /\ stake = positions[swap.id].size_usd
        OBVIOUS
      <3>2. stake \in Nat
        BY <1>1, <2>3, <3>1, CloseSettles
      <3>3. DeployedUsd(i)' = DeployedUsd(i) - stake \/ DeployedUsd(i)' = DeployedUsd(i)
        BY <1>1, <2>3, <3>1, CloseSettles
      <3>4. QED
        BY <1>1, <2>1, <3>2, <3>3
    <2>4. CASE UNCHANGED portfolioVars
      <3>1. DeployedUsd(i)' = DeployedUsd(i)
        BY <2>4 DEF portfolioVars, DeployedUsd, SumSizes, OpenPositions
      <3>2. QED
        BY <1>1, <2>1, <3>1
    <2>5. QED
      BY <1>1, <2>2, <2>3, <2>4, JournalWriters
  <1>2. IInv /\ CapInv /\ [Next]_vars => [Kept]_vars
    BY <1>1
  <1> HIDE DEF Kept
  <1>3. QED
    BY <1>2, CapInvariance, Invariance, PTL DEF Spec, DeployedCapHolds, Kept

----------------------------------------------------------------------------
(* The day *)

\* The day does not start earlier as time passes.
LEMMA DayLemma ==
    ASSUME NEW n \in Nat, NEW d \in Nat \ {0}
    PROVE  (n \div d) * d <= ((n + 1) \div d) * d
  <1> DEFINE a == n \div d
             b == (n + 1) \div d
  <1>1. /\ a \in Nat /\ b \in Nat
        /\ a * d <= n /\ n < a * d + d
        /\ b * d <= n + 1 /\ n + 1 < b * d + d
    OBVIOUS
  <1> HIDE DEF a, b
  <1>2. a <= b
    <2>1. SUFFICES ASSUME b + 1 <= a
                   PROVE  FALSE
      BY <1>1
    <2>2. (b + 1) * d <= a * d
      BY <1>1, <2>1
    <2>3. (b + 1) * d = b * d + d
      BY <1>1
    <2>4. QED
      BY <1>1, <2>2, <2>3
  <1>3. a * d <= b * d
    BY <1>1, <1>2
  <1>4. QED
    BY <1>3 DEF a, b

LEMMA EntriesFinite ==
    ASSUME PortfolioTypeOK, NEW i \in Instances
    PROVE  IsFiniteSet(EntriesToday(i)) /\ Cardinality(EntriesToday(i)) \in Nat
  <1>1. IsFiniteSet(EntriesToday(i))
    BY BookTypes, FS_Subset DEF EntriesToday
  <1>2. QED
    BY <1>1, FS_CardinalityType

\* Only recording a buy adds to the day of an instance, and it adds one.
LEMMA EntriesStep ==
    ASSUME IInv, [Next]_vars, NEW i \in Instances
    PROVE  /\ Cardinality(EntriesToday(i)') \in Nat
           /\ IF OpenDb /\ swap.instance = i
              THEN Cardinality(EntriesToday(i)') <= Cardinality(EntriesToday(i)) + 1
              ELSE Cardinality(EntriesToday(i)') <= Cardinality(EntriesToday(i))
  <1>0. PortfolioTypeOK /\ now \in Nat /\ DayLength \in Nat \ {0}
    BY WorkerAssumption DEF IInv, TypeOK, WorkerTypeOK
  <1>1. IsFiniteSet(EntriesToday(i)) /\ Cardinality(EntriesToday(i)) \in Nat
    BY <1>0, EntriesFinite
  <1>2. ASSUME NEW T, T \subseteq EntriesToday(i), T = EntriesToday(i)'
        PROVE  /\ Cardinality(EntriesToday(i)') \in Nat
               /\ Cardinality(EntriesToday(i)') <= Cardinality(EntriesToday(i))
    BY <1>1, <1>2, FS_Subset, FS_CardinalityType
  <1>3. \/ OpenDb /\ UNCHANGED now
        \/ CloseDb /\ UNCHANGED now
        \/ UNCHANGED positions /\ (UNCHANGED now \/ now' = now + 1)
    BY BookWriters
  <1>4. CASE OpenDb /\ UNCHANGED now
    <2> DEFINE new == Len(positions) + 1
    <2>1. /\ DOMAIN positions' = DOMAIN positions \cup {new}
          /\ new \notin DOMAIN positions
          /\ \A q \in DOMAIN positions : positions'[q] = positions[q]
          /\ positions'[new].instance = swap.instance
      BY <1>4, OpenDbLemma
    <2> HIDE DEF new
    <2>2. DayStart' = DayStart
      BY <1>4 DEF DayStart
    <2>3. CASE swap.instance = i
      <3>1. EntriesToday(i)' \subseteq EntriesToday(i) \cup {new}
        BY <2>1, <2>2 DEF EntriesToday
      <3>2. /\ new \notin EntriesToday(i)
            /\ IsFiniteSet(EntriesToday(i) \cup {new})
            /\ Cardinality(EntriesToday(i) \cup {new}) = Cardinality(EntriesToday(i)) + 1
        BY <1>1, <2>1, FS_AddElement DEF EntriesToday
      <3>3. PICK T : T = EntriesToday(i)'
        OBVIOUS
      <3>4. Cardinality(T) \in Nat /\ Cardinality(T) <= Cardinality(EntriesToday(i)) + 1
        BY <3>1, <3>2, <3>3, FS_Subset, FS_CardinalityType
      <3>5. QED
        BY <1>4, <2>3, <3>3, <3>4
    <2>4. CASE swap.instance # i
      <3>1. EntriesToday(i)' \subseteq EntriesToday(i)
        BY <2>1, <2>2, <2>4 DEF EntriesToday
      <3>2. QED
        BY <1>2, <2>4, <3>1
    <2>5. QED
      BY <2>3, <2>4
  <1>5. CASE ~OpenDb
    <2>1. EntriesToday(i)' \subseteq EntriesToday(i)
      <3>1. CASE CloseDb /\ UNCHANGED now
        <4>1. /\ DOMAIN positions' = DOMAIN positions
              /\ \A q \in DOMAIN positions :
                    /\ positions'[q].instance = positions[q].instance
                    /\ positions'[q].entry_ts = positions[q].entry_ts
          BY <3>1, CloseDbLemma
        <4>2. DayStart' = DayStart
          BY <3>1 DEF DayStart
        <4>3. QED
          BY <4>1, <4>2 DEF EntriesToday
      <3>2. CASE UNCHANGED positions /\ (UNCHANGED now \/ now' = now + 1)
        <4>1. DayStart <= DayStart' /\ DayStart \in Int /\ DayStart' \in Int
          <5>1. (now \div DayLength) * DayLength
                   <= ((now + 1) \div DayLength) * DayLength
            BY <1>0, DayLemma
          <5>2. now \div DayLength \in Int /\ (now + 1) \div DayLength \in Int
            BY <1>0
          <5>3. DayStart \in Int /\ (now' = now + 1 => DayStart' \in Int)
            BY <1>0, <5>2 DEF DayStart
          <5>4. QED
            BY <3>2, <5>1, <5>3 DEF DayStart
        <4>2. \A p \in DOMAIN positions : positions[p].entry_ts \in Nat
          BY <1>0, BookTypes DEF PositionRow
        <4>3. \A p \in DOMAIN positions :
                 positions[p].entry_ts >= DayStart' => positions[p].entry_ts >= DayStart
          BY <4>1, <4>2
        <4>4. QED
          BY <3>2, <4>3 DEF EntriesToday
      <3>3. QED
        BY <1>3, <1>5, <3>1, <3>2
    <2>2. QED
      BY <1>2, <1>5, <2>1
  <1>6. OpenDb => UNCHANGED now
    BY DEF OpenDb, outsideVars
  <1>7. QED
    BY <1>4, <1>5, <1>6

LEMMA DayStep == IInv /\ DayInv /\ [Next]_vars => DayInv'
  <1> SUFFICES ASSUME IInv, DayInv, [Next]_vars
               PROVE  DayInv'
    OBVIOUS
  <1>1. (pc = "OpenDb" => swap.instance = Serving)'
    <2>1. CASE Enter
      BY <2>1 DEF Enter, Serving
    <2>2. CASE OpenDb \/ GatePass \/ pc' \notin {"Scan", "OpenDb"}
      BY <2>2 DEF OpenDb, GatePass, Goto
    <2>3. CASE UNCHANGED <<portfolioVars, pc, running, turn, cands, swap>>
      BY <2>3 DEF DayInv, Serving
    <2>4. QED
      BY <2>1, <2>2, <2>3, ScanFlow
  <1>2. ASSUME MaxTradesPerDay > 0, NEW i \in Instances
        PROVE  Cardinality(EntriesToday(i)') + StillToEnter(i)'
                  < MaxTradesPerDay + Cardinality(Mints)
    <2> DEFINE E == Cardinality(EntriesToday(i))
               F == Cardinality(EntriesToday(i)')
               C == Cardinality(cands)
    <2>1. /\ E \in Nat /\ F \in Nat
          /\ IF OpenDb /\ swap.instance = i THEN F <= E + 1 ELSE F <= E
      BY EntriesStep, EntriesFinite DEF IInv, TypeOK
    <2>2. IsFiniteSet(cands) /\ C \in Nat /\ Cardinality(Mints) \in Nat
      BY PendingLemma, FS_CardinalityType DEF IInv, TypeOK
    <2>3. E + StillToEnter(i) < MaxTradesPerDay + Cardinality(Mints)
          /\ MaxTradesPerDay \in Nat
      BY <1>2, WorkerAssumption DEF DayInv
    <2>4. StillToEnter(i) \in Nat
      BY <2>2 DEF StillToEnter
    <2> HIDE DEF E, F
    <2>5. CASE Enter
      <3>1. PICK m \in cands : cands' = cands \ {m}
        BY <2>5 DEF Enter, Candidate
      <3>2. Cardinality(cands') = C - 1
        BY <2>2, <3>1, FS_RemoveElement
      <3>3. pc = "Scan" /\ UNCHANGED <<running, turn>> /\ ~OpenDb
            /\ pc' \in {"Scan", "OpenDb"}
        BY <2>5 DEF Enter, OpenDb, Goto
      <3>4. pc' = "OpenDb" => swap'.instance = Serving
        BY <1>1, <3>3 DEF Serving
      <3> HIDE DEF C
      <3>5. StillToEnter(i)' <= StillToEnter(i) /\ StillToEnter(i)' \in Int
        BY <2>2, <3>2, <3>3, <3>4 DEF StillToEnter, Serving, C
      <3>6. QED
        BY <2>1, <2>2, <2>3, <2>4, <3>3, <3>5 DEF E, F
    <2>6. CASE OpenDb
      <3>1. pc = "OpenDb" /\ pc' = "Scan" /\ UNCHANGED <<running, turn, cands>>
        BY <2>6 DEF OpenDb, Goto
      <3>2. swap.instance = Serving
        BY <3>1 DEF DayInv
      <3>3. StillToEnter(i)' = IF swap.instance = i THEN C ELSE 0
        BY <3>1, <3>2 DEF StillToEnter, Serving
      <3>4. StillToEnter(i) = IF swap.instance = i THEN C + 1 ELSE 0
        BY <3>1 DEF StillToEnter
      <3> HIDE DEF C
      <3>5. QED
        BY <2>1, <2>2, <2>3, <2>6, <3>3, <3>4 DEF F
    <2>7. CASE GatePass
      <3>1. /\ cands' = Mints /\ pc' = "Scan" /\ ~OpenDb
            /\ ~Throttled(Serving) /\ UNCHANGED <<running, turn>>
            /\ pc = "Gate"
        BY <2>7 DEF GatePass, OpenDb, Goto
      <3>2. CASE Serving = i
        <4>1. E < MaxTradesPerDay
          BY <1>2, <2>1, <2>3, <3>1, <3>2 DEF Throttled, E
        <4>2. StillToEnter(i)' = Cardinality(Mints)
          BY <3>1, <3>2 DEF StillToEnter, Serving
        <4>3. QED
          BY <2>1, <2>2, <2>3, <3>1, <4>1, <4>2 DEF F
      <3>3. CASE Serving # i
        <4>1. StillToEnter(i)' = 0
          BY <3>1, <3>3 DEF StillToEnter, Serving
        <4>2. QED
          BY <2>1, <2>2, <2>3, <2>4, <3>1, <4>1 DEF F
      <3>4. QED
        BY <3>2, <3>3
    <2>8. CASE pc' \notin {"Scan", "OpenDb"}
      <3>1. StillToEnter(i)' = 0 /\ ~OpenDb
        BY <2>8 DEF StillToEnter, OpenDb, Goto
      <3>2. QED
        BY <2>1, <2>2, <2>3, <2>4, <3>1 DEF F
    <2>9. CASE UNCHANGED <<portfolioVars, pc, running, turn, cands, swap>> /\ ~OpenDb
      <3>1. StillToEnter(i)' = StillToEnter(i)
        BY <2>9 DEF StillToEnter, Serving
      <3>2. QED
        BY <2>1, <2>2, <2>3, <2>4, <2>9, <3>1 DEF F
    <2>10. QED
      BY <2>5, <2>6, <2>7, <2>8, <2>9, ScanFlow
  <1>3. QED
    BY <1>1, <1>2 DEF DayInv

(* A day exceeds its cap by less than the tokens of one scan: the throttle *)
(* is asked once per instance and scan, and neither ticks of the clock,    *)
(* crashes nor a second tier let another scan start on top (_throttle).    *)
THEOREM DayCap == Spec => []DailyCapOvershoot
  <1>1. Init => DayInv
    <2> SUFFICES ASSUME Init, MaxTradesPerDay > 0, NEW i \in Instances
                 PROVE  Cardinality(EntriesToday(i)) + StillToEnter(i)
                           < MaxTradesPerDay + Cardinality(Mints)
      BY DEF DayInv, Init
    <2>1. EntriesToday(i) = {} /\ StillToEnter(i) = 0
      BY DEF Init, PortfolioInit, EntriesToday, StillToEnter
    <2>2. Cardinality(Mints) \in Nat /\ MaxTradesPerDay \in Nat
      BY MintsAssumption, FS_CardinalityType, WorkerAssumption
    <2>3. Cardinality(EntriesToday(i)) = 0
      BY <2>1, FS_EmptySet
    <2>4. QED
      BY <2>1, <2>2, <2>3
  <1>2. IInv /\ DayInv => DailyCapOvershoot
    <2> SUFFICES ASSUME IInv, DayInv, MaxTradesPerDay > 0, NEW i \in Instances
                 PROVE  Cardinality(EntriesToday(i)) < MaxTradesPerDay + Cardinality(Mints)
      BY DEF DailyCapOvershoot
    <2>1. Cardinality(EntriesToday(i)) \in Nat
      BY EntriesFinite DEF IInv, TypeOK
    <2>2. Cardinality(cands) \in Nat /\ Cardinality(Mints) \in Nat
      BY PendingLemma, FS_CardinalityType DEF IInv, TypeOK
    <2>3. StillToEnter(i) \in Nat
      BY <2>2 DEF StillToEnter
    <2>4. MaxTradesPerDay \in Nat
      BY WorkerAssumption
    <2>5. Cardinality(EntriesToday(i)) + StillToEnter(i) < MaxTradesPerDay + Cardinality(Mints)
      BY DEF DayInv
    <2>6. QED
      BY <2>1, <2>2, <2>3, <2>4, <2>5
  <1>3. QED
    BY <1>1, <1>2, DayStep, Invariance, PTL DEF Spec

----------------------------------------------------------------------------
(* The breaker *)

\* What a step may do to the journal, the breaker and what the breaker was told.
LEMMA BreakerWriters ==
    ASSUME IInv, [Next]_vars
    PROVE  \/ CloseDb
           \/ RiskDb
           \/ HandleControl /\ ResetCircuit /\ resetAt' = Len(trades)
           \/ /\ UNCHANGED <<trades, resetAt>>
              /\ circuit'.losses = circuit.losses
              /\ circuit.tripped => circuit'.tripped
              /\ torn \subseteq torn'
              /\ (pc' = "RiskDb" <=> pc = "RiskDb") \/ "breaker" \in torn'
              /\ pc' = "RiskDb" => pc = "RiskDb"
  <1>1. CASE HandleManualClose \/ Exit
    <2>1. UNCHANGED <<trades, resetAt, circuit>>
      BY <1>1 DEF HandleManualClose, Exit, portfolioVars, controlVars
    <2>2. pc # "RiskDb" /\ pc' # "RiskDb"
      BY <1>1, SellFlow DEF IInv, TypeOK
    <2>3. torn \subseteq torn'
      <3>1. torn' = torn \/ torn' = torn \cup {"wallet"}
        BY <1>1 DEF HandleManualClose, Exit, SubmitSell, Outcome
      <3>2. QED
        BY <3>1
    <2>4. QED
      BY <2>1, <2>2, <2>3
  <1>2. CASE Housekeeping
    <2>1. circuit \in [tripped : BOOLEAN, losses : Nat]
      BY DEF IInv, TypeOK, ControlsTypeOK
    <2>2. PICK breached \in BOOLEAN : CheckDailyDrawdown(breached)
      BY <1>2 DEF Housekeeping
    <2>3. circuit' = [circuit EXCEPT !.tripped = circuit.tripped \/ breached]
      BY <2>2 DEF CheckDailyDrawdown
    <2>4. circuit'.losses = circuit.losses /\ (circuit.tripped => circuit'.tripped)
      BY <2>1, <2>3
    <2>5. /\ UNCHANGED <<trades, resetAt, torn>>
          /\ pc # "RiskDb" /\ pc' # "RiskDb"
      BY <1>2 DEF Housekeeping, EndTick, Goto, portfolioVars, historyVars
    <2>6. QED
      BY <2>4, <2>5
  <1>3. CASE HandleControl
    <2>1. /\ UNCHANGED <<trades, torn>> /\ pc # "RiskDb" /\ pc' # "RiskDb"
          /\ \/ ResetCircuit /\ resetAt' = Len(trades)
             \/ UNCHANGED <<circuit, resetAt>>
      BY <1>3 DEF HandleControl, Goto, portfolioVars, SetRun, WriteKill, SetKill, SetHalt
    <2>2. QED
      BY <1>3, <2>1
  <1>4. CASE Enter
    BY <1>4 DEF Enter, Outcome, Goto, portfolioVars, controlVars
  <1>5. CASE Crash \/ DbError
    BY <1>5 DEF Crash, DbError, EndTick, Goto, portfolioVars, controlVars
  <1>6. CASE OpenDb
    BY <1>6 DEF OpenDb, OpenPosition, Goto, controlVars, historyVars
  <1>7. CASE ~(HandleManualClose \/ Exit \/ Housekeeping \/ HandleControl \/ Enter
               \/ Crash \/ DbError \/ OpenDb \/ CloseDb \/ RiskDb)
    <2>1. /\ UNCHANGED <<trades, circuit, resetAt, torn>>
          /\ pc' = "RiskDb" <=> pc = "RiskDb"
      BY <1>7 DEF Next, WorkerStep, Environment, Web, Startup, Drain, HandleSetShadow,
           Finish, CommandFails, BeginTick, ManageNext, GatePass, GateRefuse, GateDone,
           EndScan, ServeBroad, FinishError, Abort, EndTick, Goto, Tick, WebEnqueue,
           WebWriteKill, WriteKill, SetKill, SetHalt, WebQueueKill, WebDies, webUnchanged,
           memoryVars, outsideVars, historyVars, portfolioVars, controlVars, vars
    <2>2. QED
      BY <2>1
  <1>8. QED
    BY <1>1, <1>2, <1>3, <1>4, <1>5, <1>6, <1>7

LEMMA BreakerStep == IInv /\ BreakerInv /\ [Next]_vars => BreakerInv'
  <1> SUFFICES ASSUME IInv, BreakerInv, [Next]_vars
               PROVE  BreakerInv'
    OBVIOUS
  <1>0. /\ circuit \in [tripped : BOOLEAN, losses : Nat]
        /\ IsFiniteSet(DOMAIN trades) /\ DOMAIN trades \subseteq Nat
        /\ Len(trades) \in Nat /\ DOMAIN trades = 1..Len(trades)
        /\ \A t \in DOMAIN trades : trades[t] \in TradeRow
        /\ CircuitLosses \in Nat \ {0}
        /\ resetAt \in Nat
    BY BookTypes, LenProperties, CircuitLossesAssumption
       DEF IInv, TypeOK, ControlsTypeOK, WorkerTypeOK, PortfolioTypeOK
  <1>1. CASE CloseDb
    <2>1. /\ DOMAIN trades' = DOMAIN trades \cup {Len(trades) + 1}
          /\ Len(trades) + 1 \notin DOMAIN trades /\ Len(trades') = Len(trades) + 1
          /\ \A t \in DOMAIN trades : trades'[t] = trades[t] /\ t < Len(trades) + 1
          /\ trades'[Len(trades) + 1].instance = positions[swap.id].instance
      BY <1>1, CloseJournals
    <2>2. /\ pc = "CloseDb" /\ UNCHANGED <<circuit, resetAt, torn>>
          /\ positions[swap.id].instance = swap.instance
          /\ IF swap.instance = Primary THEN pc' = "RiskDb"
             ELSE pc' \in {"Finish", "Manage"}
      BY <1>1 DEF CloseDb, controlVars, historyVars, IInv, SwapInv, Goto, AfterClose,
                  DrivesBreaker
    <2>3. Counted' = Counted
      BY <1>0, <2>1, <2>2 DEF Counted, Journalled
    <2>4. LosingRuns' \subseteq LosingRuns
      BY <2>1, <2>3 DEF LosingRuns, Counted, Journalled
    <2>5. QED
      BY <2>1, <2>2, <2>4 DEF BreakerInv
  <1>2. CASE RiskDb
    <2> DEFINE last == Len(trades)
               pnl == trades[last].pnl_usd
    <2>1. /\ pc = "RiskDb" /\ pc' # "RiskDb"
          /\ UNCHANGED <<trades, resetAt, torn>>
          /\ circuit' = AfterTrade(pnl)
      BY <1>2 DEF RiskDb, RecordTradeResult, Goto, AfterClose, portfolioVars, historyVars
    <2>2. last \in DOMAIN trades /\ pnl \in Int /\ trades[last].instance = Primary
      <3>1. trades # << >> /\ trades[last].instance = Primary
        BY <2>1 DEF IInv, SwapInv, BreakerInv
      <3>2. trades \in Seq(TradeRow)
        BY DEF IInv, TypeOK, PortfolioTypeOK
      <3>3. last \in DOMAIN trades
        BY <1>0, <3>1, <3>2, EmptySeq
      <3>4. trades[last] \in TradeRow
        BY <1>0, <3>3
      <3>5. pnl \in Int
        BY <3>4 DEF TradeRow
      <3>6. QED
        BY <3>1, <3>3, <3>5
    <2> HIDE DEF last, pnl
    <2>3. Counted' \subseteq Counted \cup {last} /\ Counted \subseteq Counted'
      BY <1>0, <2>1, <2>2 DEF Counted, Journalled, last
    <2>4. \A t \in Counted : t < last
      BY <2>1 DEF Counted, last
    <2>5. CASE pnl < 0
      <3>1. /\ circuit'.losses = circuit.losses + 1
            /\ circuit'.losses >= CircuitLosses => circuit'.tripped
        BY <1>0, <2>1, <2>2, <2>5 DEF AfterTrade
      <3>2. ASSUME "breaker" \notin torn, NEW T \in LosingRuns'
            PROVE  Cardinality(T) <= circuit.losses + 1
        <4> DEFINE U == T \ {last}
        <4>1. /\ T \subseteq Counted'
              /\ \A t \in T, u \in Counted' : u > t => u \in T
              /\ \A t \in T : trades[t].pnl_usd < 0
          BY <2>1, <3>2 DEF LosingRuns
        <4>2. U \in LosingRuns
          <5>1. U \subseteq Counted
            BY <2>3, <4>1
          <5>2. \A t \in U, u \in Counted : u > t => u \in U
            BY <1>0, <2>2, <2>3, <2>4, <4>1
          <5>3. QED
            BY <4>1, <5>1, <5>2 DEF LosingRuns
        <4>3. Cardinality(U) <= circuit.losses
          BY <3>2, <4>2 DEF BreakerInv
        <4>4. T \subseteq DOMAIN trades
          BY <2>1, <4>1 DEF Counted, Journalled
        <4>5. IsFiniteSet(T) /\ Cardinality(T) \in Nat
          BY <1>0, <4>4, FS_Subset, FS_CardinalityType
        <4>6. Cardinality(U) = IF last \in T THEN Cardinality(T) - 1 ELSE Cardinality(T)
          BY <4>5, FS_RemoveElement
        <4> HIDE DEF U
        <4>7. QED
          BY <1>0, <4>3, <4>5, <4>6
      <3>3. QED
        BY <2>1, <3>1, <3>2 DEF BreakerInv
    <2>6. CASE pnl >= 0
      <3>1. circuit'.losses = 0
        BY <1>0, <2>1, <2>2, <2>6 DEF AfterTrade
      <3>2. ASSUME NEW T \in LosingRuns'
            PROVE  T = {}
        <4>1. SUFFICES ASSUME NEW t \in T
                       PROVE  FALSE
          OBVIOUS
        <4>2. /\ T \subseteq Counted'
              /\ \A u \in Counted' : u > t => u \in T
              /\ \A u \in T : trades[u].pnl_usd < 0
          BY <2>1, <3>2, <4>1 DEF LosingRuns
        <4>3. last \notin T
          BY <2>2, <2>6, <4>2 DEF pnl
        <4>4. t \in Counted
          BY <2>3, <4>1, <4>2, <4>3
        <4>5. t < last /\ t > resetAt /\ t \in Nat /\ last \in Nat
          BY <1>0, <2>2, <2>4, <4>4 DEF Counted, Journalled
        <4>6. last \in Counted'
          BY <1>0, <2>1, <2>2, <4>5 DEF Counted, Journalled
        <4>7. QED
          BY <4>2, <4>3, <4>5, <4>6
      <3>3. \A T \in LosingRuns' : Cardinality(T) = 0
        BY <3>2, FS_EmptySet
      <3> HIDE DEF pnl
      <3>4. QED
        BY <1>0, <2>1, <3>1, <3>3 DEF BreakerInv
    <2>7. QED
      BY <2>2, <2>5, <2>6
  <1>3. CASE HandleControl /\ ResetCircuit /\ resetAt' = Len(trades)
    <2>1. /\ circuit' = [tripped |-> FALSE, losses |-> 0]
          /\ UNCHANGED trades /\ pc' = "Finish"
      BY <1>3 DEF HandleControl, ResetCircuit, Goto, portfolioVars
    <2>2. Counted' = {}
      BY <1>0, <1>3, <2>1 DEF Counted, Journalled
    <2>3. \A T \in LosingRuns' : T = {}
      BY <2>2 DEF LosingRuns
    <2>4. \A T \in LosingRuns' : Cardinality(T) = 0
      BY <2>3, FS_EmptySet
    <2>5. circuit'.losses = 0 /\ ~(circuit'.losses >= CircuitLosses) /\ pc' # "RiskDb"
      BY <1>0, <2>1
    <2>6. QED
      BY <1>0, <2>4, <2>5 DEF BreakerInv
  <1>4. CASE /\ UNCHANGED <<trades, resetAt>>
             /\ circuit'.losses = circuit.losses
             /\ circuit.tripped => circuit'.tripped
             /\ torn \subseteq torn'
             /\ (pc' = "RiskDb" <=> pc = "RiskDb") \/ "breaker" \in torn'
             /\ pc' = "RiskDb" => pc = "RiskDb"
    <2>1. CASE "breaker" \in torn'
      BY <1>4, <2>1 DEF BreakerInv
    <2>2. CASE pc' = "RiskDb" <=> pc = "RiskDb"
      <3>1. Counted' = Counted
        BY <1>4, <2>2 DEF Counted, Journalled
      <3>2. LosingRuns' = LosingRuns
        BY <1>4, <3>1 DEF LosingRuns
      <3>3. QED
        BY <1>4, <2>2, <3>2 DEF BreakerInv
    <2>3. QED
      BY <1>4, <2>1, <2>2
  <1>5. QED
    BY <1>1, <1>2, <1>3, <1>4, BreakerWriters

(* Between ticks, as many losing primary trades in a row as the limit,     *)
(* since the last reset, mean a tripped breaker, although the trade is     *)
(* journalled by one write and counted by another: only a crash or a       *)
(* failed write right between the two may lose one (close_position,        *)
(* record_trade_result).                                                   *)
THEOREM StreakSeen == Spec => []BreakerSeesStreak
  <1>1. Init => BreakerInv
    <2> SUFFICES ASSUME Init PROVE BreakerInv
      OBVIOUS
    <2>1. /\ circuit = [tripped |-> FALSE, losses |-> 0] /\ trades = << >>
          /\ pc = "Down"
      BY DEF Init, ControlsInit, PortfolioInit
    <2>2. \A T \in LosingRuns : T = {}
      BY <2>1 DEF LosingRuns, Counted, Journalled
    <2>3. \A T \in LosingRuns : Cardinality(T) = 0
      BY <2>2, FS_EmptySet
    <2>4. circuit.losses = 0 /\ ~(circuit.losses >= CircuitLosses) /\ pc # "RiskDb"
      BY <2>1, CircuitLossesAssumption
    <2>5. QED
      BY <2>3, <2>4 DEF BreakerInv
  <1>2. IInv /\ BreakerInv => BreakerSeesStreak
    <2> SUFFICES ASSUME IInv, BreakerInv, pc = "Drain", "breaker" \notin torn,
                        Cardinality(Streak) = CircuitLosses,
                        \A t \in Streak : trades[t].pnl_usd < 0
                 PROVE  circuit.tripped
      BY DEF BreakerSeesStreak
    <2>1. IsFiniteSet(Counted) /\ Counted \subseteq Nat
      BY BookTypes, FS_Subset DEF Counted, Journalled, IInv, TypeOK
    <2>2. Streak = {t \in Counted : Cardinality({u \in Counted : u > t}) < CircuitLosses}
      BY DEF Streak, Counted
    <2>3. ASSUME NEW t \in Streak, NEW v \in Counted, v > t
          PROVE  v \in Streak
      <3> DEFINE A == {u \in Counted : u > t}
                 B == {u \in Counted : u > v}
      <3>1. t \in Nat /\ v \in Nat
        BY <2>1, <2>2
      <3>2. B \subseteq A
        <4>1. \A u \in Counted : u > v => u > t
          BY <2>1, <2>3, <3>1
        <4>2. QED
          BY <4>1
      <3>3. IsFiniteSet(A)
        BY <2>1, FS_Subset
      <3> HIDE DEF A, B
      <3>4. Cardinality(B) <= Cardinality(A) /\ Cardinality(A) \in Nat /\ Cardinality(B) \in Nat
        BY <3>2, <3>3, FS_Subset, FS_CardinalityType
      <3>5. Cardinality(A) < CircuitLosses
        BY <2>2 DEF A
      <3>6. Cardinality(B) < CircuitLosses
        BY <3>4, <3>5, CircuitLossesAssumption
      <3>7. QED
        BY <2>2, <3>6 DEF B
    <2>4. Streak \in LosingRuns
      BY <2>2, <2>3 DEF LosingRuns
    <2>5. CircuitLosses <= circuit.losses
      BY <2>4 DEF BreakerInv
    <2>6. QED
      BY <2>5, CircuitLossesAssumption DEF BreakerInv, IInv, TypeOK, ControlsTypeOK
  <1>3. QED
    BY <1>1, <1>2, BreakerStep, Invariance, PTL DEF Spec

----------------------------------------------------------------------------
(* The chain *)

LEMMA SellAmountLemma ==
    ASSUME NEW m \in Mints, NEW qty \in Nat
    PROVE  /\ SellAmount(m, qty) \in Int
           /\ UnitsPerToken[m] = 1000000 => SellAmount(m, qty) = qty
  <1>1. UnitsPerToken[m] \in Nat \ {0} /\ qty * 1000000 \in Nat
    BY WorkerAssumption
  <1>2. SellAmount(m, qty) \in Int
    BY <1>1 DEF SellAmount
  <1>3. (qty * 1000000) \div 1000000 = qty
    OBVIOUS
  <1>4. QED
    BY <1>2, <1>3 DEF SellAmount

\* What a sale, exit or manual close, leaves: a fill that waits to be recorded
\* has taken its position's quantity from the wallet, unless a fault struck.
LEMMA SellAnatomy ==
    ASSUME IInv, HandleManualClose \/ Exit
    PROVE  /\ UNCHANGED positions
           /\ pc \notin {"OpenDb", "CloseDb"} /\ pc' # "OpenDb"
           /\ pc' = "CloseDb" => positions[swap'.id].mint = swap'.mint
           /\ \/ "wallet" \in torn'
              \/ pc' # "CloseDb" /\ UNCHANGED <<wallet, torn>>
              \/ \E p \in DOMAIN positions :
                    /\ pc' = "CloseDb" /\ UNCHANGED torn
                    /\ positions[p].status = "open"
                    /\ swap'.instance = positions[p].instance
                    /\ swap'.mint = positions[p].mint
                    /\ wallet' = IF positions[p].instance \in OnChain
                                 THEN [wallet EXCEPT ![positions[p].mint] =
                                          @ - SellAmount(positions[p].mint,
                                                         positions[p].size_usd)]
                                 ELSE wallet
  <1>1. UNCHANGED positions /\ pc \notin {"OpenDb", "CloseDb"} /\ pc' # "OpenDb"
    BY SellFlow DEF IInv, TypeOK, HandleManualClose, Exit, portfolioVars
  <1>2. ASSUME NEW p \in DOMAIN positions, positions[p].status = "open",
               NEW manual \in BOOLEAN, NEW back \in {"Finish", "Manage"},
               SubmitSell(p, manual, back)
        PROVE  /\ pc' = "CloseDb" => positions[swap'.id].mint = swap'.mint
               /\ \/ "wallet" \in torn'
                  \/ pc' # "CloseDb" /\ UNCHANGED <<wallet, torn>>
                  \/ /\ pc' = "CloseDb" /\ UNCHANGED torn
                     /\ swap'.instance = positions[p].instance
                     /\ swap'.mint = positions[p].mint
                     /\ wallet' = IF positions[p].instance \in OnChain
                                  THEN [wallet EXCEPT ![positions[p].mint] =
                                           @ - SellAmount(positions[p].mint,
                                                          positions[p].size_usd)]
                                  ELSE wallet
    <2> DEFINE i == positions[p].instance
               m == positions[p].mint
               amount == IF i \in OnChain THEN SellAmount(m, positions[p].size_usd)
                         ELSE positions[p].size_usd
    <2>1. PICK outcome \in {"filled", "refused", "unseen", "ghost"}, gain \in Moves :
             /\ Outcome(i, outcome)
             /\ MoveTokens(i, m, -amount, outcome)
             /\ IF Reported(outcome)
                THEN /\ swap' = [side |-> "sell", instance |-> i, mint |-> m, id |-> p,
                                 usd |-> IF amount + gain > 0 THEN amount + gain ELSE 0,
                                 manual |-> manual]
                     /\ Goto("CloseDb")
                ELSE UNCHANGED swap /\ Goto(back)
      BY <1>2 DEF SubmitSell
    <2>2. CASE outcome \in {"unseen", "ghost"}
      <3>1. "wallet" \in torn'
        BY <2>1, <2>2 DEF Outcome
      <3>2. pc' = "CloseDb" => swap'.id = p /\ swap'.mint = m
        BY <1>2, <2>1 DEF Goto
      <3>3. QED
        BY <3>1, <3>2
    <2>3. CASE outcome = "refused"
      BY <1>2, <2>1, <2>3 DEF Outcome, MoveTokens, Landed, Reported, Goto
    <2>4. CASE outcome = "filled"
      <3>1. /\ pc' = "CloseDb" /\ UNCHANGED torn
            /\ swap'.id = p /\ swap'.mint = m /\ swap'.instance = i
        BY <2>1, <2>4 DEF Outcome, Reported, Goto
      <3>2. wallet' = IF i \in OnChain THEN [wallet EXCEPT ![m] = @ + (-amount)] ELSE wallet
        BY <2>1, <2>4 DEF MoveTokens, Landed
      <3>3. i \in OnChain => amount = SellAmount(m, positions[p].size_usd)
        OBVIOUS
      <3> HIDE DEF amount
      <3>4. CASE i \in OnChain
        <4>1. wallet' = [wallet EXCEPT ![m] = wallet[m] + (-SellAmount(m, positions[p].size_usd))]
          BY <3>2, <3>3, <3>4
        <4>2. wallet[m] \in Int /\ SellAmount(m, positions[p].size_usd) \in Int
          <5>1. m \in Mints /\ positions[p].size_usd \in Nat
            BY <1>2, BookTypes DEF PositionRow, IInv, TypeOK
          <5> HIDE DEF m
          <5>2. QED
            BY <5>1, SellAmountLemma DEF IInv, TypeOK, WorkerTypeOK
        <4>3. wallet' = [wallet EXCEPT ![m] = wallet[m] - SellAmount(m, positions[p].size_usd)]
          BY <4>1, <4>2
        <4>4. QED
          BY <3>1, <3>4, <4>3
      <3>5. CASE i \notin OnChain
        BY <3>1, <3>2, <3>5
      <3>6. QED
        BY <3>4, <3>5
    <2>5. QED
      BY <2>2, <2>3, <2>4
  <1>3. CASE HandleManualClose
    <2>1. PICK c \in todo :
             IF Closable(commands[c].arg)
             THEN SubmitSell(commands[c].arg, TRUE, "Finish")
             ELSE Goto("Finish") /\ UNCHANGED <<swap, wallet, faults, torn>>
      BY <1>3 DEF HandleManualClose
    <2>2. CASE Closable(commands[c].arg)
      <3>1. commands[c].arg \in DOMAIN positions /\ positions[commands[c].arg].status = "open"
        BY <2>2 DEF Closable, OpenPositions
      <3>2. QED
        BY <1>1, <1>2, <2>1, <2>2, <3>1
    <2>3. CASE ~Closable(commands[c].arg)
      BY <1>1, <2>1, <2>3 DEF Goto
    <2>4. QED
      BY <2>2, <2>3
  <1>4. CASE Exit
    <2>1. PICK p \in book : SubmitSell(p, FALSE, "Manage")
      BY <1>4 DEF Exit
    <2>2. p \in DOMAIN positions /\ positions[p].status = "open"
      BY DEF IInv, TypeOK, WorkerTypeOK, SnapshotInv
    <2>3. QED
      BY <1>1, <1>2, <2>1, <2>2
  <1>5. QED
    BY <1>3, <1>4

\* The other steps leave book and chain alone, and lose no fill silently.
LEMMA ChainWriters ==
    ASSUME IInv, [Next]_vars
    PROVE  \/ OpenDb \/ CloseDb \/ Enter \/ HandleManualClose \/ Exit
           \/ /\ UNCHANGED <<positions, wallet>> /\ torn \subseteq torn'
              /\ \/ UNCHANGED <<pc, swap>>
                 \/ pc \notin {"OpenDb", "CloseDb"} /\ pc' \notin {"OpenDb", "CloseDb"}
                 \/ "wallet" \in torn' /\ pc' \notin {"OpenDb", "CloseDb"}
  <1>1. CASE Crash \/ DbError
    <2>1. pc \in {"OpenDb", "CloseDb"} => swap.side # "none"
      BY DEF IInv, SwapInv
    <2>2. QED
      BY <1>1, <2>1 DEF Crash, DbError, EndTick, Goto, portfolioVars
  <1>2. CASE HandleControl
    BY <1>2 DEF HandleControl, Goto, portfolioVars, outsideVars
  <1>3. CASE ~(Crash \/ DbError \/ HandleControl \/ OpenDb \/ CloseDb \/ Enter
               \/ HandleManualClose \/ Exit)
    BY <1>3 DEF Next, WorkerStep, Environment, Web, Startup, Drain, HandleSetShadow,
           Finish, CommandFails, BeginTick, ManageNext, GatePass, GateRefuse, GateDone,
           RiskDb, AfterClose, Housekeeping,
           EndScan, ServeBroad, FinishError, Abort, EndTick, Goto, Tick, WebEnqueue,
           WebWriteKill, WebQueueKill, WebDies, webUnchanged,
           memoryVars, outsideVars, historyVars, portfolioVars, vars
  <1>4. QED
    BY <1>1, <1>2, <1>3

\* What the wallet should hold of a token at this point of the tick.
HeldAgrees(m) ==
    IF pc = "OpenDb" /\ swap.instance = Primary /\ swap.mint = m
    THEN wallet[m] = swap.usd
    ELSE IF pc = "CloseDb" /\ swap.instance = Primary /\ swap.mint = m
    THEN wallet[m] = 0
    ELSE /\ PositionFor(Primary, m) = {} => wallet[m] = 0
         /\ \A p \in PositionFor(Primary, m) : wallet[m] = positions[p].size_usd

\* What the wallet should hold of a token whose fills are all recorded.
BookAgrees(m) ==
    /\ PositionFor(Primary, m) = {} => wallet[m] = 0
    /\ \A p \in PositionFor(Primary, m) : wallet[m] = positions[p].size_usd

LEMMA ChainOpen ==
    ASSUME IInv, ChainInv, OpenDb, Primary \in OnChain, "wallet" \notin torn,
           NEW m \in Mints
    PROVE  BookAgrees(m)'
  <1> DEFINE new == Len(positions) + 1
  <1>1. /\ DOMAIN positions' = DOMAIN positions \cup {new}
        /\ new \notin DOMAIN positions
        /\ \A q \in DOMAIN positions : positions'[q] = positions[q]
        /\ positions'[new].instance = swap.instance
        /\ positions'[new].mint = swap.mint
        /\ positions'[new].status = "open"
        /\ positions'[new].size_usd = swap.usd
        /\ PositionFor(swap.instance, swap.mint) = {}
    BY OpenDbLemma
  <1> HIDE DEF new
  <1>2. pc = "OpenDb" /\ UNCHANGED wallet
    BY DEF OpenDb, outsideVars
  <1>3. CASE swap.instance = Primary /\ swap.mint = m
    <2>1. wallet[m] = swap.usd
      BY <1>2, <1>3 DEF ChainInv
    <2>2. PositionFor(Primary, m)' = {new}
      BY <1>1, <1>3 DEF PositionFor, OpenPositions
    <2>3. QED
      BY <1>1, <1>2, <2>1, <2>2 DEF BookAgrees
  <1>4. CASE ~(swap.instance = Primary /\ swap.mint = m)
    <2>1. BookAgrees(m)
      BY <1>2, <1>4 DEF ChainInv, BookAgrees
    <2>2. PositionFor(Primary, m)' = PositionFor(Primary, m)
      BY <1>1, <1>4 DEF PositionFor, OpenPositions
    <2>3. \A p \in PositionFor(Primary, m) : positions'[p] = positions[p]
      BY <1>1 DEF PositionFor, OpenPositions
    <2>4. QED
      BY <1>2, <2>1, <2>2, <2>3 DEF BookAgrees
  <1>5. QED
    BY <1>3, <1>4

LEMMA ChainClose ==
    ASSUME IInv, BookInv, ChainInv, CloseDb, Primary \in OnChain, "wallet" \notin torn,
           NEW m \in Mints
    PROVE  BookAgrees(m)'
  <1>1. PICK s : s = swap.id
    OBVIOUS
  <1>2. /\ s \in DOMAIN positions /\ positions[s].status = "open"
        /\ DOMAIN positions' = DOMAIN positions
        /\ \A q \in DOMAIN positions :
              /\ q # s => positions'[q] = positions[q]
              /\ positions'[q].instance = positions[q].instance
              /\ positions'[q].mint = positions[q].mint
              /\ positions'[q].size_usd = positions[q].size_usd
        /\ positions'[s].status = "closed"
    BY <1>1, CloseDbLemma
  <1>3. /\ pc = "CloseDb" /\ UNCHANGED wallet
        /\ positions[s].instance = swap.instance /\ positions[s].mint = swap.mint
    BY <1>1 DEF CloseDb, outsideVars, IInv, SwapInv, ChainInv
  <1>4. Primary \in Instances
    BY WorkerAssumption, EmptySeq, LenProperties, ElementOfSeq DEF Primary
  <1>5. CASE swap.instance = Primary /\ swap.mint = m
    <2>1. wallet[m] = 0
      BY <1>3, <1>5 DEF ChainInv
    <2>2. s \in PositionFor(Primary, m)
      BY <1>2, <1>3, <1>5 DEF PositionFor, OpenPositions
    <2>3. PositionFor(Primary, m) \subseteq {s}
      BY <1>4, <2>2 DEF BookInv, OneOpenPerMint
    <2>4. PositionFor(Primary, m)' = {}
      BY <1>2, <2>3 DEF PositionFor, OpenPositions
    <2>5. QED
      BY <1>3, <2>1, <2>4 DEF BookAgrees
  <1>6. CASE ~(swap.instance = Primary /\ swap.mint = m)
    <2>1. BookAgrees(m)
      BY <1>3, <1>6 DEF ChainInv, BookAgrees
    <2>2. PositionFor(Primary, m)' = PositionFor(Primary, m)
      BY <1>2, <1>3, <1>6 DEF PositionFor, OpenPositions
    <2>3. \A p \in PositionFor(Primary, m) : positions'[p].size_usd = positions[p].size_usd
      BY <1>2 DEF PositionFor, OpenPositions
    <2>4. QED
      BY <1>3, <2>1, <2>2, <2>3 DEF BookAgrees
  <1>7. QED
    BY <1>5, <1>6

LEMMA ChainEnter ==
    ASSUME IInv, ChainInv, Enter, Primary \in OnChain, "wallet" \notin torn',
           NEW m \in Mints
    PROVE  HeldAgrees(m)'
  <1>1. PICK k \in Mints, size \in Sizes, outcome \in {"filled", "refused", "unseen", "ghost"} :
           /\ Candidate(Serving, k)
           /\ Outcome(Serving, outcome)
           /\ MoveTokens(Serving, k, size, outcome)
           /\ IF Reported(outcome)
              THEN /\ swap' = [side |-> "buy", instance |-> Serving, mint |-> k, id |-> 0,
                               usd |-> size, manual |-> FALSE]
                   /\ Goto("OpenDb")
              ELSE UNCHANGED <<swap, pc>>
    BY DEF Enter
  <1>2. pc = "Scan" /\ UNCHANGED positions /\ "wallet" \notin torn
    BY <1>1 DEF Enter, Outcome, portfolioVars
  <1>3. \A n \in Mints : BookAgrees(n)
    BY <1>2 DEF ChainInv, BookAgrees
  <1>4. outcome \in {"filled", "refused"}
    BY <1>1 DEF Outcome
  <1>5. PositionFor(Primary, m)' = PositionFor(Primary, m)
    BY <1>2 DEF PositionFor, OpenPositions
  <1>6. CASE outcome = "refused"
    BY <1>1, <1>2, <1>3, <1>5, <1>6 DEF Reported, MoveTokens, Landed, HeldAgrees, BookAgrees
  <1>7. CASE outcome = "filled"
    <2>1. /\ pc' = "OpenDb" /\ swap'.instance = Serving /\ swap'.mint = k
          /\ swap'.usd = size
      BY <1>1, <1>7 DEF Reported, Goto
    <2>2. wallet' = IF Serving \in OnChain THEN [wallet EXCEPT ![k] = @ + size] ELSE wallet
      BY <1>1, <1>7 DEF MoveTokens, Landed
    <2>3. wallet \in [Mints -> Int] /\ size \in Nat
      BY WorkerAssumption DEF IInv, TypeOK, WorkerTypeOK
    <2>4. CASE Serving = Primary /\ k = m
      <3>1. wallet[m] = 0
        BY <1>1, <1>3, <2>4 DEF Candidate, BookAgrees
      <3>2. wallet'[m] = size
        BY <2>2, <2>3, <2>4, <3>1
      <3>3. QED
        BY <2>1, <2>4, <3>2 DEF HeldAgrees
    <2>5. CASE ~(Serving = Primary /\ k = m)
      <3>1. Serving \in OnChain => Serving = Primary
        BY WorkerAssumption DEF Primary
      <3>2. wallet'[m] = wallet[m]
        BY <2>2, <2>3, <2>5, <3>1
      <3>3. QED
        BY <1>2, <1>3, <1>5, <2>1, <2>5, <3>2 DEF HeldAgrees, BookAgrees
    <2>6. QED
      BY <2>4, <2>5
  <1>8. QED
    BY <1>4, <1>6, <1>7

\* A token's quantity is what leaves the wallet only at six decimals: see SellAmount.
SixDecimals == \A m \in Mints : UnitsPerToken[m] = 1000000

LEMMA ChainSell ==
    ASSUME SixDecimals, IInv, BookInv, ChainInv, HandleManualClose \/ Exit,
           Primary \in OnChain, "wallet" \notin torn', NEW m \in Mints
    PROVE  HeldAgrees(m)'
  <1>1. UNCHANGED positions /\ pc \notin {"OpenDb", "CloseDb"} /\ pc' # "OpenDb"
    BY SellAnatomy
  <1>2. "wallet" \notin torn
    BY DEF HandleManualClose, Exit, SubmitSell, Outcome
  <1>3. BookAgrees(m)
    BY <1>1, <1>2 DEF ChainInv, BookAgrees
  <1>4. PositionFor(Primary, m)' = PositionFor(Primary, m)
    BY <1>1 DEF PositionFor, OpenPositions
  <1>5. CASE pc' # "CloseDb" /\ UNCHANGED wallet
    BY <1>1, <1>3, <1>4, <1>5 DEF HeldAgrees, BookAgrees
  <1>6. CASE \E p \in DOMAIN positions :
                /\ pc' = "CloseDb"
                /\ positions[p].status = "open"
                /\ swap'.instance = positions[p].instance
                /\ swap'.mint = positions[p].mint
                /\ wallet' = IF positions[p].instance \in OnChain
                             THEN [wallet EXCEPT ![positions[p].mint] =
                                      @ - SellAmount(positions[p].mint,
                                                     positions[p].size_usd)]
                             ELSE wallet
    <2>1. PICK p \in DOMAIN positions :
             /\ pc' = "CloseDb"
             /\ positions[p].status = "open"
             /\ swap'.instance = positions[p].instance
             /\ swap'.mint = positions[p].mint
             /\ wallet' = IF positions[p].instance \in OnChain
                          THEN [wallet EXCEPT ![positions[p].mint] =
                                   @ - SellAmount(positions[p].mint, positions[p].size_usd)]
                          ELSE wallet
      BY <1>6
    <2>2. /\ positions[p].mint \in Mints /\ positions[p].size_usd \in Nat
          /\ wallet \in [Mints -> Int]
      BY BookTypes DEF PositionRow, IInv, TypeOK, WorkerTypeOK
    <2>3. SellAmount(positions[p].mint, positions[p].size_usd) = positions[p].size_usd
      BY <2>2, SellAmountLemma DEF SixDecimals
    <2>4. CASE positions[p].instance = Primary /\ positions[p].mint = m
      <3>1. p \in PositionFor(Primary, m)
        BY <2>1, <2>4 DEF PositionFor, OpenPositions
      <3>2. wallet[m] = positions[p].size_usd
        BY <1>3, <3>1 DEF BookAgrees
      <3>3. wallet'[m] = 0
        BY <2>1, <2>2, <2>3, <2>4, <3>2
      <3>4. QED
        BY <2>1, <2>4, <3>3 DEF HeldAgrees
    <2>5. CASE ~(positions[p].instance = Primary /\ positions[p].mint = m)
      <3>1. positions[p].instance \in OnChain => positions[p].instance = Primary
        BY WorkerAssumption DEF Primary
      <3>2. wallet'[m] = wallet[m]
        BY <2>1, <2>2, <2>5, <3>1
      <3>3. QED
        BY <1>1, <1>3, <1>4, <2>1, <2>5, <3>2 DEF HeldAgrees, BookAgrees
    <2>6. QED
      BY <2>4, <2>5
  <1>7. QED
    BY <1>5, <1>6, SellAnatomy

LEMMA ChainStep ==
    ASSUME SixDecimals
    PROVE  IInv /\ BookInv /\ ChainInv /\ [Next]_vars => ChainInv'
  <1> SUFFICES ASSUME IInv, BookInv, ChainInv, [Next]_vars
               PROVE  ChainInv'
    OBVIOUS
  <1>1. ASSUME pc' = "CloseDb"
        PROVE  positions'[swap'.id].mint = swap'.mint
    <2>1. CASE HandleManualClose \/ Exit
      BY <1>1, <2>1, SellAnatomy
    <2>2. CASE OpenDb \/ CloseDb \/ Enter
      BY <1>1, <2>2 DEF OpenDb, CloseDb, Enter, Goto, AfterClose
    <2>3. CASE UNCHANGED <<positions, pc, swap>> \/ pc' \notin {"OpenDb", "CloseDb"}
      BY <1>1, <2>3 DEF ChainInv
    <2>4. QED
      BY <2>1, <2>2, <2>3, ChainWriters
  <1>2. ASSUME Primary \in OnChain, "wallet" \notin torn', NEW m \in Mints
        PROVE  HeldAgrees(m)'
    <2>1. CASE OpenDb \/ CloseDb
      <3>1. "wallet" \notin torn /\ pc' \notin {"OpenDb", "CloseDb"}
        BY <1>2, <2>1 DEF OpenDb, CloseDb, historyVars, Goto, AfterClose
      <3>2. BookAgrees(m)'
        BY <1>2, <2>1, <3>1, ChainOpen, ChainClose
      <3>3. QED
        BY <3>1, <3>2 DEF HeldAgrees, BookAgrees
    <2>2. CASE Enter
      BY <1>2, <2>2, ChainEnter
    <2>3. CASE HandleManualClose \/ Exit
      BY <1>2, <2>3, ChainSell
    <2>4. CASE /\ UNCHANGED <<positions, wallet>> /\ torn \subseteq torn'
               /\ \/ UNCHANGED <<pc, swap>>
                  \/ pc \notin {"OpenDb", "CloseDb"} /\ pc' \notin {"OpenDb", "CloseDb"}
      <3>1. HeldAgrees(m)
        BY <1>2, <2>4 DEF ChainInv, HeldAgrees
      <3>2. PositionFor(Primary, m)' = PositionFor(Primary, m)
        BY <2>4 DEF PositionFor, OpenPositions
      <3>3. QED
        BY <2>4, <3>1, <3>2 DEF HeldAgrees
    <2>5. QED
      BY <1>2, <2>1, <2>2, <2>3, <2>4, ChainWriters
  <1>3. QED
    BY <1>1, <1>2 DEF ChainInv, HeldAgrees

(* Where tokens have the six decimals the sale assumes, book and chain     *)
(* agree between ticks unless a fault separated a swap from its record: no *)
(* order of exits, entries, manual closes, crashes and restarts parts them *)
(* (LiveExecutor, Engine._open, Engine._close).                            *)
THEOREM ChainFollowed ==
    ASSUME SixDecimals
    PROVE  Spec => []BookFollowsChain
  <1>1. Init => ChainInv
    BY DEF Init, PortfolioInit, ChainInv, PositionFor, OpenPositions
  <1>2. ChainInv => BookFollowsChain
    <2> SUFFICES ASSUME ChainInv, pc = "Drain", Primary \in OnChain, "wallet" \notin torn
                 PROVE  WalletAgrees
      BY DEF BookFollowsChain
    <2>1. \A m \in Mints : BookAgrees(m)
      BY DEF ChainInv, BookAgrees
    <2>2. QED
      BY <2>1 DEF WalletAgrees, BookAgrees
  <1>3. IInv /\ BookInv /\ ChainInv /\ [Next]_vars => ChainInv'
    BY ChainStep
  <1>4. QED
    BY <1>1, <1>2, <1>3, Invariance, BookInvariance, PTL DEF Spec

LEMMA StakeStep == IInv /\ StakeInv /\ [Next]_vars => StakeInv'
  <1> SUFFICES ASSUME IInv, StakeInv, [Next]_vars
               PROVE  StakeInv'
    OBVIOUS
  <1>1. CASE OpenDb
    <2> DEFINE new == Len(positions) + 1
    <2>1. /\ DOMAIN positions' = DOMAIN positions \cup {new}
          /\ \A q \in DOMAIN positions : positions'[q] = positions[q]
          /\ positions'[new].size_usd = swap.usd
          /\ swap.usd \in Nat \ {0}
      BY <1>1, OpenDbLemma
    <2> HIDE DEF new
    <2>2. QED
      BY <2>1 DEF StakeInv
  <1>2. CASE CloseDb
    BY <1>2, CloseDbLemma DEF StakeInv
  <1>3. CASE UNCHANGED portfolioVars
    BY <1>3 DEF StakeInv, portfolioVars
  <1>4. QED
    BY <1>1, <1>2, <1>3, JournalWriters

(* A worker that comes up trading believes in no position the wallet does  *)
(* not back, whatever faults and crashes came before and whatever accounts *)
(* the wallet query missed (Engine.startup, recovery._compare_wallet).     *)
THEOREM Backed == Spec => BackedAfterRecovery
  <1> DEFINE Checked ==
               pc = "Down" /\ pc' # "Down" /\ Primary \in OnChain /\ ~halt'
                 => \A p \in OpenPositions(Primary) :
                       wallet[positions[p].mint] = positions[p].size_usd
  <1>1. ASSUME IInv, StakeInv, [Next]_vars,
               pc = "Down", pc' # "Down", Primary \in OnChain, ~halt',
               NEW p \in OpenPositions(Primary)
        PROVE  wallet[positions[p].mint] = positions[p].size_usd
    <2>1. Startup
      BY <1>1 DEF Next, WorkerStep, Environment, Web, Crash, Drain, HandleControl,
         HandleSetShadow, HandleManualClose, Finish, CommandFails, BeginTick, Exit,
         ManageNext, CloseDb, RiskDb, GatePass, GateRefuse, GateDone, Enter, OpenDb,
         EndScan, ServeBroad, Housekeeping, DbError, FinishError, Abort, Tick, WebEnqueue,
         WebWriteKill, WebQueueKill, WebDies, webUnchanged, vars
    <2>2. PICK hidden \in SUBSET {m \in Mints : wallet[m] > 0}, unreadable \in BOOLEAN :
             LET seen == [m \in Mints |-> IF m \in hidden THEN 0 ELSE wallet[m]]
             IN  IF Primary \in OnChain /\ (unreadable \/ Discrepant(seen))
                 THEN SetHalt(TRUE) ELSE UNCHANGED controlVars
      BY <2>1 DEF Startup
    <2> DEFINE seen == [m \in Mints |-> IF m \in hidden THEN 0 ELSE wallet[m]]
    <2>3. ~Discrepant(seen)
      BY <1>1, <2>2 DEF SetHalt
    <2>4. /\ p \in DOMAIN positions /\ positions[p].mint \in Mints
          /\ positions[p].size_usd > 0 /\ positions[p].size_usd \in Nat
      BY <1>1, BookTypes DEF OpenPositions, PositionRow, StakeInv, IInv, TypeOK
    <2>5. seen[positions[p].mint] = positions[p].size_usd
      BY <1>1, <2>3 DEF Discrepant
    <2>6. seen[positions[p].mint] = IF positions[p].mint \in hidden THEN 0
                                    ELSE wallet[positions[p].mint]
      BY <2>4
    <2> HIDE DEF seen
    <2>7. QED
      BY <2>4, <2>5, <2>6
  <1>2. IInv /\ StakeInv /\ [Next]_vars => [Checked]_vars
    BY <1>1
  <1>3. Init => StakeInv
    BY DEF Init, PortfolioInit, StakeInv
  <1> HIDE DEF Checked
  <1>4. QED
    BY <1>2, <1>3, StakeStep, Invariance, PTL DEF Spec, BackedAfterRecovery, Checked

----------------------------------------------------------------------------
(* The purse *)

\* The two views, token by token.
StakeOf(i, m) == {positions[p].size_usd : p \in PositionFor(i, m)}
EnteredOf(i, m) == {positions[p].entry_ts : p \in Rows(i, m)}

LEMMA ViewsLemma ==
    /\ StakeView = [i \in Instances |-> [m \in Mints |-> StakeOf(i, m)]]
    /\ EnteredView = [i \in Instances |-> [m \in Mints |-> EnteredOf(i, m)]]
    /\ StakeView' = [i \in Instances |-> [m \in Mints |-> StakeOf(i, m)']]
    /\ EnteredView' = [i \in Instances |-> [m \in Mints |-> EnteredOf(i, m)']]
  BY DEF StakeView, EnteredView, StakeOf, EnteredOf

\* Two views that differ in one token of one instance.
LEMMA OneCell ==
    ASSUME NEW f, NEW g, NEW i \in Instances, NEW m \in Mints, NEW v,
           f = [j \in Instances |-> [k \in Mints |-> f[j][k]]],
           g = [j \in Instances |-> [k \in Mints |-> g[j][k]]],
           g[i][m] = v,
           \A j \in Instances, k \in Mints : ~(j = i /\ k = m) => g[j][k] = f[j][k]
    PROVE  g = [f EXCEPT ![i][m] = v]
  <1> DEFINE cells == [f[i] EXCEPT ![m] = v]
  <1>1. f[i] = [k \in Mints |-> f[i][k]] /\ g[i] = [k \in Mints |-> g[i][k]]
    OBVIOUS
  <1>2. cells = [k \in Mints |-> IF k = m THEN v ELSE f[i][k]]
    BY <1>1
  <1>3. g[i] = cells
    BY <1>1, <1>2
  <1>4. \A j \in Instances \ {i} : g[j] = f[j]
    <2> SUFFICES ASSUME NEW j \in Instances \ {i} PROVE g[j] = f[j]
      OBVIOUS
    <2>1. f[j] = [k \in Mints |-> f[j][k]] /\ g[j] = [k \in Mints |-> g[j][k]]
      OBVIOUS
    <2>2. \A k \in Mints : g[j][k] = f[j][k]
      OBVIOUS
    <2>3. QED
      BY <2>1, <2>2
  <1> HIDE DEF cells
  <1>5. [f EXCEPT ![i] = cells] = [j \in Instances |-> IF j = i THEN cells ELSE f[j]]
    OBVIOUS
  <1>6. g = [f EXCEPT ![i] = cells]
    BY <1>3, <1>4, <1>5
  <1>7. QED
    BY <1>6 DEF cells

\* Recording a buy is a Place.
LEMMA PlaceStep ==
    ASSUME IInv, OpenDb, UNCHANGED now
    PROVE  Purse!Next
  <1> DEFINE i == swap.instance
             m == swap.mint
             new == Len(positions) + 1
  <1>0. PortfolioTypeOK
    BY DEF IInv, TypeOK
  <1>1. /\ i \in Instances /\ m \in Mints
        /\ swap.usd \in Nat \ {0}
        /\ OpenPosition(i, m, swap.usd, now)
        /\ PositionFor(i, m) = {}
        /\ \A q \in Rows(i, m) : now - positions[q].entry_ts >= SameMintGap
        /\ DOMAIN positions' = DOMAIN positions \cup {new}
        /\ new \notin DOMAIN positions
        /\ \A q \in DOMAIN positions : positions'[q] = positions[q]
        /\ positions'[new].instance = i /\ positions'[new].mint = m
        /\ positions'[new].status = "open"
        /\ positions'[new].size_usd = swap.usd
        /\ positions'[new].entry_ts = now
    BY OpenDbLemma
  <1> HIDE DEF i, m, new
  <1>2. ASSUME NEW j \in Instances, NEW k \in Mints, ~(j = i /\ k = m)
        PROVE  StakeOf(j, k)' = StakeOf(j, k) /\ EnteredOf(j, k)' = EnteredOf(j, k)
    <2>1. PositionFor(j, k)' = PositionFor(j, k) /\ Rows(j, k)' = Rows(j, k)
      BY <1>1, <1>2 DEF PositionFor, OpenPositions, Rows
    <2>2. PositionFor(j, k) \subseteq DOMAIN positions /\ Rows(j, k) \subseteq DOMAIN positions
      BY DEF PositionFor, OpenPositions, Rows
    <2>3. QED
      BY <1>1, <2>1, <2>2 DEF StakeOf, EnteredOf
  <1>3. /\ StakeView'[i][m] = {swap.usd}
        /\ EnteredView'[i][m] = EnteredView[i][m] \cup {now}
    <2>1. /\ {p \in DOMAIN positions' : /\ positions'[p].instance = i
                                        /\ positions'[p].status = "open"
                                        /\ positions'[p].mint = m} = {new}
          /\ {p \in DOMAIN positions' : /\ positions'[p].instance = i
                                        /\ positions'[p].mint = m} = Rows(i, m) \cup {new}
      BY <1>1 DEF PositionFor, OpenPositions, Rows
    <2>2. /\ StakeView'[i][m] = {positions'[p].size_usd : p \in {new}}
          /\ EnteredView'[i][m] = {positions'[p].entry_ts : p \in Rows(i, m) \cup {new}}
      BY <1>1, <2>1 DEF StakeView, EnteredView, PositionFor, OpenPositions, Rows
    <2>3. QED
      BY <1>1, <2>2 DEF EnteredView, Rows
  <1>4. /\ StakeView' = [StakeView EXCEPT ![i][m] = {swap.usd}]
        /\ EnteredView' = [EnteredView EXCEPT ![i][m] = @ \cup {now}]
    <2>1. /\ StakeView = [j \in Instances |-> [k \in Mints |-> StakeView[j][k]]]
          /\ EnteredView = [j \in Instances |-> [k \in Mints |-> EnteredView[j][k]]]
          /\ StakeView' = [j \in Instances |-> [k \in Mints |-> StakeView'[j][k]]]
          /\ EnteredView' = [j \in Instances |-> [k \in Mints |-> EnteredView'[j][k]]]
      BY ViewsLemma
    <2>2. \A j \in Instances, k \in Mints :
             ~(j = i /\ k = m) => /\ StakeView'[j][k] = StakeView[j][k]
                                  /\ EnteredView'[j][k] = EnteredView[j][k]
      BY <1>2, ViewsLemma
    <2>3. StakeView' = [StakeView EXCEPT ![i][m] = {swap.usd}]
      BY <1>1, <1>3, <2>1, <2>2, OneCell
    <2>4. EnteredView' = [EnteredView EXCEPT ![i][m] = EnteredView[i][m] \cup {now}]
      BY <1>1, <1>3, <2>1, <2>2, OneCell
    <2>5. QED
      BY <1>1, <2>3, <2>4, ViewsLemma
  <1>5. /\ StakeView[i][m] = {}
        /\ \A t \in EnteredView[i][m] : now - t >= SameMintGap
    BY <1>1 DEF StakeView, EnteredView
  <1>6. balance' = [balance EXCEPT ![i] = @ - swap.usd]
    BY <1>1 DEF OpenPosition
  <1>7. Purse!Place(i, m)
    BY <1>1, <1>3, <1>4, <1>5, <1>6 DEF Purse!Place
  <1>8. QED
    BY <1>1, <1>7 DEF Purse!Next

\* Recording a sale is a Settle.
LEMMA SettleStep ==
    ASSUME IInv, OneOpenPerMint, CloseDb, UNCHANGED now
    PROVE  Purse!Next
  <1>1. PICK s \in DOMAIN positions, i \in Instances, m \in Mints, usd \in Nat :
           /\ s = swap.id /\ usd = swap.usd
           /\ positions[s].status = "open"
           /\ positions[s].instance = i /\ positions[s].mint = m
           /\ ClosePosition(s, usd)
           /\ DOMAIN positions' = DOMAIN positions
           /\ positions'[s].status = "closed"
           /\ \A q \in DOMAIN positions :
                 /\ q # s => positions'[q] = positions[q]
                 /\ positions'[q].instance = positions[q].instance
                 /\ positions'[q].mint = positions[q].mint
                 /\ positions'[q].size_usd = positions[q].size_usd
                 /\ positions'[q].entry_ts = positions[q].entry_ts
    BY CloseDbLemma
  <1>2. balance' = [balance EXCEPT ![i] = @ + usd] /\ balance \in [Instances -> Int]
    BY <1>1 DEF ClosePosition, IInv, TypeOK, PortfolioTypeOK
  <1>3. s \in PositionFor(i, m)
    BY <1>1 DEF PositionFor, OpenPositions
  <1>4. /\ PositionFor(i, m)' = {}
        /\ \A j \in Instances, k \in Mints :
              ~(j = i /\ k = m) => PositionFor(j, k)' = PositionFor(j, k)
        /\ \A j \in Instances, k \in Mints : Rows(j, k)' = Rows(j, k)
    <2>1. ASSUME NEW p \in PositionFor(i, m)'
          PROVE  FALSE
      <3>1. p \in PositionFor(i, m) /\ p # s
        BY <1>1, <2>1 DEF PositionFor, OpenPositions
      <3>2. QED
        BY <1>1, <1>3, <3>1 DEF OneOpenPerMint
    <2>2. QED
      BY <1>1, <2>1 DEF PositionFor, OpenPositions, Rows
  <1>5. ASSUME NEW j \in Instances, NEW k \in Mints
        PROVE  /\ EnteredOf(j, k)' = EnteredOf(j, k)
               /\ ~(j = i /\ k = m) => StakeOf(j, k)' = StakeOf(j, k)
    <2>1. PositionFor(j, k) \subseteq DOMAIN positions /\ Rows(j, k) \subseteq DOMAIN positions
      BY DEF PositionFor, OpenPositions, Rows
    <2>2. QED
      BY <1>1, <1>4, <2>1 DEF StakeOf, EnteredOf
  <1>6. /\ StakeView'[i][m] = {}
        /\ \A j \in Instances, k \in Mints :
              ~(j = i /\ k = m) => StakeView'[j][k] = StakeView[j][k]
        /\ UNCHANGED EnteredView
    <2>1. StakeOf(i, m)' = {}
      BY <1>4 DEF StakeOf
    <2>2. QED
      BY <1>5, <2>1, ViewsLemma
  <1>7. StakeView' = [StakeView EXCEPT ![i][m] = {}]
    <2>1. /\ StakeView = [j \in Instances |-> [k \in Mints |-> StakeView[j][k]]]
          /\ StakeView' = [j \in Instances |-> [k \in Mints |-> StakeView'[j][k]]]
      BY ViewsLemma
    <2>2. QED
      BY <1>6, <2>1, OneCell
  <1>8. StakeView[i][m] # {}
    BY <1>3 DEF StakeView
  <1>9. balance'[i] - balance[i] \in Nat /\ balance' = [balance EXCEPT ![i] = balance'[i]]
    BY <1>2
  <1>10. Purse!Settle(i, m)
    BY <1>6, <1>7, <1>8, <1>9 DEF Purse!Settle
  <1>11. QED
    BY <1>10 DEF Purse!Next

LEMMA InitRefines == Init => Purse!Init
  BY DEF Init, PortfolioInit, Purse!Init, StakeView, EnteredView, PositionFor,
         OpenPositions, Rows

LEMMA StepRefines ==
    IInv /\ OneOpenPerMint /\ [Next]_vars => [Purse!Next]_Purse!accountVars
  <1> SUFFICES ASSUME IInv, OneOpenPerMint, [Next]_vars
               PROVE  [Purse!Next]_Purse!accountVars
    OBVIOUS
  <1>1. CASE OpenDb /\ UNCHANGED now
    BY <1>1, PlaceStep
  <1>2. CASE CloseDb /\ UNCHANGED now
    BY <1>2, SettleStep
  <1>3. CASE UNCHANGED <<positions, balance>> /\ (UNCHANGED now \/ now' = now + 1)
    <2>1. UNCHANGED <<StakeView, EnteredView>>
      BY <1>3 DEF StakeView, EnteredView, PositionFor, OpenPositions, Rows
    <2>2. QED
      BY <1>3, <2>1 DEF Purse!Next, Purse!Pass, Purse!accountVars
  <1>4. QED
    BY <1>1, <1>2, <1>3, BookWriters

(* Through every tick, manual close, failed order, failed write and        *)
(* restart, the book of every instance behaves like an Account: a stake is *)
(* placed only in a token it is flat in and past its cooldown, is settled  *)
(* once, and nothing else moves cash (open_position, close_position).      *)
THEOREM Implementation == Spec => ImplementsAccount
  <1>1. QED
    BY InitRefines, StepRefines, Invariance, OnePosition, PTL
    DEF Spec, ImplementsAccount, Purse!Spec
=============================================================================
