-------------------------- MODULE PositionExitProofs --------------------------
(***************************************************************************)
(* What TLAPS checks about PositionExit, for all prices, settings, ranges  *)
(* and bounds.                                                             *)
(***************************************************************************)
EXTENDS PositionExit, TLAPS

USE ExitAssumption

----------------------------------------------------------------------------
(* Operators *)

LEMMA DistanceLemma ==
    ASSUME NEW atr \in Nat, NEW multiple \in Nat
    PROVE  Distance(atr, multiple) \in Nat \ {0}
  <1>1. atr * multiple \in Nat
    OBVIOUS
  <1>2. QED
    BY <1>1 DEF Distance, Larger

\* update_trailing_stop only ever raises levels, and an armed trail covers the
\* costs it was called with.
LEMMA TrailLemma ==
    ASSUME NEW p \in RowType, NEW price \in Nat, NEW distance \in Nat, cfg \in Settings,
           p.armed <=> p.trail # NoTrail, p.entry > 0
    PROVE  LET q == UpdateTrailingStop(p, price, distance) IN
           /\ q \in RowType
           /\ q.entry = p.entry /\ q.risk = p.risk /\ q.hard_stop = p.hard_stop
           /\ q.trail >= p.trail /\ q.high >= p.high /\ (p.armed => q.armed)
           /\ q.armed <=> q.trail # NoTrail
           /\ q.armed => q.trail >= p.entry + cfg.round_trip_cost
  <1> DEFINE q == UpdateTrailingStop(p, price, distance)
  <1>0. /\ cfg.round_trip_cost \in Nat /\ cfg.activate_r \in Nat
        /\ p.entry \in Nat /\ p.trail \in Nat /\ p.high \in Nat /\ p.armed \in BOOLEAN
    BY DEF RowType, Setting
  <1> DEFINE armed == \/ p.armed
                      \/ price - p.entry >= cfg.activate_r * p.risk /\ price > Breakeven(p)
             high  == Larger(p.high, price)
             floor == Larger(Breakeven(p), p.trail)
             trail == IF armed THEN Larger(high - distance, floor) ELSE p.trail
  <1>1. q = [p EXCEPT !.high = high, !.armed = armed, !.trail = trail]
    BY DEF UpdateTrailingStop, Floor, RowType
  <1>2. high \in Nat /\ high >= p.high
    BY <1>0 DEF Larger
  <1>3. /\ floor \in Nat /\ floor >= p.trail /\ floor >= p.entry + cfg.round_trip_cost
        /\ floor > 0
    BY <1>0 DEF Larger, Breakeven
  <1>4. /\ trail \in Nat /\ trail >= p.trail
        /\ armed => trail >= floor
    BY <1>0, <1>2, <1>3 DEF Larger
  <1>5. armed \in BOOLEAN /\ (p.armed => armed)
    BY <1>0
  <1> HIDE DEF armed, high, trail
  <1>6. /\ q \in RowType /\ q.trail = trail /\ q.armed = armed /\ q.high = high
        /\ q.entry = p.entry /\ q.risk = p.risk /\ q.hard_stop = p.hard_stop
    BY <1>1, <1>2, <1>4, <1>5 DEF RowType
  <1>7. armed <=> trail # NoTrail
    <2>1. ~armed => trail = p.trail /\ ~p.armed
      BY <1>5 DEF trail
    <2>2. QED
      BY <1>3, <1>4, <2>1 DEF NoTrail
  <1>8. armed => trail >= p.entry + cfg.round_trip_cost
    BY <1>0, <1>3, <1>4
  <1> HIDE DEF q
  <1>9. QED
    BY <1>2, <1>4, <1>5, <1>6, <1>7, <1>8 DEF q

\* What a pass or a start does to an open position that is kept.
LEMMA LevelLemma ==
    ASSUME EInv, Open, cfg \in Settings, NEW count \in Nat, NEW price \in Nat, NEW distance \in Nat,
           row' = UpdateTrailingStop([row EXCEPT !.count = count], price, distance), Charge,
           UNCHANGED status
    PROVE  /\ row' \in RowType /\ row'.entry > 0 /\ row'.risk > 0 /\ row'.high >= row'.entry
           /\ charged' \in Nat
           /\ TrailCoversCosts'
           /\ Open' /\ ~row'.armed => charged' = 0
           /\ row'.hard_stop = row.hard_stop /\ row'.trail >= row.trail /\ row'.high >= row.high
           /\ row.armed => row'.armed
  <1> DEFINE p == [row EXCEPT !.count = count]
  <1>1. /\ p \in RowType /\ p.entry = row.entry /\ p.risk = row.risk /\ p.high = row.high
        /\ p.hard_stop = row.hard_stop /\ p.trail = row.trail /\ p.armed = row.armed
    BY DEF EInv, TypeOK, RowType
  <1>2. /\ row.entry > 0 /\ row.risk > 0 /\ row.high >= row.entry
        /\ row.armed <=> row.trail # NoTrail
        /\ row.armed => row.trail >= row.entry + charged
        /\ ~row.armed => charged = 0
        /\ charged \in Nat
        /\ row \in RowType
    BY DEF EInv, TypeOK, TrailCoversCosts
  <1>3. /\ row' \in RowType
        /\ row'.entry = p.entry /\ row'.risk = p.risk /\ row'.hard_stop = p.hard_stop
        /\ row'.trail >= p.trail /\ row'.high >= p.high /\ (p.armed => row'.armed)
        /\ row'.armed <=> row'.trail # NoTrail
        /\ row'.armed => row'.trail >= p.entry + cfg.round_trip_cost
    <2> HIDE DEF p
    <2>1. p.entry > 0 /\ (p.armed <=> p.trail # NoTrail)
      BY <1>1, <1>2
    <2>2. row' = UpdateTrailingStop(p, price, distance)
      BY DEF p
    <2>3. QED
      BY <1>1, <2>1, <2>2, TrailLemma
  <1>4. cfg.round_trip_cost \in Nat
    BY DEF Setting
  <1>5. charged' = IF row'.armed THEN Larger(charged, cfg.round_trip_cost) ELSE charged
    BY DEF Charge
  <1> HIDE DEF p
  <1>6. charged' \in Nat /\ (row'.armed => row'.trail >= row'.entry + charged')
    BY <1>1, <1>2, <1>3, <1>4, <1>5 DEF Larger, RowType
  <1>7. ~row'.armed => charged' = 0
    BY <1>1, <1>2, <1>3, <1>5
  <1>8. QED
    BY <1>1, <1>2, <1>3, <1>6, <1>7 DEF TrailCoversCosts, Open, RowType

----------------------------------------------------------------------------
(* Steps *)

\* What a step of each kind leaves alone.
LEMMA OtherSteps ==
    ASSUME [Next]_vars
    PROVE  Startup \/ Hold \/ Enter \/ UNCHANGED <<row, charged>>
  BY DEF Next, WorkerStep, Tick, Scan, ScanFails, Exit, NothingToManage, Rest, Crash, Move,
     SwitchHalt, NextBar, vars, rowVars, history, watchVars

LEMMA StartupLevels ==
    ASSUME EInv, Startup, Open, row' # row \/ charged' # charged
    PROVE  \E distance \in Nat : /\ row' = UpdateTrailingStop(row, market, distance)
                                 /\ Charge
  <1>1. PICK atr \in Atrs :
            row' = UpdateTrailingStop(row, market, Distance(atr, cfg.distance_atr)) /\ Charge
    BY DEF Startup
  <1>2. atr \in Nat /\ cfg.distance_atr \in Nat
    BY DEF EInv, TypeOK, Setting
  <1>3. QED
    BY <1>1, <1>2, DistanceLemma

LEMMA HoldLevels ==
    ASSUME EInv, Hold
    PROVE  \E distance \in Nat, count \in Nat :
              row' = UpdateTrailingStop([row EXCEPT !.count = count], last, distance)
  <1>1. PICK signal \in Signals, atr \in Atrs :
            row' = UpdateTrailingStop([row EXCEPT !.count = InvalidationCount(candles')], last,
                                      Distance(atr, TrailMultiple(row)))
    BY DEF Hold
  <1>2. InvalidationCount(candles') \in Nat
    BY DEF InvalidationCount, EInv, TypeOK, RowType, Hold
  <1>3. atr \in Nat /\ TrailMultiple(row) \in Nat
    BY DEF EInv, TypeOK, Setting, TrailMultiple, RowType
  <1>4. QED
    BY <1>1, <1>2, <1>3, DistanceLemma

----------------------------------------------------------------------------
(* The invariant *)

LEMMA InitLemma == Init => EInv
  <1> SUFFICES ASSUME Init
               PROVE  EInv
    OBVIOUS
  <1>1. row \in RowType /\ ~Open /\ charged = 0
    BY DEF Init, RowType, Open, NoTrail
  <1>2. halted \in BOOLEAN /\ primary \in BOOLEAN
    BY DEF Init
  <1>3. /\ pc \in Points /\ cfg \in Settings /\ candles \in Signals \cup {"none"}
        /\ last \in Prices \cup {NoPrice} /\ market \in Prices
        /\ status \in {"none", "open", "closed"}
        /\ {clock, crashes, faults, fading, charged} \subseteq Nat /\ fadedBars \subseteq 0 .. clock
    BY DEF Init, Points, NoPrice
  <1>4. QED
    BY <1>1, <1>2, <1>3 DEF EInv, TypeOK, TrailCoversCosts

\* What the rows' own conjuncts come to.
RowOK ==
    /\ row \in RowType
    /\ Open => row.entry > 0 /\ row.risk > 0 /\ row.high >= row.entry
    /\ charged \in Nat
    /\ TrailCoversCosts
    /\ (status = "none" \/ (Open /\ ~row.armed)) => charged = 0

LEMMA RowStep == EInv /\ [Next]_vars => RowOK'
  <1> SUFFICES ASSUME EInv, [Next]_vars
               PROVE  RowOK'
    OBVIOUS
  <1>0. /\ RowOK /\ cfg \in Settings /\ market \in Nat /\ (last # NoPrice => last \in Nat)
        /\ row.count \in Nat /\ row = [row EXCEPT !.count = row.count]
    BY DEF EInv, TypeOK, RowOK, RowType, NoPrice
  <1>1. CASE Startup
    <2>1. CASE UNCHANGED <<row, charged>>
      BY <1>0, <1>1, <2>1 DEF Startup, RowOK, TrailCoversCosts, Open
    <2>2. CASE Open /\ (row' # row \/ charged' # charged)
      BY <1>0, <1>1, <2>2, StartupLevels, LevelLemma DEF Startup, RowOK, Open
    <2>3. QED
      BY <1>1, <2>1, <2>2 DEF Startup
  <1>2. CASE Hold
    <2>1. Open /\ UNCHANGED status /\ Charge /\ last \in Nat
      BY <1>0, <1>2 DEF Hold, rowVars
    <2>2. PICK distance \in Nat, count \in Nat :
              row' = UpdateTrailingStop([row EXCEPT !.count = count], last, distance)
      BY <1>2, HoldLevels
    <2>3. QED
      BY <1>0, <2>1, <2>2, LevelLemma DEF RowOK, Open
  <1>3. CASE Enter
    <2>1. PICK fill \in Fills, risk \in Risks, ratio \in RewardRatios, o \in Overrides :
              row' = Row(fill, risk, ratio, o)
      BY <1>3 DEF Enter
    <2>2. /\ fill \in Nat \ {0} /\ risk \in Nat \ {0} /\ ratio \in Nat /\ o \in Nat
          /\ clock \in Nat /\ risk * ratio \in Nat
      BY DEF EInv, TypeOK
    <2>3. /\ row' \in RowType /\ row'.entry > 0 /\ row'.risk > 0 /\ row'.high >= row'.entry
          /\ row'.armed = FALSE /\ row'.trail = NoTrail
      BY <2>1, <2>2 DEF Row, RowType, NoTrail
    <2>4. charged = 0 /\ charged' = charged
      BY <1>0, <1>3 DEF Enter, RowOK, history, watchVars
    <2>5. QED
      BY <2>3, <2>4 DEF RowOK, TrailCoversCosts
  <1>4. CASE UNCHANGED <<row, charged>> /\ ~Enter
    <2>1. UNCHANGED status \/ (Open /\ status' = "closed")
      BY <1>4 DEF Next, WorkerStep, Startup, Tick, Scan, ScanFails, Exit, Hold, NothingToManage,
         Rest, Crash, Move, SwitchHalt, NextBar, vars, rowVars
    <2>2. QED
      BY <1>0, <1>4, <2>1 DEF RowOK, TrailCoversCosts, Open
  <1>5. QED
    BY <1>1, <1>2, <1>3, <1>4, OtherSteps

LEMMA TypeStep == EInv /\ [Next]_vars => EInv'
  <1> SUFFICES ASSUME EInv, [Next]_vars
               PROVE  EInv'
    OBVIOUS
  <1>0. /\ RowOK' /\ TypeOK
        /\ {clock, crashes, faults, fading} \subseteq Nat
    BY RowStep DEF EInv, TypeOK
  <1>1. /\ status' \in {"none", "open", "closed"} /\ primary' \in BOOLEAN
        /\ pc' \in Points
    BY <1>0 DEF TypeOK, Points, Next, WorkerStep, Startup, Tick, Scan, ScanFails, Exit, Hold,
       NothingToManage, Enter, Rest, Crash, Move, SwitchHalt, NextBar, vars, rowVars, workerVars,
       Goto, AfterPass
  <1>2. /\ halted' \in BOOLEAN /\ market' \in Prices
        /\ cfg' \in Settings /\ last' \in Prices \cup {NoPrice}
    BY <1>0 DEF TypeOK, Next, WorkerStep, Startup, Tick, Scan, ScanFails, Exit, Hold,
       NothingToManage, Enter, Rest, Crash, Move, SwitchHalt, NextBar, vars, rowVars, workerVars,
       outsideVars
  <1>3. candles' \in Signals \cup {"none"}
    BY <1>0 DEF TypeOK, Next, WorkerStep, Startup, Tick, Scan, ScanFails, Exit, Hold, Candles,
       NothingToManage, Enter, Rest, Crash, Move, SwitchHalt, NextBar, vars, workerVars
  <1>4. clock' \in Nat /\ crashes' \in Nat
    BY <1>0 DEF Next, WorkerStep, Startup, Tick, Scan, ScanFails, Exit, Hold,
       NothingToManage, Enter, Rest, Crash, Move, SwitchHalt, NextBar, vars, outsideVars, boundVars
  <1>5. faults' \in Nat
    BY <1>0 DEF Next, WorkerStep, Startup, Tick, Scan, ScanFails, Exit, Hold,
       NothingToManage, Enter, Rest, Crash, Move, SwitchHalt, NextBar, vars, boundVars
  <1>6. fading' \in Nat
    BY <1>0 DEF Next, WorkerStep, Startup, Tick, Scan, ScanFails, Exit, Hold, Watch,
       NothingToManage, Enter, Rest, Crash, Move, SwitchHalt, NextBar, vars, history, watchVars
  <1>7. fadedBars' \subseteq 0 .. clock'
    <2>1. clock \in Nat /\ fadedBars \subseteq 0 .. clock
      BY <1>0 DEF TypeOK
    <2>2. \/ UNCHANGED <<clock, fadedBars>>
          \/ UNCHANGED clock /\ fadedBars' \in {{}, fadedBars \union {clock}}
          \/ clock' = clock + 1 /\ UNCHANGED fadedBars
      BY DEF Next, WorkerStep, Startup, Tick, Scan, ScanFails, Exit, Hold, Watch,
         NothingToManage, Enter, Rest, Crash, Move, SwitchHalt, NextBar, vars, outsideVars,
         history, watchVars
    <2>3. CASE UNCHANGED <<clock, fadedBars>>
      BY <2>1, <2>3
    <2>4. CASE UNCHANGED clock /\ fadedBars' \in {{}, fadedBars \union {clock}}
      <3>1. clock \in 0 .. clock
        BY <2>1
      <3>2. fadedBars \union {clock} \subseteq 0 .. clock
        BY <2>1, <3>1
      <3>3. QED
        BY <2>4, <3>2
    <2>5. CASE clock' = clock + 1 /\ UNCHANGED fadedBars
      <3>1. 0 .. clock \subseteq 0 .. clock + 1
        BY <2>1
      <3>2. QED
        BY <2>1, <2>5, <3>1
    <2>6. QED
      BY <2>2, <2>3, <2>4, <2>5
  <1>8. QED
    BY <1>0, <1>1, <1>2, <1>3, <1>4, <1>5, <1>6, <1>7 DEF EInv, TypeOK, RowOK

THEOREM Invariance == Spec => []EInv
  BY InitLemma, TypeStep, PTL DEF Spec

(* Every variable keeps its type, over any settings, prices and restarts.   *)
THEOREM TypeCorrect == Spec => []TypeOK
  <1>1. EInv => TypeOK
    BY DEF EInv
  <1>2. QED
    BY <1>1, Invariance, PTL

(* update_trailing_stop and recovery never place an armed trail below what  *)
(* a round trip costs, whatever it was reckoned to cost at any pass so far. *)
THEOREM CostsCovered == Spec => []TrailCoversCosts
  <1>1. EInv => TrailCoversCosts
    BY DEF EInv
  <1>2. QED
    BY <1>1, Invariance, PTL

LEMMA LooseningStep ==
    EInv /\ [Next]_vars =>
        [Open => /\ row'.hard_stop = row.hard_stop
                 /\ row'.trail >= row.trail
                 /\ row'.high >= row.high
                 /\ row.armed => row'.armed]_vars
  <1> SUFFICES ASSUME EInv, [Next]_vars, Open
               PROVE  /\ row'.hard_stop = row.hard_stop
                      /\ row'.trail >= row.trail
                      /\ row'.high >= row.high
                      /\ row.armed => row'.armed
    OBVIOUS
  <1>0. /\ cfg \in Settings /\ market \in Nat /\ (last # NoPrice => last \in Nat)
        /\ row \in RowType /\ row.count \in Nat /\ row = [row EXCEPT !.count = row.count]
    BY DEF EInv, TypeOK, RowType, NoPrice
  <1>1. CASE UNCHANGED <<row, charged>>
    BY <1>0, <1>1 DEF RowType
  <1>2. CASE Startup /\ (row' # row \/ charged' # charged)
    <2>1. PICK distance \in Nat : row' = UpdateTrailingStop(row, market, distance) /\ Charge
      BY <1>2, StartupLevels
    <2>2. UNCHANGED status
      BY <1>2 DEF Startup
    <2>3. QED
      BY <1>0, <2>1, <2>2, LevelLemma
  <1>3. CASE Hold
    <2>1. PICK distance \in Nat, count \in Nat :
              row' = UpdateTrailingStop([row EXCEPT !.count = count], last, distance)
      BY <1>3, HoldLevels
    <2>2. UNCHANGED status /\ Charge /\ last \in Nat
      BY <1>0, <1>3 DEF Hold
    <2>3. QED
      BY <1>0, <2>1, <2>2, LevelLemma
  <1>4. CASE Enter
    BY <1>4 DEF Enter, Open
  <1>5. QED
    BY <1>1, <1>2, <1>3, <1>4, OtherSteps

(* No pass, restart or change of settings gives up a level that protects an *)
(* open position.                                                           *)
THEOREM NeverLoosens == Spec => StopNeverLoosens
  BY Invariance, LooseningStep, PTL DEF Spec, StopNeverLoosens

----------------------------------------------------------------------------
(* Counting, and the room of the trail *)

\* An armed trail is where costs or one of the distances put it: what the
\* costs charged so far come to, or no nearer to the high-water mark than the
\* position's own distance, or than a configured one where that is in use.
LeavesRoom(p, charge, restarts) ==
    p.armed =>
        \/ p.trail = p.entry + charge
        \/ \E atr \in Atrs :
              \/ p.override # 0 /\ p.trail <= p.high - Distance(atr, p.override)
              \/ /\ p.override = 0 \/ restarts > 0
                 /\ \E s \in Settings : p.trail <= p.high - Distance(atr, s.distance_atr)

LEMMA UpdateKeeps ==
    ASSUME NEW p \in RowType, NEW price, NEW distance
    PROVE  LET q == UpdateTrailingStop(p, price, distance) IN
           /\ q.entry = p.entry /\ q.override = p.override /\ q.count = p.count
           /\ q.since = p.since
           /\ q.high = Larger(p.high, price)
           /\ q.armed => q.trail = Larger(q.high - distance, Floor(p))
  BY DEF UpdateTrailingStop, RowType

\* Where the new trail is not the distance's, the costs or the old trail put
\* it there; the old trail has less room than before only by the high-water
\* mark's rising.
LEMMA RoomLemma ==
    ASSUME EInv, Open, NEW p \in RowType, cfg \in Settings, NEW price \in Nat,
           NEW distance \in Nat,
           p.entry = row.entry, p.trail = row.trail, p.armed = row.armed, p.high = row.high,
           p.override = row.override,
           row' = UpdateTrailingStop(p, price, distance), Charge,
           LeavesRoom(row, charged, crashes),
           UNCHANGED crashes,
           \E atr \in Atrs :
              \/ row.override # 0 /\ distance = Distance(atr, row.override)
              \/ /\ row.override = 0 \/ crashes > 0
                 /\ \E s \in Settings : distance = Distance(atr, s.distance_atr)
    PROVE  LeavesRoom(row', charged', crashes')
  <1> SUFFICES ASSUME row'.armed
               PROVE  \/ row'.trail = row'.entry + charged'
                      \/ \E atr \in Atrs :
                            \/ /\ row'.override # 0
                               /\ row'.trail <= row'.high - Distance(atr, row'.override)
                            \/ /\ row'.override = 0 \/ crashes' > 0
                               /\ \E s \in Settings :
                                     row'.trail <= row'.high - Distance(atr, s.distance_atr)
    BY DEF LeavesRoom
  <1>0. /\ row.entry \in Nat /\ row.trail \in Nat /\ row.high \in Nat /\ row.entry > 0
        /\ charged \in Nat /\ cfg.round_trip_cost \in Nat
        /\ row.armed <=> row.trail # NoTrail
        /\ row.armed => row.trail >= row.entry + charged
        /\ ~row.armed => charged = 0
    BY DEF EInv, TypeOK, RowType, Setting, TrailCoversCosts
  <1>1. /\ row'.entry = row.entry /\ row'.override = row.override
        /\ row'.high = Larger(row.high, price)
        /\ row'.trail = Larger(row'.high - distance,
                               Larger(row.entry + cfg.round_trip_cost, row.trail))
    BY UpdateKeeps DEF Floor, Breakeven
  <1>2. row'.high \in Nat /\ row'.high >= row.high
    BY <1>0, <1>1 DEF Larger
  <1>3. charged' = Larger(charged, cfg.round_trip_cost)
    BY DEF Charge
  <1>4. \A atr \in Atrs : \A s \in Settings :
           Distance(atr, s.distance_atr) \in Nat /\ Distance(atr, row.override) \in Nat
    BY DistanceLemma DEF EInv, TypeOK, RowType, Setting
  <1>5. CASE row'.trail = row'.high - distance
    BY <1>1, <1>2, <1>5
  <1>6. CASE row'.trail = row.entry + cfg.round_trip_cost /\ row'.trail >= row.trail
    BY <1>0, <1>1, <1>3, <1>6 DEF Larger
  <1>7. CASE row'.trail = row.trail /\ row.trail >= row.entry + cfg.round_trip_cost
    <2>1. row.armed
      BY <1>0, <1>7 DEF NoTrail
    <2>2. CASE row.trail = row.entry + charged
      BY <1>0, <1>1, <1>3, <1>7, <2>2 DEF Larger
    <2>3. CASE row.trail # row.entry + charged
      <3>1. PICK atr \in Atrs :
                \/ row.override # 0 /\ row.trail <= row.high - Distance(atr, row.override)
                \/ /\ row.override = 0 \/ crashes > 0
                   /\ \E s \in Settings : row.trail <= row.high - Distance(atr, s.distance_atr)
        BY <2>1, <2>3 DEF LeavesRoom
      <3>2. CASE row.override # 0 /\ row.trail <= row.high - Distance(atr, row.override)
        BY <1>0, <1>1, <1>2, <1>4, <1>7, <3>2
      <3>3. CASE /\ row.override = 0 \/ crashes > 0
                 /\ \E s \in Settings : row.trail <= row.high - Distance(atr, s.distance_atr)
        BY <1>0, <1>1, <1>2, <1>4, <1>7, <3>3
      <3>4. QED
        BY <3>1, <3>2, <3>3
    <2>4. QED
      BY <2>2, <2>3
  <1>8. QED
    BY <1>0, <1>1, <1>2, <1>5, <1>6, <1>7 DEF Larger

LEMMA HeldStep == EInv /\ HeldInv /\ [Next]_vars => HeldInv'
  <1> SUFFICES ASSUME EInv, HeldInv, [Next]_vars, Open'
               PROVE  (pc' = "Down" => crashes' > 0) /\ row'.count <= fading'
    BY DEF HeldInv
  <1>0. /\ row \in RowType /\ row.count \in Nat /\ fading \in Nat /\ crashes \in Nat
        /\ candles \in Signals \cup {"none"}
    BY DEF EInv, TypeOK, RowType
  <1>1. pc' = "Down" => crashes' > 0
    <2>1. CASE Crash
      BY <1>0, <2>1 DEF Crash
    <2>2. CASE UNCHANGED <<pc, crashes, status>>
      BY <2>2 DEF HeldInv, Open
    <2>3. CASE pc' # "Down"
      BY <2>3
    <2>4. QED
      BY <2>1, <2>2, <2>3
      DEF Next, WorkerStep, Startup, Tick, Scan, ScanFails, Exit, Hold, NothingToManage, Enter,
          Rest, Move, SwitchHalt, NextBar, Goto, AfterPass, vars, rowVars, workerVars, boundVars
  <1>2. row'.count <= fading'
    <2>1. CASE Hold
      <3>1. PICK signal \in Signals, atr \in Atrs :
                /\ Candles(signal)
                /\ Watch(signal)
                /\ row' = UpdateTrailingStop([row EXCEPT !.count = InvalidationCount(candles')],
                                             last, Distance(atr, TrailMultiple(row)))
        BY <2>1 DEF Hold
      <3>2. Open /\ row.count <= fading
        BY <2>1 DEF Hold, HeldInv
      <3>3. /\ InvalidationCount(candles') \in Nat
            /\ InvalidationCount(candles') <= fading'
        BY <1>0, <3>1, <3>2 DEF InvalidationCount, Watch
      <3>4. [row EXCEPT !.count = InvalidationCount(candles')] \in RowType
        BY <1>0, <3>3 DEF RowType
      <3>5. row'.count = InvalidationCount(candles')
        BY <1>0, <3>1, <3>4, UpdateKeeps DEF RowType
      <3>6. QED
        BY <3>3, <3>5
    <2>2. CASE Exit
      <3>1. Open /\ row.count <= fading /\ UNCHANGED row
        BY <2>2 DEF Exit, HeldInv
      <3>2. fading' = fading \/ fading' = fading + 1
        BY <2>2 DEF Exit, Watch, Invalidated, watchVars
      <3>3. QED
        BY <1>0, <3>1, <3>2
    <2>3. CASE Startup
      <3>1. row'.count = row.count
        BY <1>0, <2>3, UpdateKeeps DEF Startup
      <3>2. UNCHANGED <<status, fading>>
        BY <2>3 DEF Startup, watchVars
      <3>3. QED
        BY <3>1, <3>2 DEF HeldInv, Open
    <2>4. CASE Enter
      BY <1>0, <2>4 DEF Enter, Row, history, watchVars
    <2>5. CASE UNCHANGED <<status, row, fading>>
      BY <2>5 DEF HeldInv, Open
    <2>6. QED
      BY <2>1, <2>2, <2>3, <2>4, <2>5
      DEF Next, WorkerStep, Tick, Scan, ScanFails, NothingToManage, Rest, Crash, Move,
          SwitchHalt, NextBar, vars, rowVars, history, watchVars
  <1>3. QED
    BY <1>1, <1>2

LEMMA RoomStep == EInv /\ HeldInv /\ TrailLeavesRoom /\ [Next]_vars => TrailLeavesRoom'
  <1> SUFFICES ASSUME EInv, HeldInv, TrailLeavesRoom, [Next]_vars, Open'
               PROVE  LeavesRoom(row', charged', crashes')
    BY DEF TrailLeavesRoom, LeavesRoom
  <1>0. /\ cfg \in Settings /\ market \in Nat /\ (last # NoPrice => last \in Nat)
        /\ row \in RowType /\ row.override \in Nat /\ crashes \in Nat
    BY DEF EInv, TypeOK, RowType, NoPrice
  <1>1. Open => LeavesRoom(row, charged, crashes)
    BY DEF TrailLeavesRoom, LeavesRoom
  <1>2. CASE Startup /\ (row' # row \/ charged' # charged)
    <2>1. PICK atr \in Atrs :
              row' = UpdateTrailingStop(row, market, Distance(atr, cfg.distance_atr)) /\ Charge
      BY <1>2 DEF Startup
    <2>2. Open /\ pc = "Down" /\ UNCHANGED crashes
      BY <1>2 DEF Startup, boundVars
    <2>3. crashes > 0
      BY <2>2 DEF HeldInv
    <2>4. cfg.distance_atr \in Nat /\ atr \in Nat
      BY <1>0 DEF Setting
    <2>5. Distance(atr, cfg.distance_atr) \in Nat
      BY <2>4, DistanceLemma
    <2>6. QED
      BY <1>0, <1>1, <2>1, <2>2, <2>3, <2>5, RoomLemma
  <1>3. CASE Hold
    <2>1. PICK signal \in Signals, atr \in Atrs :
              row' = UpdateTrailingStop([row EXCEPT !.count = InvalidationCount(candles')],
                                        last, Distance(atr, TrailMultiple(row)))
      BY <1>3 DEF Hold
    <2>2. Open /\ Charge /\ UNCHANGED crashes /\ last \in Nat
      BY <1>0, <1>3 DEF Hold, boundVars
    <2>3. InvalidationCount(candles') \in Nat
      BY <1>0 DEF InvalidationCount, RowType
    <2>4. PICK p : p = [row EXCEPT !.count = InvalidationCount(candles')]
      OBVIOUS
    <2>5. /\ p \in RowType /\ p.entry = row.entry /\ p.trail = row.trail /\ p.armed = row.armed
          /\ p.high = row.high /\ p.override = row.override
      BY <1>0, <2>3, <2>4 DEF RowType
    <2>6. /\ TrailMultiple(row) \in Nat
          /\ \/ row.override # 0 /\ TrailMultiple(row) = row.override
             \/ row.override = 0 /\ TrailMultiple(row) = cfg.distance_atr
      BY <1>0 DEF TrailMultiple, Setting
    <2>7. Distance(atr, TrailMultiple(row)) \in Nat
      BY <2>6, DistanceLemma
    <2>8. QED
      BY <1>0, <1>1, <2>1, <2>2, <2>4, <2>5, <2>6, <2>7, RoomLemma
  <1>4. CASE Enter
    BY <1>4 DEF Enter, Row, LeavesRoom
  <1>5. CASE UNCHANGED <<row, charged>> /\ ~Enter
    <2>1. Open /\ (crashes' = crashes \/ crashes' = crashes + 1)
      BY <1>5 DEF Next, WorkerStep, Startup, Tick, Scan, ScanFails, Exit, Hold, NothingToManage,
         Rest, Crash, Move, SwitchHalt, NextBar, vars, rowVars, boundVars, Open
    <2>2. crashes > 0 => crashes' > 0
      BY <1>0, <2>1
    <2>3. QED
      BY <1>1, <1>5, <2>1, <2>2 DEF LeavesRoom
  <1>6. QED
    BY <1>2, <1>3, <1>4, <1>5, OtherSteps

LEMMA HeldInvariance == Spec => [](HeldInv /\ TrailLeavesRoom)
  <1>1. Init => HeldInv /\ TrailLeavesRoom
    BY DEF Init, HeldInv, TrailLeavesRoom, Open
  <1>2. EInv /\ HeldInv /\ TrailLeavesRoom /\ [Next]_vars => (HeldInv /\ TrailLeavesRoom)'
    BY HeldStep, RoomStep
  <1>3. QED
    BY <1>1, <1>2, Invariance, PTL DEF Spec

(* An armed trail stands above what costs demand only by following the      *)
(* high-water mark, at the distance the review gate gave the position or,   *)
(* after a restart or with none given, at a configured one                  *)
(* (update_trailing_stop, _manage_instance, recovery.recover).              *)
THEOREM RoomLeft == Spec => []TrailLeavesRoom
  BY HeldInvariance, PTL

(* evaluate_exit closes a position for its signal only after as many        *)
(* evaluations in a row found it faded, over failed sales and restarts:     *)
(* the counter in the row never counts more than those (HeldInv).           *)
THEOREM Earned == Spec => FadedEvaluationsCounted
  <1>1. EInv /\ HeldInv /\ [Next]_vars =>
            [Open /\ status' = "closed" /\ ~PriceOrAge(last)
                => fading' >= cfg.invalidation_bars]_vars
    <2> SUFFICES ASSUME EInv, HeldInv, [Next]_vars, Open, status' = "closed", ~PriceOrAge(last)
                 PROVE  fading' >= cfg.invalidation_bars
      OBVIOUS
    <2>1. Exit
      BY DEF Open, Next, WorkerStep, Startup, Tick, Scan, ScanFails, Hold, NothingToManage, Enter,
         Rest, Crash, Move, SwitchHalt, NextBar, vars, rowVars
    <2>2. /\ candles' = "faded" /\ row.count + 1 >= cfg.invalidation_bars
          /\ fading' = fading + 1
      BY <2>1 DEF Exit, Invalidated, Watch
    <2>3. /\ row.count \in Nat /\ fading \in Nat /\ cfg.invalidation_bars \in Nat
          /\ row.count <= fading
      BY DEF EInv, TypeOK, RowType, Setting, HeldInv
    <2>4. QED
      BY <2>2, <2>3
  <1>2. QED
    BY <1>1, HeldInvariance, Invariance, PTL DEF Spec, FadedEvaluationsCounted
=============================================================================
