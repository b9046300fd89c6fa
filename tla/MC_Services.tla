------------------------------ MODULE MC_Services ------------------------------
(***************************************************************************)
(* The components around the trading loop, which share no state in these   *)
(* models: each behaviour is one component's, the others staying as they   *)
(* began, so that the state spaces add up instead of multiplying.          *)
(***************************************************************************)
EXTENDS ConfigFile, RateLimiter, Batches, History, OptimizerRun, Simulation, Scanning,
        WalkForward, DailyRun, Regimes, Swap

MCLimits == {<<2, 6>>, <<4, 2>>}
MCSize == [monthly |-> 2, benchmark |-> 1]
MCPairs == <<"c1">>
MCListing == [c1 |-> {0, 2}]
MCUnfit == {[w \in Windows |-> IF w = "w1" THEN "good" ELSE "bad"]}

MCTokens == <<"a1", "b1">>
Bar(low, close, signal, faded) ==
    [low |-> low, close |-> close, signal |-> signal, faded |-> faded]
MCBarsOf ==
    [a1 |-> {Bar(1000, 1000, TRUE, FALSE), Bar(1020, 1130, FALSE, FALSE),
             Bar(1000, 1040, FALSE, TRUE), Bar(1060, 1250, FALSE, FALSE),
             Bar(800, 850, FALSE, FALSE)},
     b1 |-> {Bar(990, 1000, TRUE, FALSE)}]
MCLiquidity == [a1 |-> 100000, b1 |-> 9000]

MCAssets == <<"c1", "c2">>
MCBooks == <<"primary", "shadow">>

MCFloored == [d \in 1 .. MaxDay |-> IF d = 3 THEN {"s1"} ELSE Symbols]

MCPasses == {"p1"}
MCBatch == [p1 |-> <<"a", "b">>]

VARIABLE focus

ServicesInit ==
    /\ focus \in {"config", "rate", "batches", "history", "optimizer", "simulation",
                  "scanning", "walkforward", "dailyrun", "regimes", "swap"}
    /\ ConfigInit /\ RateInit /\ BatchInit /\ HistoryInit
    /\ OptimizerInit /\ SimulationInit /\ ScanningInit /\ WalkInit
    /\ DailyInit /\ RegimeInit /\ SwapInit
    \* The component looked at begins in all its ways, the others in one; which of
    \* two tokens has more history is all the same; the limits may change later.
    /\ IF focus = "dailyrun" THEN historyOf["u1"] >= historyOf["u2"] ELSE routed = {}
    /\ limits = <<2, 6>>

servicesVars == <<focus, configVars, rateVars, batchVars, historyVars, optimizerVars,
                  simulationVars, scanningVars, walkVars, dailyVars, regimeVars,
                  swapVars>>

ServicesNext ==
    /\ UNCHANGED focus
    /\ \/ /\ focus = "config" /\ ConfigNext
          /\ UNCHANGED <<rateVars, batchVars, historyVars, optimizerVars,
                         simulationVars, scanningVars, walkVars, dailyVars, regimeVars,
                         swapVars>>
       \/ /\ focus = "rate" /\ RateNext
          /\ UNCHANGED <<configVars, batchVars, historyVars, optimizerVars,
                         simulationVars, scanningVars, walkVars, dailyVars, regimeVars,
                         swapVars>>
       \/ /\ focus = "batches" /\ BatchNext
          /\ UNCHANGED <<configVars, rateVars, historyVars, optimizerVars,
                         simulationVars, scanningVars, walkVars, dailyVars, regimeVars,
                         swapVars>>
       \/ /\ focus = "history" /\ HistoryNext
          /\ UNCHANGED <<configVars, rateVars, batchVars, optimizerVars,
                         simulationVars, scanningVars, walkVars, dailyVars, regimeVars,
                         swapVars>>
       \/ /\ focus = "optimizer" /\ OptimizerNext
          \* whichever window has few trades or none: here it is the first
          /\ \A r \in RunIds : windows'[r]["w2"] \notin {"skipped", "few"}
          /\ UNCHANGED <<configVars, rateVars, batchVars, historyVars, simulationVars,
                         scanningVars, walkVars, dailyVars, regimeVars, swapVars>>
       \/ /\ focus = "simulation" /\ SimulationNext
          /\ UNCHANGED <<configVars, rateVars, batchVars, historyVars, optimizerVars,
                         scanningVars, walkVars, dailyVars, regimeVars, swapVars>>
       \/ /\ focus = "scanning" /\ ScanningNext
          /\ UNCHANGED <<configVars, rateVars, batchVars, historyVars, optimizerVars,
                         simulationVars, walkVars, dailyVars, regimeVars, swapVars>>
       \/ /\ focus = "walkforward" /\ NextDay
          /\ UNCHANGED <<configVars, rateVars, batchVars, historyVars, optimizerVars,
                         simulationVars, scanningVars, dailyVars, regimeVars, swapVars>>
       \/ /\ focus = "dailyrun" /\ DailyNext
          /\ UNCHANGED <<configVars, rateVars, batchVars, historyVars, optimizerVars,
                         simulationVars, scanningVars, walkVars, regimeVars, swapVars>>
       \/ /\ focus = "regimes" /\ RegimeNext
          /\ UNCHANGED <<configVars, rateVars, batchVars, historyVars, optimizerVars,
                         simulationVars, scanningVars, walkVars, dailyVars, swapVars>>
       \/ /\ focus = "swap" /\ SwapNext
          /\ UNCHANGED <<configVars, rateVars, batchVars, historyVars, optimizerVars,
                         simulationVars, scanningVars, walkVars, dailyVars, regimeVars>>

ServicesSpec == ServicesInit /\ [][ServicesNext]_servicesVars

\* The type invariants of the components.
ServicesTypeOK ==
    /\ focus = "config" => ConfigTypeOK
    /\ focus = "rate" => RateTypeOK
    /\ focus = "batches" => BatchTypeOK
    /\ focus = "history" => HistoryTypeOK
    /\ focus = "optimizer" => OptimizerTypeOK
    /\ focus = "simulation" => SimulationTypeOK
    /\ focus = "scanning" => ScanningTypeOK
    /\ focus = "walkforward" => WalkTypeOK
    /\ focus = "dailyrun" => DailyTypeOK
    /\ focus = "regimes" => RegimeTypeOK
    /\ focus = "swap" => SwapTypeOK
=============================================================================
