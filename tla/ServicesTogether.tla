---------------------------- MODULE ServicesTogether ----------------------------
(***************************************************************************)
(* The services side by side, as they are model-checked: what holds of     *)
(* each of them alone holds of it there.                                   *)
(***************************************************************************)
EXTENDS MC_Services, ServiceProofs, DataProofs, SimulationProofs

\* Whatever component moves, the others stand still: the composition behaves as
\* each of its components.
LEMMA StepsOfOne ==
    ASSUME [ServicesNext]_servicesVars
    PROVE  /\ [ConfigNext]_configVars
           /\ [RateNext]_rateVars
           /\ [BatchNext]_batchVars
           /\ [HistoryNext]_historyVars
           /\ [OptimizerNext]_optimizerVars
           /\ [SimulationNext]_simulationVars
           /\ [ScanningNext]_scanningVars
           /\ [NextDay]_walkVars
           /\ [DailyNext]_dailyVars
           /\ [RegimeNext]_regimeVars
           /\ [SwapNext]_swapVars
<1>1. CASE UNCHANGED servicesVars
    BY <1>1 DEF servicesVars
<1>2. CASE ServicesNext
    BY <1>2 DEF ServicesNext
<1> QED
    BY <1>1, <1>2

LEMMA ComponentsRun ==
    ServicesSpec => /\ ConfigSpec
                    /\ RateSpec
                    /\ BatchSpec
                    /\ HistorySpec
                    /\ OptimizerSpec
                    /\ SimulationSpec
                    /\ ScanningSpec
                    /\ WalkSpec
                    /\ DailySpec
                    /\ RegimeSpec
                    /\ SwapSpec
<1>1. ServicesInit =>
        /\ ConfigInit /\ RateInit /\ BatchInit /\ HistoryInit
        /\ OptimizerInit /\ SimulationInit /\ ScanningInit /\ WalkInit
        /\ DailyInit /\ RegimeInit /\ SwapInit
    BY DEF ServicesInit
<1>2. ServicesSpec => ConfigSpec
    <2>1. ServicesInit => ConfigInit
        BY <1>1
    <2>2. [ServicesNext]_servicesVars => [ConfigNext]_configVars
        BY StepsOfOne
    <2> QED
        BY <2>1, <2>2, PTL DEF ServicesSpec, ConfigSpec
<1>3. ServicesSpec => RateSpec
    <2>1. ServicesInit => RateInit
        BY <1>1
    <2>2. [ServicesNext]_servicesVars => [RateNext]_rateVars
        BY StepsOfOne
    <2> QED
        BY <2>1, <2>2, PTL DEF ServicesSpec, RateSpec
<1>4. ServicesSpec => BatchSpec
    <2>1. ServicesInit => BatchInit
        BY <1>1
    <2>2. [ServicesNext]_servicesVars => [BatchNext]_batchVars
        BY StepsOfOne
    <2> QED
        BY <2>1, <2>2, PTL DEF ServicesSpec, BatchSpec
<1>5. ServicesSpec => HistorySpec
    <2>1. ServicesInit => HistoryInit
        BY <1>1
    <2>2. [ServicesNext]_servicesVars => [HistoryNext]_historyVars
        BY StepsOfOne
    <2> QED
        BY <2>1, <2>2, PTL DEF ServicesSpec, HistorySpec
<1>6. ServicesSpec => OptimizerSpec
    <2>1. ServicesInit => OptimizerInit
        BY <1>1
    <2>2. [ServicesNext]_servicesVars => [OptimizerNext]_optimizerVars
        BY StepsOfOne
    <2> QED
        BY <2>1, <2>2, PTL DEF ServicesSpec, OptimizerSpec
<1>7. ServicesSpec => SimulationSpec
    <2>1. ServicesInit => SimulationInit
        BY <1>1
    <2>2. [ServicesNext]_servicesVars => [SimulationNext]_simulationVars
        BY StepsOfOne
    <2> QED
        BY <2>1, <2>2, PTL DEF ServicesSpec, SimulationSpec
<1>8. ServicesSpec => ScanningSpec
    <2>1. ServicesInit => ScanningInit
        BY <1>1
    <2>2. [ServicesNext]_servicesVars => [ScanningNext]_scanningVars
        BY StepsOfOne
    <2> QED
        BY <2>1, <2>2, PTL DEF ServicesSpec, ScanningSpec
<1>9. ServicesSpec => WalkSpec
    <2>1. ServicesInit => WalkInit
        BY <1>1
    <2>2. [ServicesNext]_servicesVars => [NextDay]_walkVars
        BY StepsOfOne
    <2> QED
        BY <2>1, <2>2, PTL DEF ServicesSpec, WalkSpec
<1>10. ServicesSpec => DailySpec
    <2>1. ServicesInit => DailyInit
        BY <1>1
    <2>2. [ServicesNext]_servicesVars => [DailyNext]_dailyVars
        BY StepsOfOne
    <2> QED
        BY <2>1, <2>2, PTL DEF ServicesSpec, DailySpec
<1>11. ServicesSpec => RegimeSpec
    <2>1. ServicesInit => RegimeInit
        BY <1>1
    <2>2. [ServicesNext]_servicesVars => [RegimeNext]_regimeVars
        BY StepsOfOne
    <2> QED
        BY <2>1, <2>2, PTL DEF ServicesSpec, RegimeSpec
<1>12. ServicesSpec => SwapSpec
    <2>1. ServicesInit => SwapInit
        BY <1>1
    <2>2. [ServicesNext]_servicesVars => [SwapNext]_swapVars
        BY StepsOfOne
    <2> QED
        BY <2>1, <2>2, PTL DEF ServicesSpec, SwapSpec
<1> QED
    BY <1>2, <1>3, <1>4, <1>5, <1>6, <1>7, <1>8, <1>9, <1>10, <1>11, <1>12

\* Every component's state keeps its types, whatever the constants, the faults and
\* the order of steps.
THEOREM ServicesTypeCorrect == ServicesSpec => []ServicesTypeOK
<1>1. /\ ConfigTypeOK /\ RateTypeOK /\ BatchTypeOK /\ HistoryTypeOK
      /\ OptimizerTypeOK /\ SimulationTypeOK /\ ScanningTypeOK /\ WalkTypeOK
      /\ DailyTypeOK /\ RegimeTypeOK /\ SwapTypeOK
      => ServicesTypeOK
    BY DEF ServicesTypeOK
<1> QED
    BY <1>1, ComponentsRun, ConfigTypeCorrect, RateTypeCorrect, BatchTypeCorrect, HistoryTypeCorrect,
       OptimizerTypeCorrect, SimulationTypeCorrect, ScanningTypeCorrect, WalkTypeCorrect,
       DailyTypeCorrect, RegimeTypeCorrect, SwapTypeCorrect, PTL
=============================================================================
