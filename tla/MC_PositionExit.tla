---------------------------- MODULE MC_PositionExit ----------------------------
EXTENDS PositionExit

Cautious == [activate_r |-> 1, distance_atr |-> 1, round_trip_cost |-> 1,
             invalidation_bars |-> 2, max_hold |-> 2]
Patient  == [activate_r |-> 2, distance_atr |-> 2, round_trip_cost |-> 2,
             invalidation_bars |-> 2, max_hold |-> 2]
MCSettings == {Cautious, Patient}
=============================================================================
