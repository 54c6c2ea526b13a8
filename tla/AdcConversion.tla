---------------------------- MODULE AdcConversion ----------------------------
(***************************************************************************)
(* The conversions of the two ADC adapters: raw readings to millivolts,    *)
(* the battery's divider and the window of its connection check            *)
(* (common/include/sensors/battery_sense.hpp), and the calibration table   *)
(* of the capacitive soil sensor (soil_capacitive_adapter.hpp,             *)
(* soil_calib.hpp).  All divisions are those of C on non-negative numbers. *)
(***************************************************************************)
EXTENDS Integers, Sequences

MaxAdc == 4095          \* resolution 12
VrefMv == 600
GainMultiplier == 6
R1Ohm == 100000         \* voltage-divider of the board's devicetree
R2Ohm == 100000

AdcMv(value) == (value * VrefMv * GainMultiplier) \div MaxAdc

\* The product keeps to 32 bits for the 3600 mV of a full scale reading.
BatteryMv(value) == (AdcMv(value) * (R1Ohm + R2Ohm)) \div R2Ohm

\* is_connected() of the battery returns 0.
BatteryConnected(value) == AdcMv(value) >= 100 /\ BatteryMv(value) \in 2200 .. 4400

SoilLut == <<[mv |-> 3000, moisture |-> 0], [mv |-> 2700, moisture |-> 10],
             [mv |-> 2400, moisture |-> 25], [mv |-> 2100, moisture |-> 45],
             [mv |-> 1800, moisture |-> 65], [mv |-> 1500, moisture |-> 85],
             [mv |-> 1200, moisture |-> 100]>>

\* Mutant of Interpolate: measured from the lower end of the segment.
Interpolate_FromLower(p0, p1, mv) ==
    p0.moisture + ((p1.moisture - p0.moisture) * (mv - p1.mv)) \div (p0.mv - p1.mv)

Interpolate(p0, p1, mv) ==
    p0.moisture + ((p1.moisture - p0.moisture) * (p0.mv - mv)) \div (p0.mv - p1.mv)

\* soil_mv_to_percent(): the first segment that holds mv.
SoilPercent(mv) ==
    LET last == Len(SoilLut)
        holds(i) == mv <= SoilLut[i].mv /\ mv >= SoilLut[i + 1].mv
    IN  IF mv >= SoilLut[1].mv THEN SoilLut[1].moisture
        ELSE IF mv <= SoilLut[last].mv THEN SoilLut[last].moisture
        ELSE LET i == CHOOSE i \in 1 .. (last - 1) :
                        holds(i) /\ \A j \in 1 .. (i - 1) : ~holds(j)
             IN  Interpolate(SoilLut[i], SoilLut[i + 1], mv)
=============================================================================
