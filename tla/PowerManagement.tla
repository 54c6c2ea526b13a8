---------------------------- MODULE PowerManagement --------------------------
(***************************************************************************)
(* loragro::PowerManagement::handle_sleep (common/src/power_management.cpp)*)
(* from the end of a cycle to the start of the next one.  It waits in      *)
(* k_sleep(), so it is cut there; the reading the deep sleep loop holds    *)
(* across a sleep is a variable.                                           *)
(*                                                                         *)
(* battery_sense_id_ is unsigned, so its test for a missing sensor never   *)
(* succeeds; a missing sensor shows as the zero value of sample_one().     *)
(***************************************************************************)
EXTENDS Integers

CONSTANTS
    SampleInterval,     \* sample_interval_minutes: 15
    LowInterval,        \* sample_interval_min_low_battery: 240
    CutoffMv,           \* battery_cutoff_mv: 2600
    CriticalMv,         \* battery_critical_mv: 3000
    SecMod              \* values of the seconds a sleep takes: 2^32 in the code

ASSUME SleepAssumption ==
    /\ SampleInterval \in Nat \ {0} /\ LowInterval \in Nat \ {0}
    /\ CutoffMv \in Nat \ {0} /\ CriticalMv \in Nat /\ CutoffMv <= CriticalMv
    /\ SecMod \in Nat /\ 60 * SampleInterval < SecMod /\ 60 * LowInterval < SecMod
    /\ SampleInterval <= LowInterval

VARIABLES
    pc,             \* where the node is: awake, or in one of the waits below
    meas,           \* battery_meas, read before the deep sleep; 0 outside of it
    sleepS          \* seconds of a sleep outside the deep sleep loop, else 0

sleepVars == <<pc, meas, sleepS>>

\* lora.bandwidth is an enumerator of value 0, which calculate_airtime_s() divides
\* by.  The window is infinite and its conversion to uint32_t undefined: a
\* saturating machine gives 2^32 - 1, one that keeps the low word 0; so does the
\* conversion of its product with the node's number, which is 0 for node 0.
UndefinedOffsets == {0, SecMod - 1}

\* Mutant of SleepSeconds: the minutes are not converted.
SleepSeconds_Minutes(reading, offset) ==
    ((IF reading < CriticalMv THEN LowInterval ELSE SampleInterval) + offset) % SecMod

SleepSeconds(reading, offset) ==
    ((IF reading < CriticalMv THEN LowInterval ELSE SampleInterval) * 60 + offset) % SecMod

\* The reading is missing or invalid: the normal interval, without offset.
SleepUnmeasured(reading) ==
    /\ reading <= 0
    /\ pc' = "asleep" /\ sleepS' = SampleInterval * 60
    /\ UNCHANGED meas

SleepMeasured(reading) ==
    /\ reading >= CutoffMv
    /\ \E offset \in UndefinedOffsets : sleepS' = SleepSeconds(reading, offset)
    /\ pc' = "asleep"
    /\ UNCHANGED meas

EnterDeepSleep(reading) ==
    /\ reading > 0 /\ reading < CutoffMv
    /\ pc' = "deep"
    /\ UNCHANGED <<meas, sleepS>>

\* The decision of handle_sleep() for the reading it takes.
Decide(reading) ==
    \/ SleepUnmeasured(reading)
    \/ SleepMeasured(reading)
    \/ EnterDeepSleep(reading)

\* One turn of the loop: read the battery, sleep 12 hours, test what was read.
DeepSleep(reading) ==
    /\ meas' = reading
    /\ pc' = "deepAsleep"
    /\ UNCHANGED sleepS

\* Mutants of DeepWake: the loop ends above the critical threshold; the comparison
\* is strict.
DeepWake_Critical ==
    /\ pc' = IF meas >= CriticalMv THEN "awake" ELSE "deep"
    /\ meas' = 0
    /\ UNCHANGED sleepS

DeepWake_Strict ==
    /\ pc' = IF meas > CutoffMv THEN "awake" ELSE "deep"
    /\ meas' = 0
    /\ UNCHANGED sleepS

\* After the 12 hours.
DeepWake ==
    /\ pc' = IF meas >= CutoffMv THEN "awake" ELSE "deep"
    /\ meas' = 0
    /\ UNCHANGED sleepS

\* The other sleeps just end.
Wake == pc' = "awake" /\ sleepS' = 0 /\ UNCHANGED meas
=============================================================================
