----------------------------- MODULE SensingCycle ----------------------------
(***************************************************************************)
(* The measuring side of the FiNo node: App::register_sensors, then in     *)
(* every cycle init_all and sample_all of SampleManager and handle_sleep   *)
(* of PowerManagement (Fino-LoRaGro/src/app.cpp).  The radio side of the   *)
(* cycle, between sampling and sleep, is NodeCycle.                        *)
(*                                                                         *)
(* Between any two steps the battery is charged or drained and sensors     *)
(* fail or recover.                                                        *)
(***************************************************************************)
EXTENDS AdcConversion, SampleManager, PowerManagement

CONSTANTS
    Order,          \* the sensors as register_sensors() goes through them
    Battery, Soil,  \* the two ADC sensors
    RawLevels,      \* readings of the battery's ADC channel
    Fallible        \* sensors that may fail

ASSUME OrderAssumption ==
    /\ Order \in Seq(Sensor) /\ Battery \in Sensor /\ Soil \in Sensor
    /\ AdcSensors = {Battery, Soil} /\ Count[Battery] = 1
    /\ RawLevels \subseteq 0 .. 4095 /\ Fallible \subseteq Sensor

VARIABLES
    raw,            \* the battery, as its ADC channel reads
    connected,      \* ADC sensors the check at registration found connected
    reading,        \* what handle_sleep() decided on, 0 while awake
    late            \* deep sleeps begun in a row with a battery that reads
                    \* above the cutoff, up to 2

worldVars == <<raw, failing>>
vars == <<managerVars, sleepVars, worldVars, connected, reading, late>>

-----------------------------------------------------------------------------

Init ==
    /\ sensors = <<>> /\ configured = {} /\ batch = <<>>
    /\ age = [m \in AllMeasurements |-> "none"]
    /\ failing \in SUBSET Fallible
    /\ pc = "boot" /\ meas = 0 /\ sleepS = 0
    /\ raw \in RawLevels /\ connected = {} /\ reading = 0 /\ late = 0

\* A connection check may find its sensor connected.  It reads the ADC before any
\* channel of it is set up, which a driver may refuse.
MayConnect(s) == s \in AdcSensors /\ (s = Battery => BatteryConnected(raw))

\* is_connected() is 0 for a connected ADC sensor, and any other value registers
\* it; the others are registered when their device is ready.  The two ADC sensors
\* have one device.
Registers(s, ready, found) == s \in ready /\ (s \in AdcSensors => s \notin found)

\* The sensors that are, one after the other.
Selected(ready, found) ==
    FlattenSeq([i \in 1 .. Len(Order) |->
        IF Registers(Order[i], ready, found) THEN <<Order[i]>> ELSE <<>>])

RegisterSensors ==
    /\ pc = "boot"
    /\ \E ready \in SUBSET Sensor, found \in SUBSET AdcSensors :
          /\ AdcSensors \subseteq ready \/ AdcSensors \cap ready = {}
          /\ \A s \in found : MayConnect(s) /\ s \in ready
          /\ connected' = found
          /\ AddSensors(Selected(ready, found))
    /\ pc' = "awake"
    /\ UNCHANGED <<configured, age, batch, meas, sleepS, worldVars, reading, late>>

\* init_all() and sample_all(); their results are not looked at.
InitSensors ==
    /\ pc = "awake"
    /\ \E broken \in SUBSET (failing \cap AdcSensors) : InitAll(broken)
    /\ pc' = "sampling"
    /\ UNCHANGED <<sensors, age, batch, meas, sleepS, worldVars, connected, reading, late>>

SampleSensors ==
    /\ pc = "sampling"
    /\ \E partial \in Partials : SampleAll(partial)
    /\ pc' = "sampled"
    /\ UNCHANGED <<sensors, configured, meas, sleepS, worldVars, connected, reading, late>>

BatteryReading == SampleOne(Battery, BatteryMv(raw))

\* A cycle is over when the node wakes up: its measurements are old then.
Later == [m \in AllMeasurements |-> IF age[m] = "now" THEN "old" ELSE age[m]]

\* handle_sleep(), up to its first wait.
HandleSleep ==
    /\ pc = "sampled"
    /\ Decide(BatteryReading)
    /\ reading' = BatteryReading
    /\ age' = AgedOne(Battery)
    /\ UNCHANGED <<sensors, configured, batch, worldVars, connected, late>>

WakeUp ==
    /\ pc = "asleep"
    /\ Wake
    /\ age' = Later /\ reading' = 0
    /\ UNCHANGED <<sensors, configured, batch, worldVars, connected, late>>

ReadAndDeepSleep ==
    /\ pc = "deep"
    /\ DeepSleep(BatteryReading)
    /\ age' = AgedOne(Battery)
    /\ late' = IF BatteryReading < CutoffMv THEN 0 ELSE IF late < 2 THEN late + 1 ELSE 2
    /\ UNCHANGED <<sensors, configured, batch, worldVars, connected, reading>>

WakeFromDeepSleep ==
    /\ pc = "deepAsleep"
    /\ DeepWake
    /\ IF pc' = "awake" THEN age' = Later /\ late' = 0 /\ reading' = 0
       ELSE UNCHANGED <<age, late, reading>>
    /\ UNCHANGED <<sensors, configured, batch, worldVars, connected>>

NodeStep ==
    \/ RegisterSensors \/ InitSensors \/ SampleSensors \/ HandleSleep \/ WakeUp
    \/ ReadAndDeepSleep \/ WakeFromDeepSleep

\* The world: the battery takes another level, sensors fail or recover.
WorldStep ==
    /\ \/ raw' \in RawLevels /\ UNCHANGED failing
       \/ failing' \in SUBSET Fallible /\ UNCHANGED raw
    /\ UNCHANGED <<managerVars, sleepVars, connected, reading, late>>

Next == NodeStep \/ WorldStep

\* The thread is never starved and every sleep ends.
Spec == Init /\ [][Next]_vars /\ WF_vars(NodeStep)

-----------------------------------------------------------------------------
(* Properties.                                                             *)

Ages == {"none", "old", "now"}

TypeOK ==
    /\ sensors \in Seq(Sensor) /\ Len(sensors) <= MaxSensors
    /\ configured \subseteq AdcSensors
    /\ age \in [AllMeasurements -> Ages]
    /\ batch \in Seq([m : AllMeasurements, age : Ages])
    /\ Len(batch) <= MaxMeasurement
    /\ failing \subseteq Fallible /\ connected \subseteq AdcSensors
    /\ pc \in {"boot", "awake", "sampling", "sampled", "asleep", "deep", "deepAsleep"}
    /\ meas \in Nat /\ reading \in Nat /\ sleepS \in 0 .. (SecMod - 1)
    /\ raw \in RawLevels /\ late \in 0 .. 2

(***************************************************************************)
(* The batch of a cycle holds measurements of this cycle only, each once   *)
(* and in the order of registration, with no gap: a sensor that fails, half*)
(* way through its values or not, a cut at MAX_MEASUREMENT and what        *)
(* sample_one() refreshed in between leave no old value in it              *)
(* (sample_manager.cpp:43-85).                                             *)
(***************************************************************************)
BatchFresh ==
    pc = "sampled" =>
        LET all == FlattenSeq([i \in 1 .. Len(sensors) |->
                                         Measurements(sensors[i])])
        IN  /\ Len(batch) <= Len(all)
            /\ \A k \in 1 .. Len(batch) : batch[k] = [m |-> all[k], age |-> "now"]

(***************************************************************************)
(* The deep sleep loop tests a reading taken before its 12 hours.  That    *)
(* costs a recovered battery one more deep sleep and never two, however    *)
(* the battery and its sensor behave in between                            *)
(* (power_management.cpp:43-59).                                           *)
(***************************************************************************)
OneSleepLate == late <= 1

(***************************************************************************)
(* The undefined TDMA offset (power_management.cpp:93) comes to 0 or to    *)
(* 2^32 - 1 on the machines the firmware is built for.  With either of them*)
(* the node sleeps no less than a second short of the interval its battery *)
(* calls for: the wrap of the seconds to 32 bits (line 70) does not turn   *)
(* the sleep into a busy loop.                                             *)
(***************************************************************************)
NeverSleepsShort ==
    pc = "asleep" =>
        sleepS + 1 >= 60 * (IF reading > 0 /\ reading < CriticalMv THEN LowInterval
                            ELSE SampleInterval)

InDeepSleep == pc \in {"deep", "deepAsleep"}
Recovered == BatteryReading >= CutoffMv

(***************************************************************************)
(* A node in the deep sleep loop leaves it, unless its battery falls below *)
(* the cutoff again or its battery sensor fails.  A sensor that never      *)
(* answers again keeps the node in the loop for good.                      *)
(***************************************************************************)
Recovers == InDeepSleep ~> ~InDeepSleep \/ ~Recovered

\* The percentage is the whole part of the point on the line from p0 to p1.
OnLine(p0, p1, mv) ==
    LET exact == (SoilPercent(mv) - p0.moisture) * (p0.mv - p1.mv)
        line  == (p1.moisture - p0.moisture) * (p0.mv - mv)
    IN  exact <= line /\ line < exact + (p0.mv - p1.mv)

(***************************************************************************)
(* The calibration of the soil sensor over every voltage it may be given:  *)
(* a drier (higher) voltage never reads wetter, and a value is the whole   *)
(* part of the point on the line between the two table entries around it   *)
(* (soil_capacitive_adapter.hpp:94-124).                                   *)
(* No state has a part in it, so it is asked of the states at power-on.    *)
(***************************************************************************)
SoilCurve ==
    pc = "boot" =>
        /\ \A mv \in 0 .. 3600 : SoilPercent(mv + 1) <= SoilPercent(mv)
        /\ \A i \in 1 .. 6 : \A mv \in SoilLut[i + 1].mv .. SoilLut[i].mv :
              OnLine(SoilLut[i], SoilLut[i + 1], mv)

(***************************************************************************)
(* Docs/lora_protocol.md:293: without a battery sensor the node falls back *)
(* to the normal interval.  It must not go into deep sleep for a battery   *)
(* that its connection check has not found.                                *)
(***************************************************************************)
DeepSleepOnlyWithBattery == InDeepSleep => Battery \in connected
=============================================================================
