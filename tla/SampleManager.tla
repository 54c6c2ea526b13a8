----------------------------- MODULE SampleManager ---------------------------
(***************************************************************************)
(* loragro::SampleManager (common/src/sample_manager.cpp) over the sensor  *)
(* adapters (common/include/sensors/): the registered sensors, the batch   *)
(* of a cycle, and the single measurement PowerManagement asks for.        *)
(*                                                                         *)
(* A measurement is the pair of its sensor and its index there.  Of what   *)
(* an adapter holds for it only the timestamp matters: never taken, taken  *)
(* in an earlier cycle, taken in this one.                                 *)
(***************************************************************************)
EXTENDS Naturals, Sequences, FiniteSets, SequencesExt

CONSTANTS
    Sensor,         \* the adapters of the App
    Count,          \* measurements of each
    AdcSensors,     \* adapters whose init() sets up an ADC channel
    SteppedSensors, \* adapters that store value by value and may fail in between
    MaxSensors,     \* MAX_SENSORS: 32
    MaxMeasurement  \* MAX_MEASUREMENT: 255

ASSUME SensorAssumption ==
    /\ Count \in [Sensor -> Nat \ {0}]
    /\ AdcSensors \subseteq Sensor /\ SteppedSensors \subseteq Sensor
    /\ MaxSensors \in Nat /\ MaxMeasurement \in Nat \ {0}

VARIABLES
    sensors,        \* sensors_, in the order of registration
    configured,     \* ADC adapters whose channel is set up
    age,            \* of each measurement an adapter holds
    batch,          \* batch_
    failing         \* the sensors whose driver calls fail now

managerVars == <<sensors, configured, age, batch>>

Registered == {sensors[i] : i \in 1 .. Len(sensors)}
Measurements(s) == [j \in 1 .. Count[s] |-> <<s, j>>]
AllMeasurements == UNION {{<<s, j>> : j \in 1 .. Count[s]} : s \in Sensor}

\* add_sensor() for one sensor after the other.
AddSensors(seq) ==
    sensors' = SubSeq(seq, 1, IF Len(seq) < MaxSensors THEN Len(seq) ELSE MaxSensors)

\* init_all() stops at the first sensor whose init() fails.  Only an ADC channel
\* setup can: a sensor is registered when its device is ready.
InitAll(broken) ==
    LET done == {i \in 1 .. Len(sensors) : \A j \in 1 .. i : sensors[j] \notin broken}
    IN  configured' = configured \cup ({sensors[i] : i \in done} \cap AdcSensors)

\* The driver call of sample() works.
Works(s) == s \notin failing /\ (s \in AdcSensors => s \in configured)

\* What an adapter may have refreshed when its sample() fails.
Refreshed(s) ==
    {{<<s, j>> : j \in 1 .. k} : k \in 0 .. (IF s \in SteppedSensors THEN Count[s] - 1 ELSE 0)}

\* sample_all() gets to sensor i: all before it were sampled and found room.
Sizes(i) == Len(FlattenSeq([j \in 1 .. i |-> Measurements(sensors[j])]))
Reached(i) ==
    \A j \in 1 .. (i - 1) : Works(sensors[j]) /\ Sizes(j) <= MaxMeasurement

SampledCount == Cardinality({i \in 1 .. Len(sensors) : Reached(i) /\ Works(sensors[i])})

\* Ages after sample_all(), which ends at a sensor that fails.
Aged(partial) ==
    [m \in AllMeasurements |->
        IF (\E i \in 1 .. SampledCount : sensors[i] = m[1]) \/ m \in partial
        THEN "now" ELSE age[m]]

Taken == FlattenSeq([i \in 1 .. SampledCount |-> Measurements(sensors[i])])
Batched(ms, ages) ==
    LET room == IF Len(ms) < MaxMeasurement THEN Len(ms) ELSE MaxMeasurement
    IN  [k \in 1 .. room |-> [m |-> ms[k], age |-> ages[ms[k]]]]

\* Mutants of SampleAll: the batch is not reset; a sensor that fails is skipped
\* with its old measurements in the batch.
SampleAll_NoReset(partial) ==
    /\ age' = Aged(partial)
    /\ batch' = batch \o Batched(Taken, Aged(partial))

SampleAll_GoesOn(partial) ==
    /\ age' = Aged(partial)
    /\ batch' = Batched(FlattenSeq([i \in 1 .. Len(sensors) |-> Measurements(sensors[i])]),
                        Aged(partial))

\* sample_all(): "partial" is what a failing sensor has refreshed before it failed.
SampleAll(partial) ==
    /\ age' = Aged(partial)
    /\ batch' = Batched(Taken, Aged(partial))

\* The measurements a failing sensor leaves behind in this sample_all().
Partials ==
    LET next == SampledCount + 1
    IN  IF next <= Len(sensors) /\ Reached(next) THEN Refreshed(sensors[next]) ELSE {{}}

\* sample_one() returns the value "reading" of sensor s, or the zeros of an empty
\* Measurement when the sensor is not registered or fails.
SampleOne(s, reading) == IF s \in Registered /\ Works(s) THEN reading ELSE 0
AgedOne(s) ==
    [m \in AllMeasurements |->
        IF m[1] = s /\ s \in Registered /\ Works(s) THEN "now" ELSE age[m]]
=============================================================================
