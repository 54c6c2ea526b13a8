# LoRaGro in TLA+

LoRaGro is firmware for battery-powered field sensors that report over a private
LoRa link. A *FiNo* (field node) wakes up, samples its sensors, sends the
measurements to a gateway in authenticated DATA frames, waits for an ACK of each,
listens once for a CONFIG frame, executes its commands, answers, stores its
configuration and sleeps. This directory models the node's own logic: the frame
counters and keys, the confirmed transmission, command decoding, the batch cut
into frames, the configuration store, sampling, sleep and the cycle that drives them,
and the radio and gateway the simulation build puts in place of the real ones.

Paths below are relative to `src/FW-LoRaGro/` unless they start with `Docs/`.

## 1. Inventory

| Component | Code | State | Operations | What makes it correct |
|---|---|---|---|---|
| App | `Fino-LoRaGro/src/app.cpp`, `main.cpp` | `sent_frame_count`, the frame buffer, the last `DecodeResult` | `init`, `register_sensors`, `run_cycle`, `run` | every cycle ends; the components are called in an order in which keys, ids, counters and the store agree |
| Auth | `common/src/lora_auth.cpp` | device key and the id it came from, next TX counter, last RX counter and its time | `init_key`, `sign_frame`, `verify_frame`, `verify_ack`, `reconstruct_counter` | no key and counter used twice in a power-on; no replay within the timeout while the key is kept; an ACK proves delivery |
| Interface | `common/src/lora_interface.cpp` | none but the radio's | `send_confirmed`, `wait_for_ack`, `is_valid_ack`, `receive`, `send_response`, `send_ack` | bounded retries; only the right ACK ends them |
| ProtocolHandler | `common/src/lora_protocol_handler.cpp` | none; writes the configuration | `decode` and five handlers | a rejected frame changes nothing; OK is answered only when every command was handled; the id changes by command only |
| FrameCodec | `common/src/lora_frame_codec.cpp` | the batch and an offset into it | `begin`, `has_frame_to_send`, two `build_frame` | measurements in order, none lost before the limit, none twice; a frame fits the radio |
| ConfigManager | `common/src/config_manager.cpp` | `config_`, `config_loaded_`, the NVS record | `load`, `save`, `set_config`, `load_defaults`, `get` | what was committed is returned; the zeroed RAM image is never stored |
| PowerRail3V3 | `common/src/power_rail_3v3.cpp` | `powered_` and the regulator's count | `powerOn`, `powerOff` | off during sleep unless switching it off just failed |
| PowerManagement | `common/src/power_management.cpp` | the battery reading a sleep was decided on | `handle_sleep` | a low battery sleeps long and a recovered one is noticed; a node never sleeps less than it should |
| SampleManager | `common/src/sample_manager.cpp` | registered sensors, the batch | `add_sensor`, `init_all`, `sample_all`, `sample_one` | the batch holds what the sensors measured, up to its limit |
| Sensor adapters | `common/include/sensors/` | last measurements, ADC channel set up or not | `init`, `sample`, `is_connected` | a call that fails leaves no new value for an old one; calibration is monotone |
| TimeManager | `common/include/time_manager.hpp` | offset to UTC | `set`, `now` | not modelled: its only writer cannot be reached by a frame |
| SX1262 fake | `common/drivers/lora/sx1262_fake.cpp` | last counter byte, the ACK to it and when it is due, the gateway's id, key and counter | `send`, `recv` | node and simulated gateway stay in step |
| Fake sensor and regulator drivers | `common/drivers/` | random walks, a switch | driver calls | no logic of the system |

**Interaction.** The firmware is one thread. App owns the components and calls
them in turn; nothing is called back. SampleManager reaches the sensors through
their adapters, PowerManagement asks SampleManager for one more battery reading. They share one object, the `DeviceConfig`
inside ConfigManager, by reference: Auth writes the two security counters into
it, ProtocolHandler the id, Interface and FrameCodec read it, `load()` replaces it
as a whole at the start of each cycle and `save()` stores it at the end. Auth
keeps values derived from the configuration (the key, the transmit counter) across
those replacements.

**What is hard.** The concurrency is between the node and the world: ACKs that
come late or again, CONFIG frames at any time, losses of power between any two
steps, flash, radio, regulator and sensor calls that fail, a battery that drains
and recovers while the node sleeps. The counters are 32 bits wide
and travel as 8. The id changes while the key is cached. Counters, key, id and
store are four pieces of state that must agree and are changed at different times.

`PROJECT.json` lists each of these at its line under `hazards`.

## 2. Modules

| Module | Models | State and actions against the code |
|---|---|---|
| `SecurityCounter` | counter arithmetic | `Low`, `Minus`, `Succ` (uint32_t), `Reconstruct` = `reconstruct_counter`, `InWindow` the reference it is compared with |
| `CounterWindow` | a node and a gateway counting on | two counters and the counter the node reconstructs; one action per side, one for a cold boot |
| `LoraAuth` | class `Auth` | `InitKey`, `Sign`, `VerifyFrame`, `AckVerifies`, `AuthReset` = `init_key`, `sign_frame`, `verify_frame`, `verify_ack`, constructor |
| `AuthHistory` | Auth driven in every order | adds what was signed, and what was accepted, when, and whether under the derivation of the key now in use |
| `ConfigManager` | class `ConfigManager` | `Load`, `Save`, `SetConfig`, `ConfigReset`; each flash call's outcome is an argument |
| `ConfigStore` | ConfigManager driven in every order | adds the return code and the record last committed |
| `ProtocolHandler` | `decode()` and handlers | `HeaderResult` (checks before the loop), `TurnResult` (one turn), `DecodeResult`, `Decode` (the writes) |
| `CommandDecoding` | the handler fed with frames | `Receive` any frame, `Handle` it |
| `FrameCodec` | class `FrameCodec` | `Begin`, `BuildFrame`, `BuildResult` (length or error), `Slice` (what the frame carries) |
| `UplinkBatch` | transmit loop over the codec | the loop of `run_cycle`, cycle after cycle |
| `PowerRail` | class `PowerRail3V3` | `PowerOn`, `PowerOff`, with the outcome of the regulator call; `OffFails`, that `powerOff()` returns an error |
| `NodeCycle` | App and Interface, composing the above | `pc` is the place in `run_cycle()`; one action per stretch of code between two waits |
| `ConfirmedUplink` | the promise of `send_confirmed()` | abstract: a frame is handed over, delivered, reported; `NodeCycle` implements it |
| `MCNodeCycle` | instances of NodeCycle | bodies of CONFIG frames, and the rest state at the bound |
| `AdcConversion` | ADC adapters' conversions | `AdcMv`, `BatteryMv`, `SoilPercent`, as the integer arithmetic of the code |
| `SampleManager` | class `SampleManager` over the adapters | `AddSensors`, `InitAll`, `SampleAll`, `SampleOne`; which adapters fail, and how far they got, are arguments |
| `PowerManagement` | `handle_sleep()` | cut at its waits: `Decide`, `Wake`, `DeepSleep`, `DeepWake` |
| `SensingCycle` | App's sampling side, composing the three | `RegisterSensors`, `InitSensors`, `SampleSensors`, `HandleSleep`, ...; the battery and the sensors are the world |
| `MCSensingCycle` | instances of SensingCycle | three of the six adapters, one of each kind |
| `Airtime` | `calculate_airtime_ms`, `compute_rx_timeout` | the LoRa airtime formula in integers, margin included |
| `SimulatedRadio` | `sx1262_fake.cpp` | `LoraSend`, `LoraRecv`, `RadioReset`; `Pause` is time that passes outside the driver |
| `SimulatedLink` | the simulation build | the node's cycle against SimulatedRadio, a closed system with time |
| `*_proofs` | theorems | see section 5 |

`NodeCycle` takes ConfigManager, LoraAuth, FrameCodec, ProtocolHandler and
PowerRail with INSTANCE, so the operators the single-component modules check are
the ones the node executes. Its places are

    init -> load -> prepare -> build -> transmit -> await -> (transmit | build) ...
    build -> listen -> (decode -> reply -> respond) -> off -> save -> sleep -> load

and between any two of them the gateway may send and the node may lose power.
`NodeCycle` has the radio side of a cycle and leaves open what was sampled and how
long the node sleeps; `SensingCycle` has the measuring side and leaves out the
radio. The two meet only in the batch, which nothing on the radio side writes, and
in the sleep, which nothing on the radio side shortens. `SimulatedLink` runs `LoraAuth`
and `ProtocolHandler` a second time, against the one gateway the repository has.

`NodeCycle` implements `ConfirmedUplink` under this mapping: `pending` is the frame
while `pc` is `transmit` or `await`, `delivered` the DATA frames the gateway has heard,
`outcome` what `send_confirmed()` last returned. Attempts, ACKs, counters and
keys disappear in it.

Operators named `X_Something` right before an operator `X` are plausible bugs of
`X`. They are not part of the model: each property is checked to fail with one of
them, which shows that the property depends on the code.

**Abstractions.** A key is the id it is derived from; a tag is the pair of key
and counter it was computed with, so that it verifies for exactly those (AES and
CMAC are taken as ideal). A DATA frame carries a cycle number and a slice of the
batch instead of values. A command is an op, its size bits and one argument. The
uptime counts units of the timeout. The configuration has the fields some
modelled code changes or reads back. A measurement is its place among the
values of its sensor and whether it was taken in this cycle, as its timestamp
tells; only the battery has a value, since only that one decides something. A
connection check, a device that is not ready and a driver call that fails are free
choices. `NodeCycle` has no durations: a wait ends with a frame or without.
`SimulatedLink` has those that matter to it: airtimes at 125 kHz, the ACK window, the
instant an ACK is due, in milliseconds from the last `send`. The radio of `NodeCycle` keeps every frame for ever and may deliver it at any time,
any number of times or never, which covers loss, delay, repetition and
reordering. Frames of somebody else, or garbled ones, are one frame that never
verifies. No step is reordered or split where the code does not wait.

## 3. Runs

| Run | Question | Bounds |
|---|---|---|
| `counter_window` | From which counters does the reconstruction return the truth? Exactly the window of 256 around the node's own counter; among last frames, all but those at the end of a block. | the widths of the code (256, 32), both counters to 560, more than two blocks; 313600 states |
| `config_store` | Does the store keep and return what was committed, and refuse the zeroed image, when every flash call may fail and a reset may come at any time? | two ids, two counter values, three versions |
| `auth_history` | Is a key and counter ever used twice in a power-on? When can a downlink frame be accepted twice? Only after the timeout, or when the key was derived anew. | byte of 4 values, band 1, counters to 5: the byte wraps; three downlink counters before and after the wrap; two ids; time to three units with a timeout of one |
| `command_decoding` | Does an error leave something behind? What has happened when the answer is OK? What changes the id? | all frames of up to two commands, five ops, all size bits, counts too high and too low, a leftover byte, foreign ids and versions |
| `uplink_batch` | Is a batch sent in order without gaps, and dropped only after one frame more than the limit? | the numbers of the code at SF12, every batch size to 255 |
| `node_steady` | Is a measurement sent twice? Does the transmit loop keep the promise of `ConfirmedUplink`? Is the store up to date when the node sleeps? Does every cycle end, and does a new id arrive? | two cycles, batches of none and of five (three frames at two measurements each, cut by the limit), one retry, a byte of 4 values that wraps, one CONFIG frame out of ten |
| `node_faults` | What does an ACK prove, and what does a counter name, when power is lost, the counter starts anew and ACKs of before still arrive? Do key and id agree when flash fails, and when is the rail still on in sleep when the regulator fails? | two cycles of two frames, each sent once, one loss of power at any step, each driver call may fail, one id is the broadcast address. The allowance `AckSound` and `OneFramePerCounter` make for a loss of power is needed: without it both fail here |
| `sensing_cycle` | What is in a batch when sensors fail? Does a node sleep as long as its battery asks, and does it come out of the deep sleep loop? | three adapters (a polled one with two values, the soil and the battery sensor), a batch of three that four values overfill at the last sensor, four battery levels, every set of sensors ready, connected and failing |
| `simulated_link` | When is a frame acknowledged in the simulation, and do node and gateway keep one id? | SF12, a byte of 8 values with a band of 2, up to two DATA frames a cycle, nine cycles per start, restarts at any time |
| `auth_resume`, `frame_tagged`, `no_battery` | findings, section 6 | as small as shows them |

Why the bounds are enough: with a byte of 4 values and a band of 1, the node
counts to 5 in `auth_history` and to 7 in `node_steady` (two frames in each of two
cycles and the answers to commands; `MaxCtr` is not reached). That is one block end, so
the cases of the reconstruction (same block, next block, block end) all occur;
`counter_window` repeats the arithmetic at the real widths over two block ends.
Two ids are what it takes to leave a key and return to it. Two cycles are what it takes for a late ACK, an id change, a stored value or a cached key to
reach another cycle; what holds per cycle needs no third. The battery reads 2598, 2600,
2998 or 3000 mV, the ADC steps on either side of both thresholds, so every
comparison of `handle_sleep()` goes both ways; `SensingCycle` has no other bound and its
cycles go on for ever. In `simulated_link` nine cycles inject enough CONFIG
frames for the gateway's counter to pass the end of its byte, and the thresholds of the
counters are smaller than the byte as they are in the code; airtimes have their real values.
`SoilCurve` is evaluated over every voltage from 0 to 3600 mV. `MaxCtr`, `MaxCycles`,
`MaxGwSends`, `MaxBoots`, `MaxNow`, `MaxCount` and `MaxBatch` are the only
bounds; each is named in its module. At `MaxCycles`, and after `main()` has
returned because the radio was not ready, the node rests (`Rests` in
`MCNodeCycle`), so that deadlock can be checked everywhere else.

**Fairness.** `FairSpec` assumes weak fairness of `NodeStep`, the node's thread
as a whole, and nothing else. The firmware has one thread, which the kernel does
not starve, and every wait in it has a timeout. Nothing is assumed of the radio or the
gateway: `CycleCompletes` holds if not one ACK ever arrives. `SensingCycle` assumes the
same of its `NodeStep` (the thread runs and `k_sleep` returns) and nothing of the
battery or the sensors, so `Recovers` allows for a battery that falls again.
`ConfirmedUplink` states as a promise, `Returns`, what `NodeCycle` achieves from that.

## 4. Properties worth knowing

- `AckSound` (`NodeCycle`): a frame `send_confirmed()` reports as acknowledged has
  reached the gateway. It rests on three things together: a counter is never signed
  twice, the ACK is checked against the *full* counter of the last frame, and the
  receive window of a frame closes before the next is signed. Once power was lost the
  counter restarts (finding `auth_resume`) and an old ACK may fit a new frame; the
  property says how far that goes: the ACK is then that of a frame of an *earlier cycle* with
  the same key and counter, never of another one of this cycle.
- `OneFramePerCounter`: before a loss of power key and counter name a frame the gateway
  hears, afterwards key, counter and cycle do. A gateway that keeps the time of the
  measurements with them loses nothing to the restart, while the node may take
  for delivered what was not.
- `MeasurementsOnce`: what the gateway hears is unambiguous even where retransmissions and
  given-up frames mix.
- `ReplayRefused`, `NewestIsLargest` (`AuthHistory`): within one power-on there are two ways
  for a downlink frame to be accepted again, the 16 hour timeout and a key that is derived
  anew. The second needs no time at all: an id that is left and taken up again starts
  with a receive counter of 0 (`lora_auth.cpp:28`), and the frames of its first time are
  acceptable once more. The history keeps every acceptance of the power-on and marks in
  `kept` whether the key is still of the same derivation; without `kept` TLC finds that
  replay. (A loss of power zeroes the counter as well, and the history begins anew with
  it.) That each counter is reconstructed from a transmit counter that moves opens no third way.
- `KeyMatchesId` (`NodeCycle`): whichever of command, reload or defaults changed
  the id, the key follows before the next DATA frame.
- `CommitSurvives`, `LoadReturnsCommit`, `AsleepIsStored`, `StoredCounterClose`: the
  chain from the RAM copy through the skipped or failed write to the next load.
- `RejectedChangesNothing` (`CommandDecoding`): holds only because the one handler
  that writes ends the loop with OK_AND_REBOOT_NEED.
- `OkChangesNothing` (`CommandDecoding`): what OK means in this code. Every handler
  returned OK and the frame was consumed, but the only handler that ends in OK, that of
  SAMPLING_INTERVAL, writes to a copy of the configuration. The property states the code; the
  documents say otherwise (section 6).
- `RailOffAsleep` (`NodeCycle`): in sleep the rail is on exactly when the `powerOff()` before
  that sleep failed. No earlier failure counts, because the flag keeps a rail that stayed on from
  being enabled twice.
- `DropsOnlyAtLimit` (`UplinkBatch`): measurements stay unsent only after exactly one frame
  more than `max_tx_frames_per_cycle`, each of them full; the document has that number as the most.
- `RxCounterEarned` (`NodeCycle`): the receive counter moves only to a counter the
  gateway has signed under the node's key, in an ACK or a CONFIG frame. A late ACK that
  the receive window takes for a command moves it too; that CONFIG frames with smaller counters
  are then refused is not denied by any property.
- `ImplementsUplink` (`NodeCycle`): the whole of signing, retrying and matching ACKs is
  an implementation of `ConfirmedUplink`: success is reported only of a frame that was
  delivered, and every call returns.
- `BatchFresh` (`SensingCycle`): a sensor that fails after half of its values, a batch that
  overfills, or the extra battery reading `handle_sleep()` takes: none leaves a value of
  an earlier cycle in the batch.
- `OneSleepLate`, `Recovers`: the deep sleep loop tests a reading from before its
  12 hours. That is one sleep too many and never two, and a battery that stays
  recovered gets the node out. A battery that drained in the meantime is taken for
  recovered, and a sensor that never answers keeps the node in the loop.
- `NeverSleepsShort`: the TDMA offset is undefined in the build (the bandwidth
  enumerator is 0 and the airtime divides by it). With either value the supported
  machines convert it to, 0 or 2^32 - 1, the sum that
  `k_sleep` gets does not wrap to a sleep shorter than the interval less a second. Whether
  the slot is the right one is not asked.
- `SoilCurve`: the calibration table with its integer interpolation is monotone and
  on the line, over every voltage.
- `AckedInStep` (`SimulatedLink`): an ACK is recognised exactly when keys agree and
  the counter fits a byte. It rests on the margin of 1.4, since the window is computed
  for an ACK of 4 bytes and the ACK has 8.
- `ApartForAReason`: the gateway changes its id when it sends the command, the node
  when it accepts it. Only the two causes it names leave them apart.
- `CycleCompletes`, `IdChangeTakesEffect`: liveness under the fairness above. The
  second one follows an id from the command that sets it, through the save, the
  sleep and the reload, to the key of the next cycle; it is asked of every cycle
  that has a next one in the model.

## 5. Proofs

TLAPS proves, for every value of the constants that the named assumptions admit:

- `SecurityCounter_proofs`: `WindowExact`, that the reconstruction is right exactly
  in the window, for every width of byte, band and counter. The argument writes both
  counters as a block and a byte (`Split`), shows that the sum does not wrap away
  from the end of the counter (`ReconstructSum`), and compares blocks (`NextBlock`).
- `ConfigStore_proofs`: all properties of `config_store`. The invariant adds to
  them that a loaded configuration has an id and that the committed record has this
  firmware's version; without the second a load could discard it.
- `Auth_proofs`: all properties of `counter_window` and `auth_history`. For the first the
  invariant is that both counters are within the bound and `seen` is up to date
  (`WindowTypes`, `Exactness`, `BlockEnds`). `NoTagReuse` needs that
  every tag signed *under any key* is behind the transmit counter, since keys come
  back. The replay theorems need `ReplayInv`: every acceptance under the derivation of the
  key in use and within the timeout has a counter no larger than the receive counter, and
  no such acceptance is later than `lastRxTime`.
- `CommandDecoding_proofs`: all properties of `command_decoding`, for frames of any number
  of commands. `decode()` is a loop that may stop at a turn. It stops at one turn only
  (`StopsOnce`), and if it does not stop every handler returned OK (`NeverStopped`, by
  the least turn that did not), which only that of SAMPLING_INTERVAL does: it changes nothing
  (`OkIsEmpty`). `RejectedChangesNothing` then rests on
  `SetterAnswers`: the one turn that writes ends the loop, and not with an error.
- `UplinkBatch_proofs`: all properties of `uplink_batch`, for every batch, payload and frame
  limit. Invariant `LoopInv`: the offset is where the last frame ended, every frame is full
  while measurements are left, the count of the loop is the number of frames sent, and
  the loop is left early only above the limit.
- `SensingCycle_proofs`: type correctness, `BatchFresh`, `OneSleepLate`, `NeverSleepsShort` and
  `SoilCurve`. `BatchFresh` needs that the measurements of the sensors sampled are the first
  of those of all sensors, which is a fact about joining sequences of sequences
  (`JoinedPrefix`) and again proved by a least counterexample, `FlattenSeq` being recursive.
  `OneSleepLate` needs `DeepInv`: a deep sleep begun above the cutoff is the first such, and when
  it ends the loop does. `NeverSleepsShort` is the modular arithmetic of `SleepSecondsFacts`.
  `SoilCurve` reads the calibration as six lines of 300 mV (`SoilPercentIs`), which agree where
  they meet.
- `NodeCycle_proofs`, one power-on (`SteadySpec`): `KeepsPromise`, that it implements the
  safety part of `ConfirmedUplink`. One case per action names the abstract step it is. The
  ACK's case is `AckIsAnswer`, from `AckInv`: the frame in the air is the last one signed; no two
  DATA frames heard share a counter; every DATA frame heard is behind the transmit counter;
  the gateway's own frames are CONFIG frames. The built frame is one of the frames allowed
  because the id in force is never 0 after the first load (`IdInv`).
- `NodeCycle_proofs`, the node with losses of power and failing drivers (`Spec`): type
  correctness, `KeyMatchesId` and `RailOffAsleep` from `NodeInv`. `CounterEarned`
  (`RxCounterEarned`) needs that every DATA frame heard carries key and counter of one
  tag (`RxInv`), so that an ACK, which repeats the two, repeats the tag. `StoredAsleep`
  (`AsleepIsStored`) needs that from `AppInit` on a configuration is loaded, without which the
  save would refuse (`StoreInv`).
  `StoredClose` (`StoredCounterClose`) needs `CloseInv`: from the first signature of a cycle the
  configuration in RAM is within the threshold (`SignCloses`) and what comes
  after it (a command, an ACK) does not touch that counter. `SlicesApart`
  (`MeasurementsOnce`) needs `SliceInv`: the slices of this cycle heard before the frame
  in the air end where it begins, it ends at the codec's offset at most, and no frame heard
  is of a cycle to come. `AcknowledgedIsHeard` (`AckSound`) and `CounterNamesFrame`
  (`OneFramePerCounter`) rest on `AckInv` up to the first loss of power (`FirstInv`), and beyond
  it on `CycleInv`, which says the same of the frames of one cycle: a loss of power sets
  the counter back, but it ends the cycle too. A frame heard that has the tag of
  the one in the air is that one or, by `SliceInv`, of an earlier cycle.
- `SimulatedLink_proofs`: all properties of `simulated_link`. `WindowHoldsAck` settles the
  airtimes: whatever the lengths of the frames, the ACK of the simulated gateway, which
  keeps to SF12 (`sx1262_fake.cpp:148`), is due within the node's window exactly when the
  node's spreading factor is 12 as well, its default (`config_manager.cpp:176`). At any smaller
  one the window is too short; at 12 the lengths of the frames cancel out and the
  margin of 1.4 is worth more than the four bytes of the tag. `AcksInStep` and
  `ApartExplained` assume no more than that, `AckInTime`. The first needs `StepInv`:
  what the radio holds while the node waits is the ACK to the frame in the air, signed
  with the gateway's key and the byte (`AckByte` is the arithmetic: byte and counter
  agree in the first block only, and its last value is lost to the reconstruction). The
  second needs `IdInv`: the gateway has the new id from the first CONFIG frame on, and when
  that was sent below the band the node has the new id too or is about to execute the
  command; that frame has counter 1, which verifies there (`FirstCounter`,
  `FirstAccepted`).

The assumptions are those in the modules: the byte's width and the band are positive
and twice the band is less than the byte (64 < 256); counters stay below their
modulus, so 2^32 frames in one power-on are out of scope; ids are not 0; the bodies
of CONFIG frames have the form the handler parses. TLC evaluates all of them in
the runs.

Induction over data is out of reach as a rule (the library's induction theorems take an
operator as a parameter). Where a proof needs it, for `FlattenSeq` and for the loop of
`decode()`, it takes the least number at which the claim fails (`WFMin` over the naturals)
and shows that there is none.

Model-checked only: liveness, which is beyond the prover (`CycleCompletes`,
`IdChangeTakesEffect`, `Recovers`), and with it `ImplementsUplink` as a whole, whose safety part
is `KeepsPromise` and whose other part is `Returns`. Every safety property a passing run
checks is a theorem.

## 6. Where code and documents part

Shown by a run:

- `auth_resume`: the TX counter restarts from 1 after a loss of power, because the
  constructor reads the configuration before it is loaded (`lora_auth.cpp:14`);
  `Docs/lora_protocol.md:43` has it resume from the stored value.
- `frame_tagged`: the RESPONSE is sent without its tag (`app.cpp:212`).
- `no_battery`: `is_connected()` of the ADC sensors returns 0 for a sensor that is
  connected, and `app.cpp:103` registers the sensor when the result is not 0. A node
  without a battery registers the battery sensor, reads a voltage below the cutoff and
  goes into deep sleep, where `Docs/lora_protocol.md:293` has the normal interval.

Read in the code while modelling, and modelled as the code has it:

- Downlink counters are reconstructed from the node's TX counter
  (`lora_auth.cpp:98`); `Docs/lora_protocol.md:173` has `last_rx`.
- Four DATA frames go out where three are the limit (`app.cpp:150`,
  `Docs/lora_protocol.md:209`; stated by `DropsOnlyAtLimit`).
- `Docs/architecture.md:347` promises full replay protection for CONFIG frames. A key
  derived anew starts with a receive counter of 0 (`lora_auth.cpp:28`), so an id left and
  taken up again opens the door to the frames of its first time (stated by `ReplayRefused`).
- `Docs/architecture.md:400` has a node in deep sleep wake up to re-check the battery. The
  loop tests the reading from before the sleep (`power_management.cpp:53`), takes a
  drained battery for recovered and a recovered one for low, once (stated by `OneSleepLate`).
- A late ACK in the receive window is verified as any other frame and its TX counter
  becomes the receive counter (`lora_auth.cpp:80`, comment at 137).
- The simulated gateway signs its ACK with the counter byte (`sx1262_fake.cpp:129`)
  where the comment at 122 has the node's counter: no frame from counter 255 on is
  acknowledged in the simulation.
- It injects a CONFIG frame by the low bit of that byte. With two frames in every
  cycle the counters it looks at stay even, and no command ever comes.
- Its counter starts from 1 whatever the node's is. If the first command comes when the
  node's counter is 224 or more, its counter byte is reconstructed as that of a later
  block, the command is refused, and the two sides keep different ids for ever.
- `battery_sense_id_` is unsigned, so the check for a missing sensor
  (`power_management.cpp:26`) is never true.
- The node number of the TDMA slot is `combined_id >> 5`, where
  the low 11 bits are the node (`power_management.cpp:11`); the slot length divides by
  a bandwidth enumerator that is 0 (`Fino-LoRaGro/README.md:101` logs `BW=0`).
- Two deep sleeps of 12 hours are longer than the 16 hours after which the receive
  counter is reset. `Docs/lora_protocol.md:33` has the timeout above the maximum deep
  sleep, so that no sleep resets a counter: true of one sleep, not of the second.
- A battery sensor that fails in the deep sleep loop reads as 0 mV and keeps the node
  there.
- The connection checks read the ADC before any channel is set up.
- The environment, CO2 and light adapters ignore the result of `get()`.
- The ACK of a frame whose counter byte is 255 is never recognised
  (`lora_auth.cpp:141`; stated by `OnlyBlockEndLost`).
- With the receive counter reset, a frame with counter 1 verifies only while the
  node's own counter is below 224 (`lora_auth.cpp:98`, `Docs/lora_protocol.md:27`).
- The timeout resets the RX counter, not the TX counter (`Docs/lora_protocol.md:31`).
- SAMPLING_INTERVAL writes to a copy of the configuration and answers OK
  (`lora_protocol_handler.cpp:112`), where `Docs/lora_protocol.md:95` has OK for a command
  executed and line 129 has this one set the interval (stated by `OkChangesNothing`).
- REBOOT needs a byte of payload (`Docs/lora_protocol.md:134` says none), and nothing
  reboots after OK_AND_REBOOT_NEED.
- SET_UNIX_TIME and LORA_CONFIG need 8 and 10 bytes, which the size bits cannot say.
- `MessageOp` counts commands from 1, the dispatch table from 0.
- The RESPONSE to an id change has the new id and the tag of the old key.
- Room for the tag is taken off twice, so 21 measurements need four frames at SF12.

## 7. Plan

1. Done: counters, Auth, configuration store, command decoding, codec, the cycle.
2. Done: sampling and sleep (`SampleManager`, `PowerManagement`, `SensingCycle`), with the
   conversions of the ADC adapters.
3. Done: the simulation build (`SimulatedRadio`, `Airtime`, `SimulatedLink`).
4. Done: the promise of `send_confirmed()` (`ConfirmedUplink`), implemented by
   `NodeCycle`.
5. Done: `AckSound` and `OneFramePerCounter` past a loss of power.
6. Done: proofs of every safety property the passing runs check.

### Not modelled

- `TimeManager`: an offset that is added to the uptime. Only SET_UNIX_TIME writes it, and
  no frame can carry that command (its 8 bytes have no encoding in the size bits), so
  the offset is 0 in every reachable state and timestamps are the uptime.
- Values of measurements other than the battery's: they are copied, never tested.
- The fake sensor drivers (ramps) and the fake regulator (a switch): the sensors' and
  the regulator's outcomes are free in the models, which covers them.
- Device tree, build files, unit tests and the shipped simulation binary: no
  state of the system.
