----------------------------- MODULE ConfigManager ---------------------------
(***************************************************************************)
(* loragro::ConfigManager: the device configuration in RAM, its copy in    *)
(* non-volatile storage (NVS), and the load, save and set_config calls     *)
(* (common/src/config_manager.cpp).                                        *)
(*                                                                         *)
(* The configuration is a reference handed out to every other component:   *)
(* they change it in place and nothing is stored until save() is called.   *)
(* A flash call may fail; its outcome is an argument of the operation.     *)
(***************************************************************************)
EXTENDS Naturals

CONSTANTS
    DefaultId,      \* the combined id load_defaults() gives: 0x801
    ConfigVersion   \* CONFIG_VERSION of this firmware

\* What other components and earlier firmware may have written.
CONSTANTS Ids, Counters, Intervals, Versions

ASSUME ConfigAssumption ==
    /\ DefaultId \in Ids /\ ConfigVersion \in Versions
    /\ 0 \in Counters /\ 1 \in Counters /\ 0 \in Intervals /\ 15 \in Intervals
    /\ 0 \notin Ids /\ 0 \in Versions /\ ConfigVersion # 0

VARIABLES
    config,     \* config_, the DeviceConfig in RAM
    loaded,     \* config_loaded_
    nvs         \* the record under CONFIG_NVS_ID, or NoRecord

cfgVars == <<config, loaded, nvs>>

DeviceConfig == [id : Ids \cup {0}, txSec : Counters, rxSec : Counters,
                 interval : Intervals, version : Versions]

\* No record of sizeof(DeviceConfig) bytes is stored.
NoRecord == [id |-> 0]

\* config_ is static: all zeros until the first load.
ZeroConfig == [id |-> 0, txSec |-> 0, rxSec |-> 0, interval |-> 0, version |-> 0]

\* load_defaults()
Defaults == [id |-> DefaultId, txSec |-> 1, rxSec |-> 0, interval |-> 15,
             version |-> ConfigVersion]

\* Reset: RAM is lost, the store keeps what it had.
ConfigReset ==
    /\ config' = ZeroConfig
    /\ loaded' = FALSE
    /\ UNCHANGED nvs

\* Mutant of Stored: only the id is compared before the write is skipped.
Stored_ComparesId(c, readOk, writeOk) ==
    IF readOk /\ nvs.id = c.id THEN nvs ELSE IF writeOk THEN c ELSE nvs

\* The store after save() of c: nvs_read, compare, nvs_write.
Stored(c, readOk, writeOk) ==
    IF readOk /\ nvs = c THEN nvs       \* "Config unchanged, skipping NVS write"
    ELSE IF writeOk THEN c ELSE nvs

\* rc == 0: the record is stored, or was already.
SaveOk(c, readOk, writeOk) == (readOk /\ nvs = c) \/ writeOk

\* Mutant of Versioned: the version is counted up instead of set.
Versioned_CountsUp(c) == [c EXCEPT !.version = c.version + 1]

Versioned(c) == [c EXCEPT !.version = ConfigVersion]

\* Mutant of Save: config_loaded_ is not looked at.
Save_Unloaded(readOk, writeOk) ==
    /\ config' = Versioned(config)
    /\ nvs' = Stored(config', readOk, writeOk)
    /\ UNCHANGED loaded

Save(readOk, writeOk) ==
    IF loaded
    THEN /\ config' = Versioned(config)
         /\ nvs' = Stored(config', readOk, writeOk)
         /\ UNCHANGED loaded
    ELSE UNCHANGED cfgVars              \* -ECANCELED

\* A record that load() takes over as it is.
Valid(record) == record # NoRecord /\ record.version = ConfigVersion

Load(mountOk, readOk, writeOk) ==
    /\ loaded' = TRUE
    /\ \/ /\ ~mountOk                   \* init_nvs() failed
          /\ config' = Defaults
          /\ UNCHANGED nvs
       \/ /\ mountOk /\ readOk /\ Valid(nvs)
          /\ config' = nvs
          /\ UNCHANGED nvs
       \/ /\ mountOk /\ ~(readOk /\ Valid(nvs))
          /\ config' = Defaults         \* load_defaults(), save()
          /\ nvs' = Stored(Defaults, readOk, writeOk)

SetConfig(c, readOk, writeOk) ==
    IF loaded
    THEN /\ config' = Versioned(c)
         /\ nvs' = Stored(config', readOk, writeOk)
         /\ UNCHANGED loaded
    ELSE /\ config' = c
         /\ UNCHANGED <<loaded, nvs>>
=============================================================================
