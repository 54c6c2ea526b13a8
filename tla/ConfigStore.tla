----------------------------- MODULE ConfigStore -----------------------------
(***************************************************************************)
(* ConfigManager used by the rest of the firmware: calls of load, save and *)
(* set_config in any order, changes of the configuration in place by the   *)
(* components that hold a reference to it, and resets at any moment.       *)
(* Any flash call may fail.                                                *)
(***************************************************************************)
EXTENDS ConfigManager

VARIABLES
    rc,         \* return code of the last call: "ok" or "error"
    committed   \* what the last successful save stored, NoRecord when none did

vars == <<config, loaded, nvs, rc, committed>>

\* Whether a flash call works.
Outcome == BOOLEAN

\* Earlier firmware may have left a record, of this version or another.
OldRecords == [id : Ids, txSec : {1}, rxSec : {0}, interval : {15}, version : Versions]

Init ==
    /\ config = ZeroConfig
    /\ loaded = FALSE
    /\ nvs \in OldRecords \cup {NoRecord}
    /\ rc = "ok"
    /\ committed = IF Valid(nvs) THEN nvs ELSE NoRecord

\* A component writes through its reference: Auth, Interface and the protocol
\* handler all do.
Modify ==
    /\ loaded
    /\ \E i \in Ids, t \in Counters, r \in Counters :
         config' = [config EXCEPT !.id = i, !.txSec = t, !.rxSec = r]
    /\ UNCHANGED <<loaded, nvs, rc, committed>>

CallSave == \E readOk \in Outcome, writeOk \in Outcome :
    /\ Save(readOk, writeOk)
    /\ rc' = IF loaded /\ SaveOk(Versioned(config), readOk, writeOk)
             THEN "ok" ELSE "error"
    /\ committed' = IF rc' = "ok" THEN config' ELSE committed

CallLoad == \E mountOk \in Outcome, readOk \in Outcome, writeOk \in Outcome :
    /\ Load(mountOk, readOk, writeOk)
    /\ rc' = IF mountOk THEN "ok" ELSE "error"
    /\ committed' = IF /\ mountOk /\ ~(readOk /\ Valid(nvs))
                      /\ SaveOk(Defaults, readOk, writeOk)
                    THEN Defaults ELSE committed

CallSetConfig == \E readOk \in Outcome, writeOk \in Outcome, i \in Ids :
    LET c == [config EXCEPT !.id = i]
    IN  /\ SetConfig(c, readOk, writeOk)
        /\ rc' = "ok"                   \* set_config ignores what save returns
        /\ committed' = IF loaded /\ SaveOk(Versioned(c), readOk, writeOk)
                        THEN config' ELSE committed

Reset ==
    /\ ConfigReset
    /\ UNCHANGED <<rc, committed>>

Next == Modify \/ CallSave \/ CallLoad \/ CallSetConfig \/ Reset
Spec == Init /\ [][Next]_vars

TypeOK ==
    /\ config \in DeviceConfig
    /\ loaded \in BOOLEAN
    /\ nvs \in DeviceConfig \cup {NoRecord}
    /\ rc \in {"ok", "error"}
    /\ committed \in DeviceConfig \cup {NoRecord}

(***************************************************************************)
(* The zeroed RAM image never reaches the store, whatever the order of the *)
(* calls: save() before load() is refused (config_loaded_), and a reset    *)
(* between two calls clears that flag together with the configuration.     *)
(***************************************************************************)
ZeroNeverStored == nvs # NoRecord => nvs.id # 0

(***************************************************************************)
(* What a successful save stored is what the store holds, through any      *)
(* number of later loads, failed saves, in-place changes and resets, until *)
(* the next successful save (the save of the defaults by load() included). *)
(***************************************************************************)
CommitSurvives == committed # NoRecord => nvs = committed

(***************************************************************************)
(* A load during which the flash works never discards a configuration that *)
(* a save committed, whatever failed before: after it the RAM copy is the  *)
(* committed record (config_manager.cpp:76-108).                           *)
(***************************************************************************)
LoadReturnsCommit ==
    [][CallLoad /\ Load(TRUE, TRUE, TRUE) /\ committed # NoRecord
         => config' = committed]_vars
=============================================================================
