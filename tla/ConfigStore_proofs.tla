-------------------------- MODULE ConfigStore_proofs --------------------------
(***************************************************************************)
(* What the configuration store guarantees through any sequence of calls,  *)
(* flash failures and resets, for every set of values of the fields.       *)
(***************************************************************************)
EXTENDS ConfigStore, TLAPS

USE ConfigAssumption

LEMMA DefaultsType == Defaults \in DeviceConfig /\ Defaults.id \in Ids
                      /\ Defaults.version = ConfigVersion
  BY DEF Defaults, DeviceConfig

LEMMA VersionedType ==
    ASSUME NEW c \in DeviceConfig
    PROVE  /\ Versioned(c) \in DeviceConfig
           /\ Versioned(c).id = c.id /\ Versioned(c).version = ConfigVersion
  BY DEF Versioned, DeviceConfig

\* What save() leaves in the store, and what its return code tells of it.
LEMMA StoredValue ==
    ASSUME NEW c, NEW readOk \in BOOLEAN, NEW writeOk \in BOOLEAN
    PROVE  /\ Stored(c, readOk, writeOk) \in {nvs, c}
           /\ SaveOk(c, readOk, writeOk) => Stored(c, readOk, writeOk) = c
           /\ ~SaveOk(c, readOk, writeOk) => Stored(c, readOk, writeOk) = nvs
  BY DEF Stored, SaveOk

\* The inductive invariant: a loaded configuration is never the zeroed image,
\* and what was committed is of this firmware's version and still stored.
IInv ==
    /\ TypeOK
    /\ loaded => config.id # 0
    /\ ZeroNeverStored
    /\ committed # NoRecord => committed.version = ConfigVersion
    /\ CommitSurvives

LEMMA InitInv == Init => IInv
<1> SUFFICES ASSUME Init PROVE IInv
  OBVIOUS
<1>1. config \in DeviceConfig /\ loaded = FALSE
  BY DEF Init, ZeroConfig, DeviceConfig
<1>2. \A r \in OldRecords : r \in DeviceConfig /\ r.id # 0
  BY DEF OldRecords, DeviceConfig
<1>3. nvs \in DeviceConfig \cup {NoRecord} /\ (nvs # NoRecord => nvs.id # 0)
  BY <1>2 DEF Init
<1>4. (committed = nvs /\ nvs.version = ConfigVersion) \/ committed = NoRecord
  BY DEF Init, Valid
<1> QED
  BY <1>1, <1>3, <1>4 DEF Init, IInv, TypeOK, ZeroNeverStored, CommitSurvives

\* A call that tries to store a configuration of this version keeps the store.
LEMMA StoreStep ==
    ASSUME IInv, NEW c \in DeviceConfig, c.id # 0, c.version = ConfigVersion,
           NEW readOk \in BOOLEAN, NEW writeOk \in BOOLEAN,
           nvs' = Stored(c, readOk, writeOk),
           committed' = IF SaveOk(c, readOk, writeOk) THEN c ELSE committed
    PROVE  /\ nvs' \in DeviceConfig \cup {NoRecord}
           /\ committed' \in DeviceConfig \cup {NoRecord}
           /\ ZeroNeverStored' /\ CommitSurvives'
           /\ committed' # NoRecord => committed'.version = ConfigVersion
  BY StoredValue DEF IInv, TypeOK, ZeroNeverStored, CommitSurvives

LEMMA Step == IInv /\ [Next]_vars => IInv'
<1> SUFFICES ASSUME IInv, [Next]_vars PROVE IInv'
  OBVIOUS
<1> USE DEF IInv
<1>1. CASE Modify
  <2>1. config' \in DeviceConfig /\ config'.id # 0
    BY <1>1 DEF Modify, TypeOK, DeviceConfig
  <2> QED BY <1>1, <2>1 DEF Modify, TypeOK, ZeroNeverStored, CommitSurvives
<1>2. CASE CallSave
  <2>1. PICK readOk \in BOOLEAN, writeOk \in BOOLEAN :
          /\ Save(readOk, writeOk)
          /\ rc' = IF loaded /\ SaveOk(Versioned(config), readOk, writeOk)
                   THEN "ok" ELSE "error"
          /\ committed' = IF rc' = "ok" THEN config' ELSE committed
    BY <1>2 DEF CallSave, Outcome
  <2>2. CASE loaded
    <3> DEFINE c == Versioned(config)
    <3>1. c \in DeviceConfig /\ c.id # 0 /\ c.version = ConfigVersion
      BY <2>2, VersionedType DEF TypeOK
    <3>2. config' = c /\ loaded' = loaded /\ nvs' = Stored(c, readOk, writeOk)
      BY <2>1, <2>2 DEF Save
    <3>3. committed' = IF SaveOk(c, readOk, writeOk) THEN c ELSE committed
      BY <2>1, <2>2, <3>2
    <3> HIDE DEF c
    <3> QED BY <2>1, <3>1, <3>2, <3>3, StoreStep DEF TypeOK
  <2>3. CASE ~loaded
    BY <2>1, <2>3 DEF Save, cfgVars, TypeOK, ZeroNeverStored, CommitSurvives
  <2> QED BY <2>2, <2>3
<1>3. CASE CallLoad
  <2>1. PICK mountOk \in BOOLEAN, readOk \in BOOLEAN, writeOk \in BOOLEAN :
          /\ Load(mountOk, readOk, writeOk)
          /\ rc' = IF mountOk THEN "ok" ELSE "error"
          /\ committed' = IF /\ mountOk /\ ~(readOk /\ Valid(nvs))
                            /\ SaveOk(Defaults, readOk, writeOk)
                          THEN Defaults ELSE committed
    BY <1>3 DEF CallLoad, Outcome
  <2>2. CASE mountOk /\ ~(readOk /\ Valid(nvs))
    <3>1. config' = Defaults /\ nvs' = Stored(Defaults, readOk, writeOk)
      BY <2>1, <2>2 DEF Load
    <3>2. committed' = IF SaveOk(Defaults, readOk, writeOk) THEN Defaults ELSE committed
      BY <2>1, <2>2
    <3>3. loaded' = TRUE /\ rc' \in {"ok", "error"}
      BY <2>1 DEF Load
    <3> QED BY <3>1, <3>2, <3>3, DefaultsType, StoreStep DEF TypeOK
  <2>3. CASE ~(mountOk /\ ~(readOk /\ Valid(nvs)))
    <3>1. nvs' = nvs /\ committed' = committed /\ loaded' = TRUE
      BY <2>1, <2>3 DEF Load
    <3>2. config' \in DeviceConfig /\ config'.id # 0
      BY <2>1, <2>3, DefaultsType DEF Load, Valid, TypeOK, ZeroNeverStored
    <3> QED BY <2>1, <3>1, <3>2 DEF TypeOK, ZeroNeverStored, CommitSurvives
  <2> QED BY <2>2, <2>3
<1>4. CASE CallSetConfig
  <2>1. PICK readOk \in BOOLEAN, writeOk \in BOOLEAN, i \in Ids :
          LET c == [config EXCEPT !.id = i]
          IN  /\ SetConfig(c, readOk, writeOk)
              /\ rc' = "ok"
              /\ committed' = IF loaded /\ SaveOk(Versioned(c), readOk, writeOk)
                              THEN config' ELSE committed
    BY <1>4 DEF CallSetConfig, Outcome
  <2> DEFINE c == [config EXCEPT !.id = i]
             v == Versioned(c)
  <2>2. c \in DeviceConfig /\ c.id # 0
    BY DEF TypeOK, DeviceConfig
  <2>3. v \in DeviceConfig /\ v.id # 0 /\ v.version = ConfigVersion
    BY <2>2, VersionedType
  <2>4. CASE loaded
    <3>1. config' = v /\ loaded' = loaded /\ nvs' = Stored(v, readOk, writeOk)
      BY <2>1, <2>4 DEF SetConfig
    <3>2. committed' = IF SaveOk(v, readOk, writeOk) THEN v ELSE committed
      BY <2>1, <2>4, <3>1
    <3> HIDE DEF v
    <3> QED BY <2>1, <2>3, <3>1, <3>2, StoreStep DEF TypeOK
  <2>5. CASE ~loaded
    BY <2>1, <2>2, <2>5 DEF SetConfig, TypeOK, ZeroNeverStored, CommitSurvives
  <2> QED BY <2>4, <2>5
<1>5. CASE Reset
  <2>1. ZeroConfig \in DeviceConfig
    BY DEF ZeroConfig, DeviceConfig
  <2> QED
    BY <1>5, <2>1 DEF Reset, ConfigReset, TypeOK, ZeroNeverStored, CommitSurvives
<1>6. CASE UNCHANGED vars
  BY <1>6 DEF vars, TypeOK, ZeroNeverStored, CommitSurvives
<1> QED BY <1>1, <1>2, <1>3, <1>4, <1>5, <1>6 DEF Next

LEMMA Invariance == Spec => []IInv
  BY InitInv, Step, PTL DEF Spec

(***************************************************************************)
(* Type correctness.                                                       *)
(***************************************************************************)
THEOREM TypeCorrect == Spec => []TypeOK
<1>1. IInv => TypeOK
  BY DEF IInv
<1> QED BY <1>1, Invariance, PTL

(***************************************************************************)
(* The zeroed RAM image never reaches the store (config_manager.cpp:121).  *)
(***************************************************************************)
THEOREM NeverZero == Spec => []ZeroNeverStored
<1>1. IInv => ZeroNeverStored
  BY DEF IInv
<1> QED BY <1>1, Invariance, PTL

(***************************************************************************)
(* The store holds what was last committed, through failures and resets    *)
(* (config_manager.cpp:76-155).                                            *)
(***************************************************************************)
THEOREM CommitsLast == Spec => []CommitSurvives
<1>1. IInv => CommitSurvives
  BY DEF IInv
<1> QED BY <1>1, Invariance, PTL

(***************************************************************************)
(* A load during which the flash works returns it.                         *)
(***************************************************************************)
THEOREM CommitsLoad == Spec => LoadReturnsCommit
<1>1. IInv => (CallLoad /\ Load(TRUE, TRUE, TRUE) /\ committed # NoRecord
                 => config' = committed)
  <2> SUFFICES ASSUME IInv, Load(TRUE, TRUE, TRUE), committed # NoRecord
               PROVE  config' = committed
    OBVIOUS
  <2>1. nvs = committed /\ Valid(nvs)
    BY DEF IInv, CommitSurvives, Valid
  <2> QED BY <2>1 DEF Load
<1> QED BY <1>1, Invariance, PTL DEF Spec, LoadReturnsCommit
==============================================================================
