---------------------------- MODULE SimulatedLink ----------------------------
(***************************************************************************)
(* The simulation build: the node's Auth, Interface and ProtocolHandler    *)
(* against the radio and gateway of sx1262_fake.cpp, a closed system.  The *)
(* cycle is that of NodeCycle; here the ACK has a time at which it is due, *)
(* and the node waits as long as its own airtime formula tells it to.      *)
(***************************************************************************)
EXTENDS SecurityCounter, Sequences

CONSTANTS
    FirstId, NewId, ProtocolVersion,                    \* see SimulatedRadio
    MaxCtr, TxThreshold, RxThreshold, ResetTimeout,     \* see LoraAuth
    NodeSf,             \* lora.datarate
    MaxPayload,         \* get_max_payload() of it
    MaxRetries,
    FramesPerCycle,     \* DATA frames a batch may make
    Lengths,            \* and their lengths with the tag
    MaxCycles           \* bound: cycles in one power-on

ASSUME LinkAssumption ==
    /\ FirstId \in Nat \ {0} /\ NewId \in Nat \ {0} /\ NewId # FirstId
    /\ MaxCtr \in Nat /\ MaxCtr > 1 /\ MaxCtr < CtrMod
    /\ TxThreshold \in Nat /\ RxThreshold \in Nat /\ ResetTimeout \in Nat
    /\ NodeSf \in 7 .. 12 /\ MaxPayload \in 51 .. 255 /\ MaxRetries \in Nat \ {0}
    /\ FramesPerCycle \subseteq Nat /\ Lengths \subseteq 1 .. MaxPayload
    /\ MaxCycles \in Nat

VARIABLES
    config, store,                                  \* in RAM and in NVS
    key, lastDerivedId, nextTx, lastRx, lastRxTime, \* Auth
    gwId, gwCtr, lastLow, ack, ackDue,              \* SimulatedRadio
    now,            \* uptime, in cycles
    pc,             \* where run_cycle() is
    left,           \* DATA frames still to be sent
    frame, len,     \* the frame being sent or decoded, its length
    attempt, ret,   \* see NodeCycle
    firstAt         \* nextTx when the first CONFIG frame came, 0 before that

NoFrame == [type |-> "none"]
Auth == INSTANCE LoraAuth
Handler == INSTANCE ProtocolHandler
Air == INSTANCE Airtime
DeviceKey(id) == Auth!DeviceKey(id)
Tag(k, counter) == Auth!Tag(k, counter)
Radio == INSTANCE SimulatedRadio

authVars == <<key, lastDerivedId, nextTx, lastRx, lastRxTime>>
radioVars == <<gwId, gwCtr, lastLow, ack, ackDue>>
sendVars == <<left, frame, len, attempt, ret>>
vars == <<config, store, authVars, radioVars, now, pc, sendVars, firstAt>>

-----------------------------------------------------------------------------

Defaults == [id |-> FirstId, txSec |-> 1, rxSec |-> 0]

\* An earlier run of the simulation may have left either id in the flash file.
Init ==
    /\ config = [id |-> 0, txSec |-> 0, rxSec |-> 0]
    /\ store \in {Defaults, [Defaults EXCEPT !.id = NewId]}
    /\ key = DeviceKey(0) /\ lastDerivedId = 0
    /\ nextTx = 1 /\ lastRx = 0 /\ lastRxTime = 0
    /\ Radio!RadioInit
    /\ now = 0 /\ pc = "load"
    /\ left = 0 /\ frame = NoFrame /\ len = 0 /\ attempt = 0 /\ ret = "none"
    /\ firstAt = 0

LoadConfig ==
    /\ pc = "load"
    /\ config' = store
    /\ pc' = "prepare"
    /\ UNCHANGED <<store, authVars, radioVars, now, sendVars, firstAt>>

Prepare ==
    /\ pc = "prepare"
    /\ Auth!InitKey
    /\ left' \in FramesPerCycle
    /\ ret' = "none" /\ frame' = NoFrame
    /\ pc' = "build"
    /\ UNCHANGED <<store, radioVars, now, len, attempt, firstAt>>

Frame(type, id, tag) ==
    [type |-> type, id |-> id, low |-> Low(tag.ctr), tag |-> tag, body |-> Handler!NoBody]

BuildAndSign ==
    /\ pc = "build" /\ left > 0
    /\ Auth!Sign
    /\ frame' = Frame("DATA", config.id, Auth!SignedTag)
    /\ len' \in Lengths
    /\ left' = left - 1 /\ attempt' = 0 /\ ret' = "none"
    /\ pc' = "transmit"
    /\ UNCHANGED <<store, radioVars, now, firstAt>>

Transmit ==
    /\ pc = "transmit" /\ attempt < MaxRetries
    /\ Radio!LoraSend(frame, len)
    /\ pc' = "await"
    /\ UNCHANGED <<config, store, authVars, now, sendVars, firstAt>>

GiveUp ==
    /\ pc = "transmit" /\ attempt >= MaxRetries
    /\ ret' = "timeout"
    /\ pc' = "build"
    /\ UNCHANGED <<config, store, authVars, radioVars, now, left, frame, len, attempt, firstAt>>

\* Mutant of AckWindow: no margin.
AckWindow_NoMargin == Air!AirtimeMs(NodeSf, 4)

\* wait_for_ack() waits for the airtime of ACK_FRAME_SIZE, the header without tag.
AckWindow == Air!WithMargin(Air!AirtimeMs(NodeSf, 4))

\* The node sleeps for the airtime of its frame before it waits.
AckDeadline == Air!AirtimeMs(NodeSf, len) + AckWindow
Backoff == 200

ValidAck(f) ==
    /\ f.type = "ACK" /\ f.id = config.id /\ f.low = frame.low
    /\ Auth!AckVerifies(f.low, f.tag)

\* The first injection, if there is one in this step.
NoteInjection ==
    firstAt' = IF gwCtr' # gwCtr /\ firstAt = 0 THEN nextTx ELSE firstAt

AckArrives ==
    /\ pc = "await" /\ ValidAck(Radio!Received(AckDeadline))
    /\ Radio!LoraRecv(AckDeadline)
    /\ NoteInjection
    /\ ret' = "ok"
    /\ pc' = "build"
    /\ UNCHANGED <<config, store, authVars, now, left, frame, len, attempt>>

NoValidAck ==
    /\ pc = "await" /\ ~ValidAck(Radio!Received(AckDeadline))
    /\ Radio!LoraRecv(AckDeadline)
    /\ NoteInjection
    /\ pc' = "backoff"
    /\ UNCHANGED <<config, store, authVars, now, sendVars>>

BackOff ==
    /\ pc = "backoff"
    /\ Radio!Pause(Backoff)
    /\ attempt' = attempt + 1
    /\ pc' = "transmit"
    /\ UNCHANGED <<config, store, authVars, now, left, frame, len, ret, firstAt>>

\* compute_rx_timeout() of the largest frame.
ListenWindow == Air!WithMargin(Air!AirtimeMs(NodeSf, MaxPayload))

\* receive() and verify_frame().
Listen ==
    /\ pc = "build" /\ left = 0
    /\ Radio!LoraRecv(ListenWindow)
    /\ NoteInjection
    /\ LET f == Radio!Received(ListenWindow)
       IN  IF f = NoFrame
           THEN pc' = "save" /\ UNCHANGED <<config, authVars, frame>>
           ELSE /\ Auth!VerifyFrame(f.low, f.tag)
                /\ frame' = f
                /\ pc' = IF Auth!Verifies(f.low, f.tag) THEN "decode" ELSE "save"
    /\ UNCHANGED <<store, now, left, len, attempt, ret>>

DecodeFrame ==
    /\ pc = "decode"
    /\ Handler!Decode(frame)
    /\ pc' = "reply"
    /\ UNCHANGED <<store, authVars, radioVars, now, sendVars, firstAt>>

\* The RESPONSE leaves an ACK behind that nobody waits for.
Reply ==
    /\ pc = "reply"
    /\ Auth!Sign
    /\ Radio!LoraSend(Frame("RESPONSE", config.id, Auth!SignedTag), 5)
    /\ pc' = "save"
    /\ UNCHANGED <<store, now, sendVars, firstAt>>

SaveConfig ==
    /\ pc = "save"
    /\ store' = config
    /\ pc' = "sleep"
    /\ UNCHANGED <<config, authVars, radioVars, now, sendVars, firstAt>>

\* Every sleep is longer than an ACK takes.
WakeUp ==
    /\ pc = "sleep" /\ now < MaxCycles
    /\ Radio!Pause(ackDue + 1)
    /\ now' = now + 1
    /\ pc' = "load"
    /\ UNCHANGED <<config, store, authVars, sendVars, firstAt>>

NodeStep ==
    \/ LoadConfig \/ Prepare \/ BuildAndSign \/ Transmit \/ GiveUp \/ AckArrives
    \/ NoValidAck \/ BackOff \/ Listen \/ DecodeFrame \/ Reply \/ SaveConfig \/ WakeUp

\* The process is started anew on the same flash file: node and gateway both.
Restart ==
    /\ config' = [id |-> 0, txSec |-> 0, rxSec |-> 0]
    /\ Auth!AuthReset /\ Radio!RadioReset
    /\ now' = 0 /\ pc' = "load"
    /\ left' = 0 /\ frame' = NoFrame /\ len' = 0 /\ attempt' = 0 /\ ret' = "none"
    /\ firstAt' = 0
    /\ UNCHANGED store

Next == NodeStep \/ Restart
Spec == Init /\ [][Next]_vars

-----------------------------------------------------------------------------
(* Properties.                                                             *)

TypeOK ==
    /\ config \in [id : {0, FirstId, NewId}, txSec : Counter, rxSec : Counter]
    /\ store \in [id : {FirstId, NewId}, txSec : Counter, rxSec : Counter]
    /\ key = DeviceKey(lastDerivedId) /\ lastDerivedId \in {0, FirstId, NewId}
    /\ nextTx \in 1 .. MaxCtr /\ lastRx \in Counter /\ lastRxTime \in Nat
    /\ gwId \in {FirstId, NewId} /\ gwCtr \in LowByte /\ lastLow \in LowByte
    /\ ackDue \in Nat /\ now \in 0 .. MaxCycles
    /\ left \in Nat /\ attempt \in 0 .. MaxRetries
    /\ ret \in {"none", "ok", "timeout"}
    /\ firstAt \in 0 .. MaxCtr

(***************************************************************************)
(* A frame is acknowledged exactly when node and gateway have one key and  *)
(* its counter fits the byte, the last value excepted.  The window of the  *)
(* node, computed for an ACK without its tag, is long enough for the ACK   *)
(* with it (lora_interface.cpp:158, sx1262_fake.cpp:148); the gateway signs*)
(* with the byte where the node expects the full counter                   *)
(* (sx1262_fake.cpp:129, lora_auth.cpp:141).                               *)
(***************************************************************************)
AckedInStep ==
    pc = "build" /\ ret # "none" =>
        (ret = "ok" <=> key = Radio!GwKey /\ frame.tag.ctr < LowMod - 1)

(***************************************************************************)
(* The gateway changes its id when it has sent the command, the node when  *)
(* it has accepted it.  When the node sleeps the two are apart in two cases*)
(* only: the node came up with the new id and no CONFIG frame was sent yet,*)
(* or the first CONFIG frame came so late that its counter 1 was taken for *)
(* one after the wrap of the byte (sx1262_fake.cpp:219, lora_auth.cpp:98). *)
(***************************************************************************)
ApartForAReason ==
    pc = "sleep" /\ config.id # gwId =>
        \/ firstAt = 0 /\ config.id = NewId
        \/ firstAt >= LowMod - WrapBand
=============================================================================
