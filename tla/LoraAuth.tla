------------------------------- MODULE LoraAuth ------------------------------
(***************************************************************************)
(* loragro::Auth (common/src/lora_auth.cpp): the device key, the transmit  *)
(* counter that signs every outgoing frame, and the receive counter that   *)
(* guards the downlink against replays.  Auth keeps its state in RAM and   *)
(* writes the two security counters into the configuration it shares with  *)
(* the rest of the firmware.                                               *)
(*                                                                         *)
(* AES and CMAC are symbolic: distinct ids derive distinct keys (AES is a  *)
(* permutation), and a tag verifies exactly for the key, the full counter  *)
(* and the frame it was computed for.                                      *)
(***************************************************************************)
EXTENDS SecurityCounter

CONSTANTS
    MaxCtr,         \* bound: frames signed between two resets, plus one
    TxThreshold,    \* tx_counter_nvm_write_threshold: 64
    RxThreshold,    \* rx_counter_nvm_write_threshold: 16
    ResetTimeout    \* RESET_TIMEOUT_SEC: 16 hours

ASSUME AuthAssumption ==
    /\ MaxCtr \in Nat /\ MaxCtr > 1 /\ MaxCtr < CtrMod
    /\ TxThreshold \in Nat /\ RxThreshold \in Nat /\ ResetTimeout \in Nat

VARIABLES
    config,         \* the shared DeviceConfig: id, txSec, rxSec and more
    now,            \* k_uptime_seconds()
    key,            \* device_key_
    lastDerivedId,  \* last_derived_id_
    nextTx,         \* next_tx_counter_
    lastRx,         \* last_rx_counter_
    lastRxTime      \* last_rx_timestamp_

keyVars == <<key, lastDerivedId>>
rxVars == <<lastRx, lastRxTime>>
authVars == <<key, lastDerivedId, nextTx, lastRx, lastRxTime>>

\* derive_device_key: AES of the id under the master key.
DeviceKey(id) == [aes |-> id]

\* The tag compute_cmac() gives a frame, as far as a verifier can tell it from
\* another one: the frame's content is part of the frame the tag belongs to.
Tag(k, counter) == [key |-> k, ctr |-> counter]
NoTag == [key |-> "none"]

\* The constructor, run before the configuration is loaded: the id and the
\* security counter it reads are the zeros of static storage.
AuthReset ==
    /\ key' = DeviceKey(0)
    /\ lastDerivedId' = 0
    /\ nextTx' = 0 + 1
    /\ lastRx' = 0
    /\ lastRxTime' = 0

\* Mutants of InitKey: line 26 is active; a derived key is never given up.
InitKey_RestartsCounter ==
    IF config.id = lastDerivedId
    THEN UNCHANGED <<config, authVars>>
    ELSE /\ key' = DeviceKey(config.id)
         /\ lastDerivedId' = config.id
         /\ config' = [config EXCEPT !.txSec = 1]
         /\ nextTx' = 2 /\ lastRx' = 0 /\ lastRxTime' = 0

InitKey_DerivesOnce ==
    IF lastDerivedId # 0
    THEN UNCHANGED <<config, authVars>>
    ELSE /\ key' = DeviceKey(config.id)
         /\ lastDerivedId' = config.id
         /\ config' = [config EXCEPT !.txSec = 1]
         /\ lastRx' = 0 /\ lastRxTime' = 0
         /\ UNCHANGED nextTx

\* init_key(): the cached key is kept while the id is the one it came from.
InitKey ==
    IF config.id = lastDerivedId
    THEN UNCHANGED <<config, authVars>>
    ELSE /\ key' = DeviceKey(config.id)
         /\ lastDerivedId' = config.id
         /\ config' = [config EXCEPT !.txSec = 1]
         /\ lastRx' = 0
         /\ lastRxTime' = 0
         /\ UNCHANGED nextTx

\* The tag sign_frame() puts on a frame now, and the counter byte it stores.
SignedTag == Tag(key, nextTx)

\* Mutant of Sign: the counter stays.
Sign_NoIncrement == nextTx < MaxCtr /\ UNCHANGED <<config, authVars>>

\* sign_frame()
Sign ==
    /\ nextTx < MaxCtr
    /\ nextTx' = Succ(nextTx)
    /\ config' = IF Minus(nextTx', config.txSec) > TxThreshold
                 THEN [config EXCEPT !.txSec = nextTx'] ELSE config
    /\ UNCHANGED <<keyVars, rxVars>>

\* No frame was verified for RESET_TIMEOUT_SEC.
TimedOut == now - lastRxTime > ResetTimeout
RxBase == IF TimedOut THEN 0 ELSE lastRx

\* The counter verify_frame() gives a frame whose counter byte is "low".
RxCounter(low) == Reconstruct(low, nextTx)

\* Mutant of Fresh: any counter is accepted once there is a last one.
Fresh_AnyCounter(low) == IF RxBase = 0 THEN low = 1 ELSE TRUE

\* The replay check and the CMAC check of verify_frame().  The type of the
\* frame plays no part in either.
Fresh(low) == IF RxBase = 0 THEN low = 1 ELSE RxCounter(low) > RxBase
Verifies(low, tag) == Fresh(low) /\ tag = Tag(key, RxCounter(low))

\* Mutants of VerifyFrame: the counter moves before the tag is checked; an accepted
\* frame leaves the timestamp; the timestamp is set to the end of the timeout.
VerifyFrame_CounterFirst(low, tag) ==
    /\ lastRx' = IF Fresh(low) THEN RxCounter(low) ELSE RxBase
    /\ lastRxTime' = IF Verifies(low, tag) \/ TimedOut THEN now ELSE lastRxTime
    /\ UNCHANGED <<config, keyVars, nextTx>>

VerifyFrame_NoTimestamp(low, tag) ==
    /\ lastRx' = IF Verifies(low, tag) THEN RxCounter(low) ELSE RxBase
    /\ lastRxTime' = IF TimedOut THEN now ELSE lastRxTime
    /\ UNCHANGED <<config, keyVars, nextTx>>

VerifyFrame_Deadline(low, tag) ==
    /\ lastRx' = IF Verifies(low, tag) THEN RxCounter(low) ELSE RxBase
    /\ lastRxTime' = IF Verifies(low, tag) THEN now + ResetTimeout ELSE lastRxTime
    /\ UNCHANGED <<config, keyVars, nextTx>>

\* verify_frame(): the timeout resets the counter even when the frame is then
\* rejected.
VerifyFrame(low, tag) ==
    /\ IF Verifies(low, tag)
       THEN /\ lastRx' = RxCounter(low)
            /\ lastRxTime' = now
            /\ config' = IF Minus(lastRx', config.rxSec) > RxThreshold
                         THEN [config EXCEPT !.rxSec = lastRx'] ELSE config
       ELSE /\ lastRx' = RxBase
            /\ lastRxTime' = IF TimedOut THEN now ELSE lastRxTime
            /\ UNCHANGED config
    /\ UNCHANGED <<keyVars, nextTx>>

\* Mutant of AckVerifies: the tag is computed over the counter byte.
AckVerifies_ByteOnly(low, tag) ==
    Reconstruct(low, nextTx) = Minus(nextTx, 1) /\ tag = Tag(key, low)

\* verify_ack(): the ACK must echo the counter of the last frame signed.
AckVerifies(low, tag) ==
    LET expected == Reconstruct(low, nextTx)
    IN  expected = Minus(nextTx, 1) /\ tag = Tag(key, expected)
=============================================================================
