---------------------------- MODULE SimulatedRadio ---------------------------
(***************************************************************************)
(* The radio and gateway of the simulation build                           *)
(* (common/drivers/lora/sx1262_fake.cpp).  lora_send() prepares the ACK of *)
(* whatever it is given.  lora_recv() returns that ACK once it is due and, *)
(* when its time runs out after a frame with an odd counter, a CONFIG      *)
(* frame that gives the node another id; the gateway takes the key of that *)
(* id at once.                                                             *)
(***************************************************************************)
EXTENDS SecurityCounter, Sequences

CONSTANTS
    FirstId,            \* 0x801, the gateway's id of the node at power-on
    NewId,              \* 0x803, the id its CONFIG frames set
    ProtocolVersion,
    NoFrame,            \* what lora_recv() returns when there is nothing
    DeviceKey(_), Tag(_, _)     \* the gateway's own Auth, see LoraAuth

VARIABLES
    gwId,       \* gw_cfg.combined_id
    gwCtr,      \* tx_counter, a uint8_t
    lastLow,    \* counter byte of last_tx
    ack,        \* last_ack while ack_ready is set, else NoFrame
    ackDue      \* ms until ack_ready_time

radioVars == <<gwId, gwCtr, lastLow, ack, ackDue>>

Air == INSTANCE Airtime

Sf == 12
AckLength == 8                  \* header and tag
NoBody == [count |-> 0]

\* gw_auth derives its key whenever the id changes.
GwKey == DeviceKey(gwId)

RadioInit ==
    /\ gwId = FirstId /\ gwCtr = 0 /\ lastLow = 0
    /\ ack = NoFrame /\ ackDue = 0

RadioReset ==
    /\ gwId' = FirstId /\ gwCtr' = 0 /\ lastLow' = 0
    /\ ack' = NoFrame /\ ackDue' = 0

\* fake_lora_send(): the ACK echoes id and counter byte of the frame and is signed
\* with that byte as its counter.
LoraSend(frame, len) ==
    /\ lastLow' = frame.low
    /\ ack' = [type |-> "ACK", id |-> frame.id, low |-> frame.low,
               tag |-> Tag(GwKey, frame.low), body |-> NoBody]
    /\ ackDue' = Air!AirtimeMs(Sf, len) + Air!AirtimeMs(Sf, AckLength)
    /\ UNCHANGED <<gwId, gwCtr>>

\* Mutant of NextGwCtr: the counter is wider than the byte.
NextGwCtr_Wide == gwCtr + 1

NextGwCtr == (gwCtr + 1) % LowMod

\* Mutant of Injection: it is signed with the key of the new id.
Injection_NewKey ==
    [type |-> "CONFIG", id |-> gwId, low |-> NextGwCtr,
     tag |-> Tag(DeviceKey(NewId), NextGwCtr),
     body |-> [count |-> 1, version |-> ProtocolVersion,
               cmds |-> <<[op |-> 0, enc |-> 1, arg |-> NewId]>>, tail |-> 0]]

\* The CONFIG frame of one SET_COMBINED_ID, under the id and key of before.
Injection ==
    [type |-> "CONFIG", id |-> gwId, low |-> NextGwCtr,
     tag |-> Tag(GwKey, NextGwCtr),
     body |-> [count |-> 1, version |-> ProtocolVersion,
               cmds |-> <<[op |-> 0, enc |-> 1, arg |-> NewId]>>, tail |-> 0]]

\* The ACK is due before "ms" have passed.
AckWithin(ms) == ack # NoFrame /\ ackDue < ms
Injects == lastLow % 2 = 1

\* What fake_lora_recv() returns when its deadline is "ms" from now.
Received(ms) ==
    IF AckWithin(ms) THEN ack ELSE IF Injects THEN Injection ELSE NoFrame

Elapsed(ms) == IF ackDue < ms THEN 0 ELSE ackDue - ms

LoraRecv(ms) ==
    IF AckWithin(ms)
    THEN /\ ack' = NoFrame /\ ackDue' = 0
         /\ UNCHANGED <<gwId, gwCtr, lastLow>>
    ELSE /\ ackDue' = Elapsed(ms)
         /\ gwCtr' = IF Injects THEN NextGwCtr ELSE gwCtr
         /\ gwId' = IF Injects THEN NewId ELSE gwId
         /\ UNCHANGED <<lastLow, ack>>

\* Time passes between two calls.
Pause(ms) == ackDue' = Elapsed(ms) /\ UNCHANGED <<gwId, gwCtr, lastLow, ack>>
=============================================================================
