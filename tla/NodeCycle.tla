------------------------------ MODULE NodeCycle ------------------------------
(***************************************************************************)
(* The FiNo node: loragro::App (Fino-LoRaGro/src/app.cpp) driving its      *)
(* components through one measurement cycle after another, and Interface   *)
(* (common/src/lora_interface.cpp), the confirmed transmission over the    *)
(* radio, folded into the steps that call it.                              *)
(*                                                                         *)
(* The firmware is one thread.  Its steps are cut where it waits: before a *)
(* frame goes out, while the radio listens, while it sleeps.  Between any  *)
(* two steps the gateway may send and the node may lose power.  The radio  *)
(* loses, delays, repeats and reorders: what the gateway has sent may be   *)
(* received at any later time, or never.                                   *)
(***************************************************************************)
EXTENDS SecurityCounter, Sequences, FiniteSets

CONSTANTS
    Ids,            \* combined ids of the network
    DefaultId,      \* the id of load_defaults()
    Broadcast,      \* 0xFFFF: frames sent without an ACK
    MaxCtr, TxThreshold, RxThreshold, ResetTimeout,     \* see LoraAuth
    MaxPayload,     \* see FrameCodec
    MaxRetries,     \* max_retries
    MaxTx,          \* max_tx_frames_per_cycle
    ProtocolVersion, ConfigVersion,
    Batches,        \* sizes of the batches the sensors deliver
    SleepTimes,     \* durations of a sleep, in units of the uptime
    GwCtrs,         \* counters the gateway signs CONFIG frames with
    GwBodies,       \* bodies of the gateway's CONFIG frames
    Faults,         \* subset of {"flash", "radio", "rail"}: what may fail
    MaxCycles,      \* bound: cycles the node wakes up for
    MaxGwSends,     \* bound: CONFIG frames the gateway sends
    MaxBoots        \* bound: losses of power

ASSUME CycleAssumption ==
    /\ Ids \subseteq Nat \ {0} /\ DefaultId \in Ids /\ Broadcast \in Nat
    /\ MaxCtr \in Nat /\ MaxCtr > 1 /\ MaxCtr < CtrMod
    /\ TxThreshold \in Nat /\ RxThreshold \in Nat /\ ResetTimeout \in Nat
    /\ MaxPayload \in Nat /\ MaxPayload > 4 /\ MaxRetries \in Nat /\ MaxTx \in Nat
    /\ ProtocolVersion \in Nat /\ ConfigVersion \in 1 .. 255
    /\ Batches \subseteq Nat /\ SleepTimes \subseteq Nat /\ GwCtrs \subseteq Counter
    /\ Faults \subseteq {"flash", "radio", "rail"}
    /\ MaxCycles \in Nat /\ MaxGwSends \in Nat /\ MaxBoots \in Nat

\* See ProtocolHandler for the form of a body.
ASSUME BodyAssumption ==
    /\ GwBodies \subseteq [count : Nat, version : Nat, tail : Nat,
                           cmds : Seq([op : Nat, enc : 0 .. 3, arg : Nat])]
    /\ \A b \in GwBodies : \A k \in 1 .. Len(b.cmds) :
          b.cmds[k].op = 0 => b.cmds[k].arg \in Ids

VARIABLES
    config, loaded, nvs,                            \* ConfigManager
    key, lastDerivedId, nextTx, lastRx, lastRxTime, \* Auth
    batchCount, batchOffset,                        \* FrameCodec
    powered, users,                                 \* PowerRail3V3
    offFailed,      \* the powerOff() of this cycle has returned an error
    now,            \* uptime
    pc,             \* where run_cycle() is
    sentCount,      \* sent_frame_count
    frame,          \* au8Frame
    attempt,        \* send_confirmed()'s loop variable
    ret,            \* what send_confirmed() returned, or "none"
    result,         \* the DecodeResult of this cycle, or "none"
    cycle,          \* number of batches sampled so far, over all boots
    boots,          \* number of losses of power
    heard,          \* frames of the node that reached the gateway
    gwSent          \* CONFIG frames the gateway has sent

Cfg == INSTANCE ConfigManager
         WITH Counters <- Counter, Intervals <- 0 .. 255, Versions <- 0 .. 255
Auth == INSTANCE LoraAuth
Codec == INSTANCE FrameCodec
Handler == INSTANCE ProtocolHandler
Rail == INSTANCE PowerRail

cfgVars == <<config, loaded, nvs>>
authVars == <<key, lastDerivedId, nextTx, lastRx, lastRxTime>>
codecVars == <<batchCount, batchOffset>>
railVars == <<powered, users, offFailed>>
loopVars == <<sentCount, attempt, ret>>
worldVars == <<cycle, boots, heard, gwSent>>
vars == <<cfgVars, authVars, codecVars, railVars, now, pc, loopVars, frame,
          result, worldVars>>

-----------------------------------------------------------------------------
(* Frames: [type, id, low, tag, body]; "low" is the counter byte.          *)

NoFrame == [type |-> "none"]

DataFrame(id, tag, slice) ==
    [type |-> "DATA", id |-> id, low |-> Low(tag.ctr), tag |-> tag,
     body |-> [cycle |-> cycle, slice |-> slice]]

ResponseFrame(id, tag, res) ==
    [type |-> "RESPONSE", id |-> id, low |-> Low(tag.ctr), tag |-> tag,
     body |-> [result |-> res]]

ConfigFrame(id, counter, body) ==
    [type |-> "CONFIG", id |-> id, low |-> Low(counter),
     tag |-> Auth!Tag(Auth!DeviceKey(id), counter), body |-> body]

\* The gateway echoes id and counter of a frame that verifies for its sender.
Acknowledged(f) ==
    f.type = "DATA" /\ f.id # Broadcast /\ f.tag.key = Auth!DeviceKey(f.id)

AckFrame(f) ==
    [type |-> "ACK", id |-> f.id, low |-> Low(f.tag.ctr),
     tag |-> Auth!Tag(Auth!DeviceKey(f.id), f.tag.ctr), body |-> Handler!NoBody]

\* A frame garbled on the way, or somebody else's.
Noise == [type |-> "NOISE", id |-> 0, low |-> 1, tag |-> Auth!NoTag,
          body |-> Handler!NoBody]

\* What the node may receive now: every downlink frame sent so far.
Downlink == {AckFrame(f) : f \in {d \in heard : Acknowledged(d)}} \cup gwSent \cup {Noise}

Outcomes(kind) == IF kind \in Faults THEN BOOLEAN ELSE {TRUE}

-----------------------------------------------------------------------------
(* The node.                                                               *)

\* What an earlier life of the node may have left in the store.
Stores == {Cfg!NoRecord} \cup {[Cfg!Defaults EXCEPT !.id = i] : i \in Ids}

\* After the constructors; main() has not run yet.
Init ==
    /\ config = Cfg!ZeroConfig /\ loaded = FALSE /\ nvs \in Stores
    /\ key = Auth!DeviceKey(0) /\ lastDerivedId = 0
    /\ nextTx = 1 /\ lastRx = 0 /\ lastRxTime = 0
    /\ batchCount = 0 /\ batchOffset = 0
    /\ powered = FALSE /\ users = 0 /\ offFailed = FALSE
    /\ now = 0 /\ pc = "init"
    /\ sentCount = 0 /\ attempt = 0 /\ ret = "none"
    /\ frame = NoFrame /\ result = "none"
    /\ cycle = 0 /\ boots = 0 /\ heard = {} /\ gwSent = {}

LoadConfiguration ==
    \E mountOk, readOk, writeOk \in Outcomes("flash") : Cfg!Load(mountOk, readOk, writeOk)

\* App::init(); main() returns when the radio is not ready.
AppInit ==
    /\ pc = "init"
    /\ LoadConfiguration
    /\ \E ready \in Outcomes("radio") : pc' = IF ready THEN "load" ELSE "halted"
    /\ UNCHANGED <<authVars, codecVars, railVars, now, loopVars, frame, result, worldVars>>

\* run_cycle(), first lines.
LoadConfig ==
    /\ pc = "load"
    /\ LoadConfiguration
    /\ pc' = "prepare"
    /\ UNCHANGED <<authVars, codecVars, railVars, now, loopVars, frame, result, worldVars>>

\* powerOn, init_all, radio init, init_key, sample_all, begin.  What the rail
\* and the sensors return is ignored; a failing sensor shortens the batch.
Prepare ==
    /\ pc = "prepare"
    /\ \E works \in Outcomes("rail") : Rail!PowerOn(works)
    /\ offFailed' = FALSE
    /\ Auth!InitKey
    /\ \E count \in Batches : Codec!Begin(count)
    /\ sentCount' = 0 /\ attempt' = 0 /\ ret' = "none" /\ result' = "none"
    /\ cycle' = cycle + 1
    /\ pc' = "build"
    /\ UNCHANGED <<loaded, nvs, now, frame, boots, heard, gwSent>>

\* The guard of the transmit loop and its two breaks.
MoreToSend ==
    Codec!HasFrameToSend /\ ~(sentCount > MaxTx) /\ Codec!BuildResult > 0

BuildAndSign ==
    /\ pc = "build" /\ MoreToSend
    /\ Codec!BuildFrame
    /\ Auth!Sign
    /\ frame' = DataFrame(config.id, Auth!SignedTag, Codec!Slice)
    /\ attempt' = 0 /\ ret' = "none"
    /\ pc' = "transmit"
    /\ UNCHANGED <<loaded, nvs, railVars, now, sentCount, result, worldVars>>

LeaveLoop ==
    /\ pc = "build" /\ ~MoreToSend
    /\ frame' = NoFrame
    /\ pc' = "listen"
    /\ UNCHANGED <<cfgVars, authVars, codecVars, railVars, now, loopVars, result, worldVars>>

\* lora_send(): the frame reaches the gateway or is lost.
Send(f) == heard' = heard \cup {f} \/ heard' = heard

\* send_confirmed() returns "value" and the loop goes on.
Return(value) ==
    /\ ret' = value
    /\ sentCount' = sentCount + 1
    /\ pc' = "build"

\* A broadcast frame is sent once and expects no ACK.
TransmitBroadcast ==
    /\ pc = "transmit" /\ frame.id = Broadcast
    /\ \/ Send(frame) /\ Return("sent")
       \/ "radio" \in Faults /\ Return("error") /\ UNCHANGED heard
    /\ UNCHANGED <<cfgVars, authVars, codecVars, railVars, now, attempt, frame,
                   result, cycle, boots, gwSent>>

Transmit ==
    /\ pc = "transmit" /\ frame.id # Broadcast /\ attempt < MaxRetries
    /\ \/ Send(frame) /\ pc' = "await" /\ UNCHANGED <<ret, sentCount>>
       \/ "radio" \in Faults /\ Return("error") /\ UNCHANGED heard
    /\ UNCHANGED <<cfgVars, authVars, codecVars, railVars, now, attempt, frame,
                   result, cycle, boots, gwSent>>

GiveUp ==
    /\ pc = "transmit" /\ frame.id # Broadcast /\ attempt >= MaxRetries
    /\ Return("timeout")
    /\ UNCHANGED <<cfgVars, authVars, codecVars, railVars, now, attempt, frame,
                   result, worldVars>>

\* Mutant of ValidAck: neither the counter nor the tag is looked at.
ValidAck_AnyAck(f) == f.type = "ACK" /\ f.id = config.id

\* is_valid_ack()
ValidAck(f) ==
    /\ f.type = "ACK"
    /\ f.id = config.id
    /\ f.low = frame.low
    /\ Auth!AckVerifies(f.low, f.tag)

\* wait_for_ack() receives one frame, whatever it is.
AckReceived ==
    /\ pc = "await"
    /\ \E f \in Downlink : ValidAck(f)
    /\ Return("ok")
    /\ UNCHANGED <<cfgVars, authVars, codecVars, railVars, now, attempt, frame,
                   result, worldVars>>

\* Mutant of NoAckReceived: the attempts are not counted.
NoAckReceived_NoCount ==
    /\ pc = "await"
    /\ pc' = "transmit"
    /\ UNCHANGED <<cfgVars, authVars, codecVars, railVars, now, loopVars, frame,
                   result, worldVars>>

\* Nothing was received in time, or something else than the ACK: back off.
NoAckReceived ==
    /\ pc = "await"
    /\ attempt' = attempt + 1
    /\ pc' = "transmit"
    /\ UNCHANGED <<cfgVars, authVars, codecVars, railVars, now, ret, sentCount, frame,
                   result, worldVars>>

\* The one receive window of the cycle stays empty.
NothingReceived ==
    /\ pc = "listen"
    /\ pc' = "off"
    /\ UNCHANGED <<cfgVars, authVars, codecVars, railVars, now, loopVars, frame,
                   result, worldVars>>

ReceiveFrame(f) ==
    /\ pc = "listen"
    /\ Auth!VerifyFrame(f.low, f.tag)
    /\ frame' = f
    /\ pc' = IF Auth!Verifies(f.low, f.tag) THEN "decode" ELSE "off"
    /\ UNCHANGED <<loaded, nvs, codecVars, railVars, now, loopVars, result, worldVars>>

DecodeFrame ==
    /\ pc = "decode"
    /\ Handler!Decode(frame)
    /\ result' = Handler!DecodeResult(frame)
    /\ pc' = "reply"
    /\ UNCHANGED <<loaded, nvs, authVars, codecVars, railVars, now, loopVars, frame, worldVars>>

\* build_frame() and sign_frame() of the RESPONSE.
Reply ==
    /\ pc = "reply"
    /\ IF Codec!ResponseLength > 0
       THEN /\ Auth!Sign
            /\ frame' = ResponseFrame(config.id, Auth!SignedTag, result)
            /\ pc' = "respond"
       ELSE /\ pc' = "off"
            /\ UNCHANGED <<config, authVars, frame>>
    /\ UNCHANGED <<loaded, nvs, codecVars, railVars, now, loopVars, result, worldVars>>

\* send_response() is given the length without the tag.
Respond ==
    /\ pc = "respond"
    /\ Send([frame EXCEPT !.tag = Auth!NoTag])
    /\ pc' = "off"
    /\ UNCHANGED <<cfgVars, authVars, codecVars, railVars, now, loopVars, frame,
                   result, cycle, boots, gwSent>>

PowerDown ==
    /\ pc = "off"
    /\ \E works \in Outcomes("rail") :
          Rail!PowerOff(works) /\ offFailed' = Rail!OffFails(works)
    /\ pc' = "save"
    /\ UNCHANGED <<cfgVars, authVars, codecVars, now, loopVars, frame, result, worldVars>>

SaveConfig ==
    /\ pc = "save"
    /\ \E readOk, writeOk \in Outcomes("flash") : Cfg!Save(readOk, writeOk)
    /\ pc' = "sleep"
    /\ UNCHANGED <<authVars, codecVars, railVars, now, loopVars, frame, result, worldVars>>

\* handle_sleep(), then the next turn of App::run().
WakeUp ==
    /\ pc = "sleep" /\ cycle < MaxCycles
    /\ \E d \in SleepTimes : now' = now + d
    /\ pc' = "load"
    /\ UNCHANGED <<cfgVars, authVars, codecVars, railVars, loopVars, frame, result, worldVars>>

NodeStep ==
    \/ AppInit \/ LoadConfig \/ Prepare \/ BuildAndSign \/ LeaveLoop
    \/ TransmitBroadcast \/ Transmit \/ GiveUp \/ AckReceived \/ NoAckReceived
    \/ NothingReceived \/ (\E f \in Downlink : ReceiveFrame(f)) \/ DecodeFrame
    \/ Reply \/ Respond \/ PowerDown \/ SaveConfig \/ WakeUp

-----------------------------------------------------------------------------
(* The world around it.                                                    *)

\* The gateway sends a CONFIG frame; it never signs two with one counter.
GatewaySend(f) ==
    /\ Cardinality(gwSent) < MaxGwSends
    /\ \A g \in gwSent : g.tag # f.tag
    /\ gwSent' = gwSent \cup {f}
    /\ UNCHANGED <<cfgVars, authVars, codecVars, railVars, now, pc, loopVars, frame,
                   result, cycle, boots, heard>>

GatewayFrames == {ConfigFrame(i, c, b) : i \in Ids, c \in GwCtrs, b \in GwBodies}

\* RAM and uptime are lost; the store, the gateway and the air keep theirs.
PowerLoss ==
    /\ boots < MaxBoots
    /\ Cfg!ConfigReset /\ Auth!AuthReset /\ Rail!RailReset /\ offFailed' = FALSE
    /\ batchCount' = 0 /\ batchOffset' = 0
    /\ now' = 0 /\ pc' = "init"
    /\ sentCount' = 0 /\ attempt' = 0 /\ ret' = "none"
    /\ frame' = NoFrame /\ result' = "none"
    /\ boots' = boots + 1
    /\ UNCHANGED <<cycle, heard, gwSent>>

\* One power-on after the other.
SteadyNext == NodeStep \/ \E f \in GatewayFrames : GatewaySend(f)
Next == SteadyNext \/ PowerLoss

\* One power-on, and a thread that is never starved: every wait has a timeout.
SteadySpec == Init /\ [][SteadyNext]_vars
FairSpec == SteadySpec /\ WF_vars(NodeStep)
Spec == Init /\ [][Next]_vars

-----------------------------------------------------------------------------
(* Properties.                                                             *)

Pcs == {"init", "halted", "load", "prepare", "build", "transmit", "await", "listen",
        "decode", "reply", "respond", "off", "save", "sleep"}

TypeOK ==
    /\ config \in Cfg!DeviceConfig /\ loaded \in BOOLEAN
    /\ nvs \in Cfg!DeviceConfig \cup {Cfg!NoRecord}
    /\ key \in {Auth!DeviceKey(i) : i \in Ids \cup {0}} /\ lastDerivedId \in Ids \cup {0}
    /\ nextTx \in 1 .. MaxCtr /\ lastRx \in Counter /\ lastRxTime \in Nat
    /\ batchCount \in Nat /\ batchOffset \in Nat
    /\ powered \in BOOLEAN /\ users \in Nat /\ offFailed \in BOOLEAN
    /\ now \in Nat /\ pc \in Pcs
    /\ sentCount \in Nat /\ attempt \in Nat
    /\ ret \in {"none", "ok", "sent", "error", "timeout"}
    /\ result \in Handler!Results \cup {"none"}
    /\ cycle \in Nat /\ boots \in Nat

(***************************************************************************)
(* When send_confirmed() reports a frame acknowledged, that very frame has *)
(* reached the gateway: no late, repeated or reordered ACK of another frame*)
(* and no frame of another kind is taken for its ACK                       *)
(* (lora_interface.cpp:65-98, 179-209; lora_auth.cpp:138-156).  After a    *)
(* loss of power, when the counter starts anew (lora_auth.cpp:14) and the  *)
(* gateway still sends ACKs of before, it may instead be a frame of an     *)
(* earlier cycle with its key and counter.                                 *)
(***************************************************************************)
AckSound ==
    pc = "build" /\ ret = "ok" =>
        \E f \in heard :
            /\ f.type = "DATA" /\ f.tag = frame.tag
            /\ \/ f = frame
               \/ boots > 0 /\ f.body.cycle < frame.body.cycle

(***************************************************************************)
(* Before a loss of power the gateway never hears two different frames     *)
(* under one key and counter, whatever is lost, repeated, given up or      *)
(* answered in between; after it, two such frames are of different cycles. *)
(***************************************************************************)
OneFramePerCounter ==
    \A f, g \in heard :
        f.type = "DATA" /\ g.type = "DATA" /\ f.tag = g.tag
            => f = g \/ (boots > 0 /\ f.body.cycle # g.body.cycle)

(***************************************************************************)
(* A DATA frame is signed with the key of the id it carries.  The id       *)
(* changes in three ways (a command, a reload from the store, the defaults *)
(* of a failed load) while the key is cached in Auth; init_key() at the    *)
(* start of the cycle must catch all of them.                              *)
(***************************************************************************)
KeyMatchesId ==
    \A f \in heard : f.type = "DATA" => f.tag.key = Auth!DeviceKey(f.id)

(***************************************************************************)
(* No measurement reaches the gateway in two different frames: the slices  *)
(* of the frames of one batch do not overlap, however often frames were    *)
(* repeated or given up.                                                   *)
(***************************************************************************)
MeasurementsOnce ==
    \A f, g \in heard :
        /\ f.type = "DATA" /\ g.type = "DATA" /\ f # g
        /\ f.body.cycle = g.body.cycle
        => LET a == f.body.slice
               b == g.body.slice
           IN  a.first + a.count <= b.first \/ b.first + b.count <= a.first

(***************************************************************************)
(* A node that sleeps has everything in the store: a power loss during the *)
(* sleep loses no command and no counter update (with a working flash).    *)
(***************************************************************************)
AsleepIsStored == pc = "sleep" /\ "flash" \notin Faults => nvs = config

(***************************************************************************)
(* Docs/lora_protocol.md:43 bounds the gap between the transmit counter and*)
(* its stored value by the write threshold.  It is kept by every cycle that*)
(* sends a frame: signing raises the stored value, the save at the end of  *)
(* the cycle writes it, the reload at the start of the next one returns it.*)
(***************************************************************************)
StoredCounterClose ==
    pc = "sleep" /\ sentCount > 0 /\ "flash" \notin Faults
        => Minus(nextTx, nvs.txSec) <= TxThreshold

(***************************************************************************)
(* While the node sleeps the rail is on exactly when the powerOff() before *)
(* that sleep has failed.  A regulator call that failed in an earlier cycle*)
(* has no after-effect: the flag of PowerRail3V3 keeps a rail that stayed  *)
(* on from being enabled a second time, after which one disable would not  *)
(* turn it off (power_rail_3v3.cpp:16, 45, 66; app.cpp:219 ignores what    *)
(* powerOff() returns).                                                    *)
(***************************************************************************)
RailOffAsleep == pc = "sleep" => (users > 0 <=> offFailed)

(***************************************************************************)
(* Every cycle comes to its end, whatever the radio and the gateway do.    *)
(***************************************************************************)
CycleCompletes == pc \notin {"sleep", "halted"} ~> pc \in {"sleep", "halted"}

(***************************************************************************)
(* An id that a command has set, confirmed as OK_AND_REBOOT_NEED in any    *)
(* cycle but the last one of the model, comes into force without a reboot: *)
(* it gets into the store, survives the reload of the next cycle, and the  *)
(* node then has the key of that id.                                       *)
(***************************************************************************)
IdChangeTakesEffect ==
    \A i \in Ids :
        (/\ pc = "respond" /\ result = "OK_AND_REBOOT_NEED"
         /\ config.id = i /\ cycle < MaxCycles)
            ~> config.id = i /\ nvs.id = i /\ key = Auth!DeviceKey(i)

(***************************************************************************)
(* The receive counter is earned: it is that of a CONFIG frame the gateway *)
(* sent under the node's key, or of a frame of the node that the gateway   *)
(* heard, whose ACK came too late and was taken for a CONFIG frame         *)
(* (app.cpp:190).  Noise, refused frames and the timeout never raise it.   *)
(***************************************************************************)
RxCounterEarned ==
    lastRx # 0 =>
        \/ \E f \in gwSent : f.tag = Auth!Tag(key, lastRx)
        \/ \E f \in heard : f.type = "DATA" /\ f.tag = Auth!Tag(key, lastRx)

(***************************************************************************)
(* The node implements ConfirmedUplink: with everything that is lost, late,*)
(* repeated and retried, its transmit loop sees only the promise of that   *)
(* specification.  A frame is pending while send_confirmed() runs, and the *)
(* delivered frames are the DATA frames the gateway heard.                 *)
(***************************************************************************)
Uplink ==
    INSTANCE ConfirmedUplink
        WITH Frame <- [type : {"DATA"}, id : Ids, low : LowByte,
                       tag : [key : {Auth!DeviceKey(i) : i \in Ids}, ctr : Counter],
                       body : [cycle : Nat, slice : [first : Nat, count : Nat]]],
             pending <- IF pc \in {"transmit", "await"} THEN frame ELSE NoFrame,
             delivered <- {f \in heard : f.type = "DATA"},
             outcome <- ret

ImplementsUplink == Uplink!Spec

(***************************************************************************)
(* Docs/architecture.md:380-381, Docs/lora_protocol.md:87: every frame     *)
(* carries an AES-CMAC tag, the RESPONSE too.                              *)
(***************************************************************************)
EveryFrameTagged == \A f \in heard : f.tag # Auth!NoTag
=============================================================================
