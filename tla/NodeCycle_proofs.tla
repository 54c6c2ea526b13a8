--------------------------- MODULE NodeCycle_proofs ---------------------------
(***************************************************************************)
(* What the node guarantees, for every number of cycles, retries and       *)
(* frames, every set of ids and every width of the counters:               *)
(*   - signatures and acknowledgements, in one power-on;                   *)
(*   - types, keys and the rail, through losses of power and failing       *)
(*     drivers;                                                            *)
(*   - the link upwards, a step-by-step refinement of ConfirmedUplink, and *)
(*     downwards, the receive counter;                                     *)
(*   - the store and the measurements, through losses of power and failing *)
(*     drivers;                                                            *)
(*   - what an acknowledgement and a counter stand for, before and after a *)
(*     loss of power.                                                      *)
(***************************************************************************)
EXTENDS NodeCycle, SecurityCounter_proofs

USE CounterAssumption, CycleAssumption

\* Signing moves the counter on by one, and the tag carries the old value.
LEMMA SignFacts ==
    ASSUME nextTx \in 1 .. MaxCtr, Auth!Sign
    PROVE  /\ nextTx' = nextTx + 1 /\ nextTx' \in 1 .. MaxCtr
           /\ Auth!SignedTag.ctr = nextTx /\ Auth!SignedTag.key = key
           /\ config'.id = config.id
           /\ UNCHANGED <<key, lastDerivedId, lastRx, lastRxTime>>
<1>1. nextTx < MaxCtr /\ nextTx' = (nextTx + 1) % CtrMod
  BY DEF Auth!Sign, Auth!Succ
<1>2. (nextTx + 1) % CtrMod = nextTx + 1
  BY <1>1, ModSmall
<1>3. Auth!SignedTag.ctr = nextTx /\ Auth!SignedTag.key = key
  BY DEF Auth!SignedTag, Auth!Tag
<1>4. config'.id = config.id /\ UNCHANGED <<key, lastDerivedId, lastRx, lastRxTime>>
  BY DEF Auth!Sign, Auth!keyVars, Auth!rxVars
<1> QED BY <1>1, <1>2, <1>3, <1>4

-----------------------------------------------------------------------------
(* Acknowledgements, in one power-on.                                      *)

Data(f) == f.type = "DATA"

\* The counters of the DATA frames heard are behind the transmit counter, and no
\* two of the frames share one, whatever their keys.
HeardInv ==
    /\ nextTx \in 1 .. MaxCtr
    /\ \A f \in heard : Data(f) => f.tag.ctr \in Nat /\ f.tag.ctr < nextTx
    /\ \A f, g \in heard : Data(f) /\ Data(g) /\ f.tag.ctr = g.tag.ctr => f = g

\* The frame being transmitted is the last one signed, and a frame heard with its
\* counter is that frame.
FrameInv ==
    /\ pc \in {"transmit", "await"} =>
          /\ Data(frame) /\ frame.tag.ctr = nextTx - 1
          /\ \A f \in heard : Data(f) /\ f.tag.ctr = nextTx - 1 => f = frame
    /\ pc = "respond" => frame.type = "RESPONSE"

GatewayInv == \A f \in gwSent : f.type = "CONFIG"

AckInv == HeardInv /\ FrameInv /\ GatewayInv

LEMMA AckInit == Init => AckInv
  BY DEF Init, AckInv, HeardInv, FrameInv, GatewayInv

\* A step that signs nothing, sends nothing and does not transmit.
LEMMA AckQuiet ==
    ASSUME AckInv, UNCHANGED <<nextTx, heard, gwSent>>,
           pc' \notin {"transmit", "await", "respond"}
    PROVE  AckInv'
  BY DEF AckInv, HeardInv, FrameInv, GatewayInv

\* A transmission that reaches the gateway, or does not.
LEMMA AckSend ==
    ASSUME AckInv, pc \in {"transmit", "await"}, Send(frame), UNCHANGED <<nextTx, gwSent, frame>>
    PROVE  /\ HeardInv' /\ GatewayInv' /\ Data(frame') /\ frame'.tag.ctr = nextTx' - 1
           /\ \A f \in heard' : Data(f) /\ f.tag.ctr = nextTx' - 1 => f = frame'
  BY DEF AckInv, HeardInv, FrameInv, GatewayInv, Send, Data

\* The heart of the matter: a valid ACK is the answer to the frame in the air.
LEMMA AckIsAnswer ==
    ASSUME AckInv, pc = "await", NEW f \in Downlink, ValidAck(f)
    PROVE  frame \in heard
<1>1. f.type = "ACK"
  BY DEF ValidAck
<1>2. f \notin gwSent /\ f # Noise
  BY <1>1 DEF AckInv, GatewayInv, Noise
<1>3. PICK d \in heard : Acknowledged(d) /\ f = AckFrame(d)
  BY <1>2 DEF Downlink
<1>4. f.tag.ctr = d.tag.ctr
  BY <1>3 DEF AckFrame, Auth!Tag
<1>5. f.tag.ctr = Auth!Minus(nextTx, 1)
  BY DEF ValidAck, Auth!AckVerifies, Auth!Tag
<1>6. Auth!Minus(nextTx, 1) = nextTx - 1
  <2>1. nextTx - 1 \in Nat /\ nextTx - 1 < CtrMod
    BY DEF AckInv, HeardInv
  <2> QED BY <2>1, ModSmall DEF Auth!Minus
<1>7. d = frame
  BY <1>3, <1>4, <1>5, <1>6 DEF AckInv, FrameInv, Acknowledged, Data
<1> QED BY <1>3, <1>7

LEMMA AckStep == AckInv /\ [SteadyNext]_vars => AckInv'
<1> SUFFICES ASSUME AckInv, [SteadyNext]_vars PROVE AckInv'
  OBVIOUS
<1> USE DEF worldVars, loopVars, authVars, cfgVars, codecVars, railVars
<1>1. CASE AppInit
  BY <1>1, AckQuiet DEF AppInit
<1>2. CASE LoadConfig
  BY <1>2, AckQuiet DEF LoadConfig
<1>3. CASE Prepare
  <2>1. nextTx' = nextTx
    BY <1>3 DEF Prepare, Auth!InitKey, Auth!authVars
  <2> QED
    BY <1>3, <2>1 DEF Prepare, AckInv, HeardInv, FrameInv, GatewayInv
<1>4. CASE BuildAndSign
  <2>1. /\ nextTx' = nextTx + 1 /\ nextTx' \in 1 .. MaxCtr
        /\ frame'.type = "DATA" /\ frame'.tag.ctr = nextTx
        /\ pc' = "transmit" /\ heard' = heard /\ gwSent' = gwSent
    BY <1>4, SignFacts DEF BuildAndSign, DataFrame, AckInv, HeardInv
  <2>2. \A f \in heard : Data(f) => f.tag.ctr \in Nat /\ f.tag.ctr < nextTx /\ f.tag.ctr < nextTx'
    BY <2>1 DEF AckInv, HeardInv
  <2> QED
    BY <2>1, <2>2 DEF AckInv, HeardInv, FrameInv, GatewayInv, Data
<1>5. CASE LeaveLoop
  BY <1>5, AckQuiet DEF LeaveLoop
<1>6. CASE TransmitBroadcast
  <2>1. CASE Send(frame) /\ Return("sent")
    BY <1>6, <2>1, AckSend DEF TransmitBroadcast, Return, AckInv, FrameInv
  <2>2. CASE Return("error") /\ UNCHANGED heard
    BY <1>6, <2>2
       DEF TransmitBroadcast, Return, AckInv, HeardInv, FrameInv, GatewayInv
  <2> QED BY <1>6, <2>1, <2>2 DEF TransmitBroadcast
<1>7. CASE Transmit
  <2>1. CASE Send(frame) /\ pc' = "await"
    BY <1>7, <2>1, AckSend DEF Transmit, AckInv, FrameInv
  <2>2. CASE Return("error") /\ UNCHANGED heard
    BY <1>7, <2>2
       DEF Transmit, Return, AckInv, HeardInv, FrameInv, GatewayInv
  <2> QED BY <1>7, <2>1, <2>2 DEF Transmit
<1>8. CASE GiveUp
  BY <1>8, AckQuiet DEF GiveUp, Return
<1>9. CASE AckReceived
  BY <1>9, AckQuiet DEF AckReceived, Return
<1>10. CASE NoAckReceived
  BY <1>10 DEF NoAckReceived, AckInv, HeardInv, FrameInv, GatewayInv
<1>11. CASE NothingReceived
  BY <1>11, AckQuiet DEF NothingReceived
<1>12. ASSUME NEW f \in Downlink, ReceiveFrame(f)
       PROVE  AckInv'
  BY <1>12, AckQuiet DEF ReceiveFrame, Auth!VerifyFrame
<1>13. CASE DecodeFrame
  BY <1>13, AckQuiet DEF DecodeFrame
<1>14. CASE Reply
  <2>1. CASE Codec!ResponseLength > 0
    <3>1. /\ nextTx' = nextTx + 1 /\ nextTx' \in 1 .. MaxCtr /\ frame'.type = "RESPONSE"
          /\ pc' = "respond" /\ heard' = heard /\ gwSent' = gwSent
      BY <1>14, <2>1, SignFacts DEF Reply, ResponseFrame, AckInv, HeardInv
    <3> QED BY <3>1 DEF AckInv, HeardInv, FrameInv, GatewayInv
  <2>2. CASE ~(Codec!ResponseLength > 0)
    BY <1>14, <2>2, AckQuiet DEF Reply
  <2> QED BY <2>1, <2>2
<1>15. CASE Respond
  <2> DEFINE sent == [frame EXCEPT !.tag = Auth!NoTag]
  <2>1. pc = "respond" /\ ~Data(sent)
    BY <1>15 DEF Respond, AckInv, FrameInv, Data
  <2>2. /\ heard' = heard \cup {sent} \/ heard' = heard
        /\ pc' = "off" /\ nextTx' = nextTx /\ gwSent' = gwSent
    BY <1>15 DEF Respond, Send
  <2> HIDE DEF sent
  <2> QED BY <2>1, <2>2 DEF AckInv, HeardInv, FrameInv, GatewayInv
<1>16. CASE PowerDown
  BY <1>16, AckQuiet DEF PowerDown
<1>17. CASE SaveConfig
  BY <1>17, AckQuiet DEF SaveConfig
<1>18. CASE WakeUp
  BY <1>18, AckQuiet DEF WakeUp
<1>19. ASSUME NEW f \in GatewayFrames, GatewaySend(f)
       PROVE  AckInv'
  <2>1. f.type = "CONFIG"
    BY DEF GatewayFrames, ConfigFrame
  <2> QED
    BY <1>19, <2>1
       DEF GatewaySend, AckInv, HeardInv, FrameInv, GatewayInv, Data
<1>20. CASE UNCHANGED vars
  BY <1>20 DEF vars, AckInv, HeardInv, FrameInv, GatewayInv, Data
<1> QED
  BY <1>1, <1>2, <1>3, <1>4, <1>5, <1>6, <1>7, <1>8, <1>9, <1>10, <1>11, <1>12,
     <1>13, <1>14, <1>15, <1>16, <1>17, <1>18, <1>19, <1>20 DEF SteadyNext, NodeStep

-----------------------------------------------------------------------------
(* Types, keys and the rail, through losses of power and failing drivers.  *)

LEMMA ConfigParameters ==
    /\ DefaultId \in Ids /\ ConfigVersion \in 0 .. 255 /\ ConfigVersion # 0
    /\ 0 \in Counter /\ 1 \in Counter
    /\ \A n \in 1 .. MaxCtr : n \in Counter
  BY DEF Counter

\* The configuration stays a configuration, by whatever operation it changes.
LEMMA ConfigOps ==
    ASSUME config \in Cfg!DeviceConfig, nvs \in Cfg!DeviceConfig \cup {Cfg!NoRecord}
    PROVE  /\ \A m, r, w \in BOOLEAN : Cfg!Load(m, r, w) =>
                 /\ config' \in Cfg!DeviceConfig /\ loaded' \in BOOLEAN
                 /\ nvs' \in Cfg!DeviceConfig \cup {Cfg!NoRecord}
           /\ \A r, w \in BOOLEAN : Cfg!Save(r, w) =>
                 /\ config' \in Cfg!DeviceConfig /\ loaded' = loaded
                 /\ nvs' \in Cfg!DeviceConfig \cup {Cfg!NoRecord}
<1>1. Cfg!Defaults \in Cfg!DeviceConfig
  BY ConfigParameters DEF Cfg!Defaults, Cfg!DeviceConfig
<1>2. Cfg!Versioned(config) \in Cfg!DeviceConfig
  BY ConfigParameters DEF Cfg!Versioned, Cfg!DeviceConfig
<1>3. ASSUME NEW m \in BOOLEAN, NEW r \in BOOLEAN, NEW w \in BOOLEAN, Cfg!Load(m, r, w)
      PROVE  /\ config' \in Cfg!DeviceConfig /\ loaded' \in BOOLEAN
             /\ nvs' \in Cfg!DeviceConfig \cup {Cfg!NoRecord}
  BY <1>1, <1>3 DEF Cfg!Load, Cfg!Stored, Cfg!Valid
<1>4. ASSUME NEW r \in BOOLEAN, NEW w \in BOOLEAN, Cfg!Save(r, w)
      PROVE  /\ config' \in Cfg!DeviceConfig /\ loaded' = loaded
             /\ nvs' \in Cfg!DeviceConfig \cup {Cfg!NoRecord}
  BY <1>2, <1>4 DEF Cfg!Save, Cfg!Stored, Cfg!cfgVars
<1> QED BY <1>3, <1>4

LEMMA ReconstructSame ==
    ASSUME NEW low \in Nat, NEW full \in Nat
    PROVE  Auth!Reconstruct(low, full) \in Counter
<1>1. Auth!Reconstruct(low, full) = Reconstruct(low, full)
  BY DEF Auth!Reconstruct, Auth!Wrapped, Auth!Low, Reconstruct, Wrapped, Low
<1> QED BY <1>1, ReconstructType

KeyOf == {Auth!DeviceKey(i) : i \in Ids \cup {0}}

AuthTypes ==
    /\ config \in Cfg!DeviceConfig
    /\ key \in KeyOf /\ lastDerivedId \in Ids \cup {0}
    /\ nextTx \in 1 .. MaxCtr /\ lastRx \in Counter /\ lastRxTime \in Nat

\* So do they when Auth writes its counters to the configuration.
LEMMA AuthOps ==
    ASSUME AuthTypes, now \in Nat
    PROVE  /\ Auth!InitKey => AuthTypes'
           /\ Auth!Sign => AuthTypes'
           /\ \A low \in Nat : \A tag : Auth!VerifyFrame(low, tag) => AuthTypes'
<1> USE DEF AuthTypes
<1>1. ASSUME Auth!InitKey PROVE AuthTypes'
  <2>1. config.id \in Ids \cup {0} /\ [config EXCEPT !.txSec = 1] \in Cfg!DeviceConfig
    BY ConfigParameters DEF Cfg!DeviceConfig
  <2>2. Auth!DeviceKey(config.id) \in KeyOf
    BY <2>1 DEF KeyOf
  <2> QED BY <1>1, <2>1, <2>2, ConfigParameters DEF Auth!InitKey, Auth!authVars
<1>2. ASSUME Auth!Sign PROVE AuthTypes'
  <2>1. nextTx' \in 1 .. MaxCtr /\ nextTx' \in Counter
    BY <1>2, SignFacts, ConfigParameters
  <2>2. config' \in Cfg!DeviceConfig
    BY <1>2, <2>1 DEF Auth!Sign, Cfg!DeviceConfig
  <2> QED BY <1>2, <2>1, <2>2 DEF Auth!Sign, Auth!keyVars, Auth!rxVars
<1>3. ASSUME NEW low \in Nat, NEW tag, Auth!VerifyFrame(low, tag) PROVE AuthTypes'
  <2>1. lastRx' \in Counter /\ lastRxTime' \in Nat
    <3>1. Auth!RxCounter(low) \in Counter
      BY ReconstructSame DEF Auth!RxCounter
    <3>2. Auth!RxBase \in Counter
      BY ConfigParameters DEF Auth!RxBase
    <3> QED BY <1>3, <3>1, <3>2 DEF Auth!VerifyFrame
  <2>2. config' \in Cfg!DeviceConfig
    BY <1>3, <2>1 DEF Auth!VerifyFrame, Cfg!DeviceConfig
  <2> QED BY <1>3, <2>1, <2>2 DEF Auth!VerifyFrame, Auth!keyVars
<1> QED BY <1>1, <1>2, <1>3

\* A body that reaches the decoder.
Bodies == GwBodies \cup {Handler!NoBody}

LEMMA SetIdType ==
    ASSUME config \in Cfg!DeviceConfig, NEW x \in Ids
    PROVE  [config EXCEPT !.id = x] \in Cfg!DeviceConfig
  BY DEF Cfg!DeviceConfig

\* decode() answers with one of the results, and sets no id but one of Ids.
LEMMA DecodeOps ==
    ASSUME config \in Cfg!DeviceConfig, frame.body \in Bodies
    PROVE  /\ Handler!DecodeResult(frame) \in Handler!Results
           /\ Handler!Decode(frame) => config' \in Cfg!DeviceConfig
           /\ Handler!Decode(frame) /\ config.id \in Ids => config'.id \in Ids
<1> USE BodyAssumption
<1>1. ASSUME NEW b \in GwBodies, NEW i \in 1 .. b.count
      PROVE  Handler!TurnResult(b, i) \in Handler!Results
  <2>1. CASE i <= Len(b.cmds)
    <3> DEFINE cmd == b.cmds[i]
    <3>1. cmd \in [op : Nat, enc : 0 .. 3, arg : Nat]
      <4> DEFINE Command == [op : Nat, enc : 0 .. 3, arg : Nat]
      <4>1. b.cmds \in Seq(Command) /\ b.count \in Nat
        OBVIOUS
      <4> HIDE DEF Command
      <4>2. i \in 1 .. Len(b.cmds)
        BY <2>1, <4>1
      <4>3. cmd \in Command
        BY <4>1, <4>2
      <4> QED BY <4>3 DEF Command
    <3>2. ASSUME NEW op \in Nat, NEW size \in Nat, op \in Handler!Dispatched
          PROVE  Handler!HandlerResult(op, size) \in Handler!Results
      BY <3>2 DEF Handler!HandlerResult, Handler!Results, Handler!Dispatched,
         Handler!SetCombinedId, Handler!SamplingInterval, Handler!Reboot,
         Handler!SetUnixTime, Handler!LoraConfig
    <3>3. Handler!PayloadSize(cmd.enc) \in Nat
      <4>1. cmd.enc = 0 \/ cmd.enc = 1 \/ cmd.enc = 2 \/ cmd.enc = 3
        BY <3>1
      <4> HIDE DEF cmd
      <4> QED BY <4>1 DEF Handler!PayloadSize
    <3>4. Handler!CommandResult(cmd) \in Handler!Results
      BY <3>1, <3>2, <3>3 DEF Handler!CommandResult, Handler!Results
    <3> QED BY <2>1, <3>4 DEF Handler!TurnResult
  <2>2. CASE ~(i <= Len(b.cmds))
    BY <2>2 DEF Handler!TurnResult, Handler!Results
  <2> QED BY <2>1, <2>2
<1>2. Handler!HeaderResult(frame) \in Handler!Results
  BY DEF Handler!HeaderResult, Handler!Results
<1>3. Handler!HeaderResult(frame) = "OK" => frame.body \in GwBodies
  BY DEF Handler!HeaderResult, Bodies
<1>4. Handler!DecodeResult(frame) \in Handler!Results
  BY <1>1, <1>2, <1>3 DEF Handler!DecodeResult, Handler!Results
<1>5. ASSUME Handler!Decode(frame)
      PROVE  config' \in Cfg!DeviceConfig /\ (config.id \in Ids => config'.id \in Ids)
  <2> DEFINE setters == {i \in 1 .. frame.body.count :
                Handler!HandledOk(frame, i) /\ frame.body.cmds[i].op = Handler!SetCombinedId}
             first == CHOOSE i \in setters : TRUE
  <2>1. config' = IF setters = {} THEN config
                  ELSE [config EXCEPT !.id = frame.body.cmds[first].arg]
    BY <1>5 DEF Handler!Decode
  <2>2. CASE setters # {}
    <3>1. first \in setters
      BY <2>2
    <3>2. /\ Handler!HeaderResult(frame) = "OK" /\ first \in 1 .. frame.body.count
          /\ first <= Len(frame.body.cmds) /\ frame.body.cmds[first].op = 0
      BY <3>1 DEF Handler!HandledOk, Handler!SetCombinedId
    <3> HIDE DEF first, setters
    <3>3. frame.body.cmds[first].arg \in Ids
      <4>1. frame.body \in GwBodies /\ frame.body.count \in Nat
        BY <1>3, <3>2
      <4>2. first \in 1 .. Len(frame.body.cmds)
        BY <3>2, <4>1
      <4> QED BY <3>2, <4>1, <4>2
    <3>4. config' = [config EXCEPT !.id = frame.body.cmds[first].arg]
      BY <2>1, <2>2 DEF setters
    <3>5. config'.id \in Ids
      BY <3>3, <3>4 DEF Cfg!DeviceConfig
    <3> QED BY <3>3, <3>4, <3>5, SetIdType
  <2>3. CASE setters = {}
    BY <2>1, <2>3
  <2> QED BY <2>2, <2>3
<1> QED BY <1>4, <1>5

LEMMA CapacityType == Codec!Capacity \in Nat
<1> DEFINE room == MaxPayload - 4 - 9 - 4
<1>1. CASE room >= 0
  <2>1. room \div 5 \in Nat
    BY <1>1
  <2> QED
    BY <2>1 DEF Codec!Capacity, Codec!UsablePayload, Codec!DataHeader, Codec!AuthTagSize,
       Codec!HeaderSize, Codec!MeasurementSize
<1>2. CASE ~(room >= 0)
  BY <1>2 DEF Codec!Capacity, Codec!UsablePayload, Codec!DataHeader, Codec!AuthTagSize,
     Codec!HeaderSize
<1> QED BY <1>1, <1>2

\* The slice a frame carries.
LEMMA SliceType ==
    ASSUME batchCount \in Nat, batchOffset \in Nat, Codec!BuildResult > 0
    PROVE  Codec!FrameCount \in Nat /\ Codec!Slice \in [first : Nat, count : Nat]
<1>1. batchOffset < batchCount
  BY DEF Codec!BuildResult, Codec!HasFrameToSend
<1>2. Codec!FrameCount \in Nat
  BY <1>1, CapacityType DEF Codec!FrameCount, Codec!Remaining
<1> QED BY <1>2 DEF Codec!Slice

\* The offset into the batch only grows.
LEMMA CodecOps ==
    ASSUME batchCount \in Nat, batchOffset \in Nat
    PROVE  /\ \A count \in Nat : Codec!Begin(count) => batchCount' \in Nat /\ batchOffset' \in Nat
           /\ Codec!BuildFrame => batchCount' \in Nat /\ batchOffset' \in Nat
<1>1. ASSUME Codec!BuildFrame
      PROVE  batchCount' \in Nat /\ batchOffset' \in Nat
  <2>1. CASE Codec!BuildResult > 0
    <3>1. Codec!FrameCount \in Nat
      BY <2>1, SliceType
    <3> QED BY <1>1, <2>1, <3>1 DEF Codec!BuildFrame
  <2>2. CASE ~(Codec!BuildResult > 0)
    BY <1>1, <2>2 DEF Codec!BuildFrame, Codec!codecVars
  <2> QED BY <2>1, <2>2
<1>2. ASSUME NEW count \in Nat, Codec!Begin(count)
      PROVE  batchCount' \in Nat /\ batchOffset' \in Nat
  BY <1>2 DEF Codec!Begin
<1> QED BY <1>1, <1>2

\* The rest of the types, and the count of the regulator.
PlainTypes ==
    /\ loaded \in BOOLEAN /\ nvs \in Cfg!DeviceConfig \cup {Cfg!NoRecord}
    /\ batchCount \in Nat /\ batchOffset \in Nat
    /\ powered \in BOOLEAN /\ users = IF powered THEN 1 ELSE 0
    /\ offFailed \in BOOLEAN
    /\ now \in Nat /\ pc \in Pcs
    /\ sentCount \in Nat /\ attempt \in Nat
    /\ ret \in {"none", "ok", "sent", "error", "timeout"}
    /\ result \in Handler!Results \cup {"none"}
    /\ cycle \in Nat /\ boots \in Nat

\* The key in RAM is that of the id it was derived from; in the transmit loop it
\* is that of the id in force, with which the frame in the air was built.
KeyInv ==
    /\ key = Auth!DeviceKey(lastDerivedId)
    /\ pc \in {"build", "transmit", "await"} => key = Auth!DeviceKey(config.id)
    /\ pc \in {"transmit", "await"} =>
          /\ Data(frame) /\ frame.tag.ctr \in Nat
          /\ frame.tag.key = Auth!DeviceKey(frame.id)
    /\ pc = "decode" => frame.body \in Bodies
    /\ pc = "respond" => frame.type = "RESPONSE"

\* What is in the air.
AirInv ==
    /\ \A f \in heard : Data(f) => f.tag.ctr \in Nat /\ f.tag.key = Auth!DeviceKey(f.id)
    /\ \A f \in gwSent : f.low \in Nat /\ f.body \in GwBodies

LEMMA RailOps ==
    ASSUME powered \in BOOLEAN, users = IF powered THEN 1 ELSE 0, NEW works \in BOOLEAN
    PROVE  /\ Rail!PowerOn(works) \/ Rail!PowerOff(works) =>
                 powered' \in BOOLEAN /\ users' = IF powered' THEN 1 ELSE 0
           /\ Rail!PowerOff(works) => powered' = Rail!OffFails(works)
<1> DEFINE Consistent == powered' \in BOOLEAN /\ users' = IF powered' THEN 1 ELSE 0
<1>1. 0 + 1 = 1 /\ 1 - 1 = 0
  OBVIOUS
<1>2. \/ powered = TRUE /\ users = 1
      \/ powered = FALSE /\ users = 0
  BY Zenon
<1>3. Rail!PowerOn(works) => Consistent
  <2>1. Rail!PowerOn(works) => \/ powered' = TRUE /\ users' = 0 + 1
                               \/ powered' = powered /\ users' = users
    BY <1>2, Zenon DEF Rail!PowerOn, Rail!railVars
  <2>2. CASE powered' = TRUE /\ users' = 0 + 1
    BY <1>1, <2>2, Zenon
  <2>3. CASE powered' = powered /\ users' = users
    BY <1>2, <2>3, Zenon
  <2> QED BY <2>1, <2>2, <2>3, Zenon
<1>4. Rail!PowerOff(works) => Consistent /\ powered' = Rail!OffFails(works)
  <2>1. Rail!PowerOff(works) => \/ powered' = FALSE /\ users' = 1 - 1 /\ works = TRUE
                                \/ powered' = powered /\ users' = users /\ works = FALSE
                                \/ powered' = powered /\ users' = users /\ powered = FALSE
    BY <1>2, Zenon DEF Rail!PowerOff, Rail!railVars
  <2> DEFINE Follows == powered' = (powered /\ ~works)
  <2>2. ASSUME powered' = FALSE /\ users' = 1 - 1 /\ works = TRUE
        PROVE  Consistent /\ Follows
    <3>1. Consistent
      BY <1>1, <2>2, Zenon
    <3>2. Follows
      BY <2>2, Zenon
    <3> QED BY <3>1, <3>2
  <2>3. ASSUME powered' = powered /\ users' = users /\ works = FALSE
        PROVE  Consistent /\ Follows
    <3>1. Consistent
      BY <1>2, <2>3, Zenon
    <3>2. Follows
      BY <1>2, <2>3, Zenon
    <3> QED BY <3>1, <3>2
  <2>4. ASSUME powered' = powered /\ users' = users /\ powered = FALSE
        PROVE  Consistent /\ Follows
    <3>1. Consistent
      BY <1>2, <2>4, Zenon
    <3>2. Follows
      BY <2>4, Zenon
    <3> QED BY <3>1, <3>2
  <2> HIDE DEF Consistent, Follows
  <2>5. Rail!PowerOff(works) => Consistent /\ Follows
    BY <2>1, <2>2, <2>3, <2>4, Zenon
  <2> QED BY <2>5, Zenon DEF Rail!OffFails, Follows
<1> QED BY <1>3, <1>4, Zenon

RailInv == pc \in {"save", "sleep"} => powered = offFailed

NodeInv == AuthTypes /\ PlainTypes /\ KeyInv /\ AirInv /\ RailInv

LEMMA NodeInit == Init => NodeInv
<1> SUFFICES ASSUME Init PROVE NodeInv
  OBVIOUS
<1>1. Cfg!ZeroConfig \in Cfg!DeviceConfig
  BY ConfigParameters DEF Cfg!ZeroConfig, Cfg!DeviceConfig
<1>2. Auth!DeviceKey(0) \in KeyOf
  BY DEF KeyOf
<1>3. nvs \in Cfg!DeviceConfig \cup {Cfg!NoRecord}
  <2>1. ASSUME NEW i \in Ids PROVE [Cfg!Defaults EXCEPT !.id = i] \in Cfg!DeviceConfig
    BY ConfigParameters DEF Cfg!Defaults, Cfg!DeviceConfig
  <2> QED BY <2>1 DEF Init, Stores
<1>4. AuthTypes
  BY <1>1, <1>2, ConfigParameters DEF Init, AuthTypes
<1>5. PlainTypes
  <2>1. users = IF powered THEN 1 ELSE 0
    BY Zenon DEF Init
  <2> QED BY <1>3, <2>1 DEF Init, PlainTypes, Pcs
<1> QED
  BY <1>4, <1>5 DEF Init, NodeInv, KeyInv, AirInv, RailInv

\* A step of the loop that leaves the components and their frames alone.
LEMMA NodeQuiet ==
    ASSUME NodeInv,
           UNCHANGED <<cfgVars, authVars, codecVars, railVars, now, frame, result, worldVars>>,
           sentCount' \in Nat, attempt' \in Nat, pc' \in Pcs,
           ret' \in {"none", "ok", "sent", "error", "timeout"},
           pc' \in {"save", "sleep"} => pc \in {"save", "sleep"},
           pc' \in {"build", "transmit", "await"} => pc \in {"transmit", "await"},
           pc' \notin {"decode", "respond"}
    PROVE  NodeInv'
<1> USE DEF cfgVars, authVars, codecVars, railVars, worldVars
<1>1. AuthTypes' /\ PlainTypes'
  BY DEF NodeInv, AuthTypes, PlainTypes
<1>2. KeyInv' /\ AirInv' /\ RailInv'
  BY DEF NodeInv, KeyInv, AirInv, RailInv
<1> QED BY <1>1, <1>2 DEF NodeInv

LEMMA OutcomeTypes == \A kind : Outcomes(kind) \subseteq BOOLEAN
  BY DEF Outcomes

LEMMA LoadTypes ==
    ASSUME NodeInv, LoadConfiguration, UNCHANGED <<authVars, now>>
    PROVE  AuthTypes' /\ loaded' \in BOOLEAN /\ nvs' \in Cfg!DeviceConfig \cup {Cfg!NoRecord}
<1>1. PICK m \in BOOLEAN, r \in BOOLEAN, w \in BOOLEAN : Cfg!Load(m, r, w)
  <2>1. PICK m \in Outcomes("flash"), r \in Outcomes("flash"), w \in Outcomes("flash") :
           Cfg!Load(m, r, w)
    BY Zenon DEF LoadConfiguration
  <2>2. m \in BOOLEAN /\ r \in BOOLEAN /\ w \in BOOLEAN
    BY OutcomeTypes
  <2> QED BY <2>1, <2>2, Zenon
<1>2. /\ config' \in Cfg!DeviceConfig /\ loaded' \in BOOLEAN
      /\ nvs' \in Cfg!DeviceConfig \cup {Cfg!NoRecord}
  BY <1>1, ConfigOps DEF NodeInv, AuthTypes, PlainTypes
<1> QED BY <1>2 DEF NodeInv, AuthTypes, authVars

LEMMA ReceivableFrames ==
    ASSUME NodeInv, NEW f \in Downlink
    PROVE  f.low \in Nat /\ f.body \in Bodies
<1>1. CASE f = Noise
  BY <1>1 DEF Noise, Bodies
<1>2. CASE f \in gwSent
  BY <1>2 DEF NodeInv, AirInv, Bodies
<1>3. ASSUME NEW d \in heard, Acknowledged(d), f = AckFrame(d)
      PROVE  f.low \in Nat /\ f.body \in Bodies
  <2>1. d.tag.ctr \in Nat
    BY <1>3 DEF NodeInv, AirInv, Acknowledged, Data
  <2>2. Low(d.tag.ctr) \in Nat
    BY <2>1, Split DEF LowByte
  <2> QED BY <1>3, <2>2 DEF AckFrame, Bodies
<1> QED BY <1>1, <1>2, <1>3 DEF Downlink

LEMMA NodeStepInv == NodeInv /\ [Next]_vars => NodeInv'
<1> SUFFICES ASSUME NodeInv, [Next]_vars PROVE NodeInv'
  OBVIOUS
<1> USE DEF worldVars, loopVars, authVars, cfgVars, codecVars, railVars
<1>1. CASE AppInit
  <2>1. AuthTypes' /\ PlainTypes'
    BY <1>1, LoadTypes DEF AppInit, NodeInv, PlainTypes, Pcs
  <2>2. KeyInv' /\ AirInv' /\ RailInv'
    BY <1>1 DEF AppInit, NodeInv, KeyInv, AirInv, RailInv
  <2> QED BY <2>1, <2>2 DEF NodeInv
<1>2. CASE LoadConfig
  <2>1. AuthTypes' /\ PlainTypes'
    BY <1>2, LoadTypes DEF LoadConfig, NodeInv, PlainTypes, Pcs
  <2>2. KeyInv' /\ AirInv' /\ RailInv'
    BY <1>2 DEF LoadConfig, NodeInv, KeyInv, AirInv, RailInv
  <2> QED BY <2>1, <2>2 DEF NodeInv
<1>3. CASE Prepare
  <2>1. AuthTypes'
    BY <1>3, AuthOps DEF Prepare, NodeInv, PlainTypes
  <2>2. batchCount' \in Nat /\ batchOffset' \in Nat
    BY <1>3, CodecOps DEF Prepare, NodeInv, PlainTypes
  <2>3. powered' \in BOOLEAN /\ users' = IF powered' THEN 1 ELSE 0
    <3>1. PICK works \in BOOLEAN : Rail!PowerOn(works)
      BY <1>3 DEF Prepare, Outcomes
    <3>2. powered \in BOOLEAN /\ users = IF powered THEN 1 ELSE 0
      BY DEF NodeInv, PlainTypes
    <3> QED BY <3>1, <3>2, RailOps
  <2>4. PlainTypes'
    <3>1. offFailed' \in BOOLEAN
      BY <1>3, Zenon DEF Prepare
    <3> QED BY <1>3, <2>2, <2>3, <3>1 DEF Prepare, NodeInv, PlainTypes, Pcs
  <2>5. key' = Auth!DeviceKey(lastDerivedId') /\ key' = Auth!DeviceKey(config'.id)
    BY <1>3 DEF Prepare, NodeInv, KeyInv, AuthTypes, Auth!InitKey, Auth!authVars, Cfg!DeviceConfig
  <2>6. KeyInv' /\ AirInv' /\ RailInv'
    BY <1>3, <2>5 DEF Prepare, NodeInv, KeyInv, AirInv, RailInv
  <2> QED BY <2>1, <2>4, <2>6 DEF NodeInv
<1>4. CASE BuildAndSign
  <2>1. AuthTypes'
    BY <1>4, AuthOps DEF BuildAndSign, NodeInv, PlainTypes
  <2>2. batchCount' \in Nat /\ batchOffset' \in Nat
    BY <1>4, CodecOps DEF BuildAndSign, NodeInv, PlainTypes
  <2>3. PlainTypes'
    BY <1>4, <2>2 DEF BuildAndSign, NodeInv, PlainTypes, Pcs
  <2>4. /\ config'.id = config.id /\ key' = key /\ lastDerivedId' = lastDerivedId
        /\ Auth!SignedTag.ctr = nextTx /\ Auth!SignedTag.key = key
    BY <1>4, SignFacts DEF BuildAndSign, NodeInv, AuthTypes
  <2>5. Data(frame') /\ frame'.tag.ctr = nextTx /\ frame'.tag.key = key /\ frame'.id = config.id
    BY <1>4, <2>4 DEF BuildAndSign, DataFrame, Data
  <2>6. KeyInv' /\ AirInv' /\ RailInv'
    BY <1>4, <2>4, <2>5 DEF BuildAndSign, NodeInv, AuthTypes, KeyInv, AirInv, RailInv
  <2> QED BY <2>1, <2>3, <2>6 DEF NodeInv
<1>5. CASE LeaveLoop
  <2>1. AuthTypes' /\ PlainTypes'
    BY <1>5 DEF LeaveLoop, NodeInv, AuthTypes, PlainTypes, Pcs
  <2>2. KeyInv' /\ AirInv' /\ RailInv'
    BY <1>5 DEF LeaveLoop, NodeInv, KeyInv, AirInv, RailInv
  <2> QED BY <2>1, <2>2 DEF NodeInv
<1>6. ASSUME TransmitBroadcast \/ Transmit
      PROVE  NodeInv'
  <2>1. /\ pc = "transmit" /\ pc' \in {"build", "await"}
        /\ heard' \in {heard, heard \cup {frame}} /\ sentCount' \in Nat
        /\ ret' \in {"none", "ok", "sent", "error", "timeout"}
        /\ UNCHANGED <<cfgVars, authVars, codecVars, railVars, now, attempt, frame, result,
                       cycle, boots, gwSent>>
    BY <1>6 DEF TransmitBroadcast, Transmit, Send, Return, NodeInv, PlainTypes
  <2>2. AuthTypes' /\ PlainTypes'
    BY <2>1 DEF NodeInv, AuthTypes, PlainTypes, Pcs
  <2>3. KeyInv' /\ AirInv' /\ RailInv'
    BY <2>1 DEF NodeInv, KeyInv, AirInv, RailInv
  <2> QED BY <2>2, <2>3 DEF NodeInv
<1>7. CASE GiveUp
  BY <1>7, NodeQuiet DEF GiveUp, Return, NodeInv, PlainTypes, Pcs
<1>8. CASE AckReceived
  BY <1>8, NodeQuiet DEF AckReceived, Return, NodeInv, PlainTypes, Pcs
<1>9. CASE NoAckReceived
  BY <1>9, NodeQuiet DEF NoAckReceived, NodeInv, PlainTypes, Pcs
<1>10. CASE NothingReceived
  BY <1>10, NodeQuiet DEF NothingReceived, NodeInv, PlainTypes, Pcs
<1>11. ASSUME NEW f \in Downlink, ReceiveFrame(f)
       PROVE  NodeInv'
  <2>1. f.low \in Nat /\ f.body \in Bodies
    BY ReceivableFrames
  <2>2. AuthTypes'
    BY <1>11, <2>1, AuthOps DEF ReceiveFrame, NodeInv, PlainTypes
  <2>3. PlainTypes'
    BY <1>11 DEF ReceiveFrame, NodeInv, PlainTypes, Pcs
  <2>4. key' = key /\ lastDerivedId' = lastDerivedId
    BY <1>11 DEF ReceiveFrame, Auth!VerifyFrame, Auth!keyVars
  <2>5. KeyInv' /\ AirInv' /\ RailInv'
    BY <1>11, <2>1, <2>4 DEF ReceiveFrame, NodeInv, KeyInv, AirInv, RailInv
  <2> QED BY <2>2, <2>3, <2>5 DEF NodeInv
<1>12. CASE DecodeFrame
  <2>1. Handler!DecodeResult(frame) \in Handler!Results /\ config' \in Cfg!DeviceConfig
    BY <1>12, DecodeOps DEF DecodeFrame, NodeInv, AuthTypes, KeyInv
  <2>2. AuthTypes' /\ PlainTypes'
    BY <1>12, <2>1 DEF DecodeFrame, NodeInv, AuthTypes, PlainTypes, Pcs
  <2>3. KeyInv' /\ AirInv' /\ RailInv'
    BY <1>12 DEF DecodeFrame, NodeInv, KeyInv, AirInv, RailInv
  <2> QED BY <2>2, <2>3 DEF NodeInv
<1>13. CASE Reply
  <2>1. CASE Codec!ResponseLength > 0
    <3>1. AuthTypes'
      BY <1>13, <2>1, AuthOps DEF Reply, NodeInv, PlainTypes
    <3>2. PlainTypes'
      BY <1>13, <2>1 DEF Reply, NodeInv, PlainTypes, Pcs
    <3>3. key' = key /\ lastDerivedId' = lastDerivedId
      BY <1>13, <2>1, SignFacts DEF Reply, NodeInv, AuthTypes
    <3>4. KeyInv' /\ AirInv' /\ RailInv'
      BY <1>13, <2>1, <3>3 DEF Reply, ResponseFrame, NodeInv, KeyInv, AirInv, RailInv
    <3> QED BY <3>1, <3>2, <3>4 DEF NodeInv
  <2>2. CASE ~(Codec!ResponseLength > 0)
    BY <1>13, <2>2, NodeQuiet DEF Reply, NodeInv, PlainTypes, Pcs
  <2> QED BY <2>1, <2>2
<1>14. CASE Respond
  <2> DEFINE sent == [frame EXCEPT !.tag = Auth!NoTag]
  <2>1. ~Data(sent)
    BY <1>14 DEF Respond, NodeInv, KeyInv, Data
  <2> HIDE DEF sent
  <2>2. AuthTypes' /\ PlainTypes'
    BY <1>14 DEF Respond, NodeInv, AuthTypes, PlainTypes, Pcs
  <2>3. heard' \in {heard, heard \cup {sent}}
    BY <1>14 DEF Respond, Send, sent
  <2>4. KeyInv' /\ AirInv' /\ RailInv'
    BY <1>14, <2>1, <2>3 DEF Respond, NodeInv, KeyInv, AirInv, RailInv
  <2> QED BY <2>2, <2>4 DEF NodeInv
<1>15. CASE PowerDown
  <2>1. PICK works \in Outcomes("rail") :
           Rail!PowerOff(works) /\ offFailed' = Rail!OffFails(works)
    BY <1>15 DEF PowerDown
  <2>2. /\ powered' \in BOOLEAN /\ users' = IF powered' THEN 1 ELSE 0
        /\ powered' = offFailed' /\ offFailed' \in BOOLEAN
    <3>1. works \in BOOLEAN
      BY DEF Outcomes
    <3>2. powered \in BOOLEAN /\ users = IF powered THEN 1 ELSE 0
      BY DEF NodeInv, PlainTypes
    <3>3. Rail!OffFails(works) \in BOOLEAN
      BY Zenon DEF Rail!OffFails
    <3> QED BY <2>1, <3>1, <3>2, <3>3, RailOps, Zenon
  <2>3. AuthTypes' /\ PlainTypes'
    BY <1>15, <2>2 DEF PowerDown, NodeInv, AuthTypes, PlainTypes, Pcs
  <2>4. KeyInv' /\ AirInv' /\ RailInv'
    BY <1>15, <2>2 DEF PowerDown, NodeInv, KeyInv, AirInv, RailInv
  <2> QED BY <2>3, <2>4 DEF NodeInv
<1>16. CASE SaveConfig
  <2>1. PICK r \in BOOLEAN, w \in BOOLEAN : Cfg!Save(r, w)
    BY <1>16 DEF SaveConfig, Outcomes
  <2>2. /\ config' \in Cfg!DeviceConfig /\ loaded' = loaded
        /\ nvs' \in Cfg!DeviceConfig \cup {Cfg!NoRecord}
    BY <2>1, ConfigOps DEF NodeInv, AuthTypes, PlainTypes
  <2>3. AuthTypes' /\ PlainTypes'
    BY <1>16, <2>2 DEF SaveConfig, NodeInv, AuthTypes, PlainTypes, Pcs
  <2>4. KeyInv' /\ AirInv' /\ RailInv'
    BY <1>16 DEF SaveConfig, NodeInv, KeyInv, AirInv, RailInv
  <2> QED BY <2>3, <2>4 DEF NodeInv
<1>17. CASE WakeUp
  <2>1. now' \in Nat
    BY <1>17 DEF WakeUp, NodeInv, PlainTypes
  <2>2. AuthTypes' /\ PlainTypes'
    BY <1>17, <2>1 DEF WakeUp, NodeInv, AuthTypes, PlainTypes, Pcs
  <2>3. KeyInv' /\ AirInv' /\ RailInv'
    BY <1>17 DEF WakeUp, NodeInv, KeyInv, AirInv, RailInv
  <2> QED BY <2>2, <2>3 DEF NodeInv
<1>18. ASSUME NEW f \in GatewayFrames, GatewaySend(f)
       PROVE  NodeInv'
  <2>1. f.low \in Nat /\ f.body \in GwBodies
    <3>1. PICK i \in Ids, c \in GwCtrs, b \in GwBodies : f = ConfigFrame(i, c, b)
      BY DEF GatewayFrames
    <3>2. Low(c) \in Nat
      BY Split DEF Counter, LowByte
    <3> QED BY <3>1, <3>2 DEF ConfigFrame
  <2>2. AuthTypes' /\ PlainTypes'
    BY <1>18 DEF GatewaySend, NodeInv, AuthTypes, PlainTypes
  <2>3. KeyInv' /\ AirInv' /\ RailInv'
    BY <1>18, <2>1 DEF GatewaySend, NodeInv, KeyInv, AirInv, RailInv
  <2> QED BY <2>2, <2>3 DEF NodeInv
<1>19. CASE PowerLoss
  <2>1. Cfg!ZeroConfig \in Cfg!DeviceConfig
    BY ConfigParameters DEF Cfg!ZeroConfig, Cfg!DeviceConfig
  <2>2. Auth!DeviceKey(0) \in KeyOf
    BY DEF KeyOf
  <2>3. AuthTypes'
    BY <1>19, <2>1, <2>2, ConfigParameters
       DEF PowerLoss, Cfg!ConfigReset, Auth!AuthReset, AuthTypes
  <2>4. PlainTypes'
    <3>1. loaded' = FALSE /\ powered' = FALSE /\ users' = 0 /\ nvs' = nvs
      BY <1>19 DEF PowerLoss, Cfg!ConfigReset, Rail!RailReset
    <3>2. /\ loaded' \in BOOLEAN /\ powered' \in BOOLEAN
          /\ users' = IF powered' THEN 1 ELSE 0
      BY <3>1, Zenon
    <3>3. nvs' \in Cfg!DeviceConfig \cup {Cfg!NoRecord}
      BY <3>1 DEF NodeInv, PlainTypes
    <3>4. offFailed' \in BOOLEAN
      BY <1>19, Zenon DEF PowerLoss
    <3> QED BY <1>19, <3>2, <3>3, <3>4 DEF PowerLoss, NodeInv, PlainTypes, Pcs
  <2>5. KeyInv' /\ AirInv' /\ RailInv'
    BY <1>19 DEF PowerLoss, Auth!AuthReset, NodeInv, KeyInv, AirInv, RailInv
  <2> QED BY <2>3, <2>4, <2>5 DEF NodeInv
<1>20. CASE UNCHANGED vars
  <2>1. AuthTypes' /\ PlainTypes'
    BY <1>20 DEF vars, NodeInv, AuthTypes, PlainTypes
  <2>2. KeyInv' /\ AirInv' /\ RailInv'
    BY <1>20 DEF vars, NodeInv, KeyInv, AirInv, RailInv
  <2> QED BY <2>1, <2>2 DEF NodeInv
<1> QED
  BY <1>1, <1>2, <1>3, <1>4, <1>5, <1>6, <1>7, <1>8, <1>9, <1>10, <1>11, <1>12, <1>13,
     <1>14, <1>15, <1>16, <1>17, <1>18, <1>19, <1>20 DEF Next, SteadyNext, NodeStep

LEMMA NodeInvariance == Spec => []NodeInv
  BY NodeInit, NodeStepInv, PTL DEF Spec

(***************************************************************************)
(* Type correctness of the whole node, losses of power and failing drivers *)
(* included.                                                               *)
(***************************************************************************)
THEOREM TypeCorrect == Spec => []TypeOK
<1>1. NodeInv => TypeOK
  BY DEF NodeInv, AuthTypes, PlainTypes, TypeOK, KeyOf
<1> QED BY <1>1, NodeInvariance, PTL

(***************************************************************************)
(* Every DATA frame heard was signed with the key of the id it carries     *)
(* (lora_auth.cpp:17-32, app.cpp:136).                                     *)
(***************************************************************************)
THEOREM KeysMatch == Spec => []KeyMatchesId
<1>1. NodeInv => KeyMatchesId
  BY DEF NodeInv, AirInv, KeyMatchesId, Data
<1> QED BY <1>1, NodeInvariance, PTL

(***************************************************************************)
(* The rail is on during sleep exactly when the powerOff() before that     *)
(* sleep failed, whatever failed in the cycles before                      *)
(* (power_rail_3v3.cpp:14-71, app.cpp:219).                                *)
(***************************************************************************)
THEOREM RailOff == Spec => []RailOffAsleep
<1>1. NodeInv => RailOffAsleep
  <2> SUFFICES ASSUME NodeInv, pc = "sleep" PROVE users > 0 <=> offFailed
    BY DEF RailOffAsleep
  <2>1. powered \in BOOLEAN /\ users = (IF powered THEN 1 ELSE 0) /\ powered = offFailed
    BY DEF NodeInv, PlainTypes, RailInv
  <2>2. CASE powered = TRUE
    <3>1. users = 1 /\ offFailed = TRUE
      BY <2>1, <2>2, Zenon
    <3> QED BY <3>1
  <2>3. CASE powered = FALSE
    <3>1. users = 0 /\ offFailed = FALSE
      BY <2>1, <2>3, Zenon
    <3> QED BY <3>1
  <2> QED BY <2>1, <2>2, <2>3, Zenon
<1> QED BY <1>1, NodeInvariance, PTL

-----------------------------------------------------------------------------
(* The id in force is one of the network's, from the first load on.        *)

IdInv ==
    /\ nvs # Cfg!NoRecord => nvs.id \in Ids
    /\ pc # "init" => config.id \in Ids

LEMMA IdInit == Init => IdInv
<1> SUFFICES ASSUME Init PROVE IdInv
  OBVIOUS
<1>1. ASSUME NEW i \in Ids PROVE [Cfg!Defaults EXCEPT !.id = i].id = i
  BY DEF Cfg!Defaults
<1>2. nvs = Cfg!NoRecord \/ \E i \in Ids : nvs = [Cfg!Defaults EXCEPT !.id = i]
  BY DEF Init, Stores
<1>3. nvs # Cfg!NoRecord => nvs.id \in Ids
  BY <1>1, <1>2
<1> QED BY <1>3 DEF Init, IdInv

\* Whatever the flash does, a load ends with an id.
LEMMA IdLoad ==
    ASSUME IdInv, LoadConfiguration
    PROVE  config'.id \in Ids /\ (nvs' # Cfg!NoRecord => nvs'.id \in Ids)
<1>1. PICK m \in BOOLEAN, r \in BOOLEAN, w \in BOOLEAN : Cfg!Load(m, r, w)
  <2>1. PICK m \in Outcomes("flash"), r \in Outcomes("flash"), w \in Outcomes("flash") :
           Cfg!Load(m, r, w)
    BY Zenon DEF LoadConfiguration
  <2>2. m \in BOOLEAN /\ r \in BOOLEAN /\ w \in BOOLEAN
    BY OutcomeTypes
  <2> QED BY <2>1, <2>2, Zenon
<1>2. Cfg!Defaults.id \in Ids
  BY ConfigParameters DEF Cfg!Defaults
<1> QED BY <1>1, <1>2 DEF Cfg!Load, Cfg!Stored, Cfg!Valid, IdInv

\* What Auth writes to the configuration is not the id.
LEMMA IdAuth ==
    ASSUME AuthTypes
    PROVE  /\ Auth!InitKey => config'.id = config.id
           /\ Auth!Sign => config'.id = config.id
           /\ \A low, tag : Auth!VerifyFrame(low, tag) => config'.id = config.id
  BY DEF AuthTypes, Cfg!DeviceConfig, Auth!InitKey, Auth!Sign, Auth!VerifyFrame

LEMMA IdStep == NodeInv /\ IdInv /\ [SteadyNext]_vars => IdInv'
<1> SUFFICES ASSUME NodeInv, IdInv, [SteadyNext]_vars PROVE IdInv'
  OBVIOUS
<1> USE DEF worldVars, loopVars, authVars, cfgVars, codecVars, railVars
<1>1. CASE AppInit \/ LoadConfig
  BY <1>1, IdLoad DEF AppInit, LoadConfig, IdInv
<1>2. ASSUME Prepare \/ BuildAndSign \/ Reply \/ \E f \in Downlink : ReceiveFrame(f)
      PROVE  IdInv'
  <2>1. config'.id = config.id /\ nvs' = nvs /\ pc # "init"
    BY <1>2, IdAuth DEF NodeInv, Prepare, BuildAndSign, Reply, ReceiveFrame
  <2> QED BY <2>1 DEF IdInv
<1>3. CASE DecodeFrame
  <2>1. config.id \in Ids /\ config'.id \in Ids
    BY <1>3, DecodeOps DEF DecodeFrame, NodeInv, AuthTypes, KeyInv, IdInv
  <2> QED BY <1>3, <2>1 DEF DecodeFrame, IdInv
<1>4. CASE SaveConfig
  <2>1. PICK r \in BOOLEAN, w \in BOOLEAN : Cfg!Save(r, w)
    BY <1>4 DEF SaveConfig, Outcomes
  <2>2. config.id \in Ids /\ Cfg!Versioned(config).id = config.id
    BY <1>4 DEF SaveConfig, IdInv, NodeInv, AuthTypes, Cfg!DeviceConfig, Cfg!Versioned
  <2> QED BY <2>1, <2>2 DEF Cfg!Save, Cfg!Stored, Cfg!cfgVars, IdInv
<1>5. ASSUME \/ LeaveLoop \/ TransmitBroadcast \/ Transmit \/ GiveUp \/ AckReceived
             \/ NoAckReceived \/ NothingReceived \/ Respond \/ PowerDown \/ WakeUp
             \/ (\E f \in GatewayFrames : GatewaySend(f)) \/ UNCHANGED vars
      PROVE  IdInv'
  <2>1. config' = config /\ nvs' = nvs /\ (pc = "init" => pc' = "init")
    BY <1>5 DEF LeaveLoop, TransmitBroadcast, Transmit, GiveUp, AckReceived, NoAckReceived,
       NothingReceived, Respond, PowerDown, WakeUp, GatewaySend, vars
  <2> QED BY <2>1 DEF IdInv
<1> QED BY <1>1, <1>2, <1>3, <1>4, <1>5 DEF SteadyNext, NodeStep

-----------------------------------------------------------------------------
(* The refinement mapping, as in NodeCycle.                                *)

Pending == IF pc \in {"transmit", "await"} THEN frame ELSE NoFrame
Delivered == {f \in heard : f.type = "DATA"}
DataFrames ==
    [type : {"DATA"}, id : Ids, low : LowByte,
     tag : [key : {Auth!DeviceKey(i) : i \in Ids}, ctr : Counter],
     body : [cycle : Nat, slice : [first : Nat, count : Nat]]]

\* A frame in the air is a frame, and is not "no frame".
LEMMA PendingFrame ==
    ASSUME NodeInv, pc \in {"transmit", "await"}
    PROVE  Pending = frame /\ frame.type = "DATA" /\ Pending # NoFrame
  BY DEF NodeInv, KeyInv, Data, Pending, NoFrame

\* What build_frame() and sign_frame() hand over is a DATA frame of the node.
LEMMA BuiltFrame ==
    ASSUME NodeInv, IdInv, BuildAndSign
    PROVE  frame' \in DataFrames
<1>1. Auth!SignedTag \in [key : {Auth!DeviceKey(i) : i \in Ids}, ctr : Counter]
  BY ConfigParameters
     DEF BuildAndSign, NodeInv, AuthTypes, KeyInv, IdInv, Auth!SignedTag, Auth!Tag
<1>2. Low(Auth!SignedTag.ctr) \in LowByte
  BY <1>1, Split DEF Counter
<1>3. Codec!Slice \in [first : Nat, count : Nat]
  BY SliceType DEF BuildAndSign, MoreToSend, NodeInv, PlainTypes
<1>4. config.id \in Ids /\ cycle \in Nat
  BY DEF BuildAndSign, IdInv, NodeInv, PlainTypes
<1> QED BY <1>1, <1>2, <1>3, <1>4 DEF BuildAndSign, DataFrame, DataFrames

\* A step that leaves the frame in the air, the air and the return code alone.
LEMMA Stutter ==
    ASSUME Pending' = Pending, Delivered' = Delivered, ret' = ret
    PROVE  UNCHANGED Uplink!uplinkVars
  BY DEF Uplink!uplinkVars, Pending, Delivered

LEMMA UplinkStep ==
    NodeInv /\ IdInv /\ AckInv /\ [SteadyNext]_vars => [Uplink!Next]_(Uplink!uplinkVars)
<1> SUFFICES ASSUME NodeInv, IdInv, AckInv, [SteadyNext]_vars
             PROVE  [Uplink!Next]_(Uplink!uplinkVars)
  OBVIOUS
<1> USE DEF worldVars, loopVars, authVars, cfgVars, codecVars, railVars
<1>1. ASSUME \/ AppInit \/ LoadConfig \/ LeaveLoop \/ NothingReceived \/ DecodeFrame
             \/ Reply \/ PowerDown \/ SaveConfig \/ WakeUp
             \/ \E f \in Downlink : ReceiveFrame(f)
      PROVE  UNCHANGED Uplink!uplinkVars
  <2>1. /\ pc \notin {"transmit", "await"} /\ pc' \notin {"transmit", "await"}
        /\ heard' = heard /\ ret' = ret
    BY <1>1 DEF AppInit, LoadConfig, LeaveLoop, NothingReceived, DecodeFrame, Reply,
       PowerDown, SaveConfig, WakeUp, ReceiveFrame
  <2> QED BY <2>1, Stutter DEF Pending, Delivered
<1>2. CASE Prepare
  <2>1. Pending = NoFrame /\ Pending' = NoFrame /\ ret' = "none" /\ Delivered' = Delivered
    BY <1>2 DEF Prepare, Pending, Delivered
  <2> QED BY <2>1 DEF Uplink!Next, Uplink!Forget, Pending, Delivered
<1>3. CASE BuildAndSign
  <2>1. /\ Pending = NoFrame /\ Pending' = frame' /\ ret' = "none"
        /\ Delivered' = Delivered
    BY <1>3 DEF BuildAndSign, Pending, Delivered
  <2>2. frame' \in DataFrames
    BY <1>3, BuiltFrame
  <2>3. Uplink!Submit
    BY <2>1, <2>2 DEF Uplink!Submit, Pending, Delivered, DataFrames
  <2> QED BY <2>3 DEF Uplink!Next
<1>4. CASE TransmitBroadcast \/ Transmit
  <2>1. /\ Pending = frame /\ frame.type = "DATA" /\ Pending # NoFrame /\ frame' = frame
    BY <1>4, PendingFrame DEF TransmitBroadcast, Transmit
  <2>2. Send(frame) => Delivered' \in {Delivered, Delivered \cup {Pending}}
    BY <2>1 DEF Send, Delivered
  <2>3. CASE Send(frame) /\ Return("sent")
    <3>1. Pending' = NoFrame /\ ret' = "sent"
      BY <2>3 DEF Return, Pending
    <3> QED
      BY <2>1, <2>2, <2>3, <3>1 DEF Uplink!Next, Uplink!ReportBroadcast, Pending, Delivered
  <2>4. CASE Send(frame) /\ pc' = "await" /\ ret' = ret
    <3>1. Pending' = Pending
      BY <2>1, <2>4 DEF Pending
    <3>2. CASE Delivered' = Delivered
      BY <2>4, <3>1, <3>2, Stutter
    <3>3. CASE Delivered' = Delivered \cup {Pending}
      BY <2>1, <2>4, <3>1, <3>3 DEF Uplink!Next, Uplink!Deliver, Pending, Delivered
    <3> QED BY <2>2, <2>4, <3>2, <3>3
  <2>5. CASE Return("error") /\ UNCHANGED heard
    <3>1. Pending' = NoFrame /\ ret' = "error" /\ Delivered' = Delivered
      BY <2>5 DEF Return, Pending, Delivered
    <3> QED BY <2>1, <3>1 DEF Uplink!Next, Uplink!ReportFailure, Pending, Delivered
  <2> QED BY <1>4, <2>3, <2>4, <2>5 DEF TransmitBroadcast, Transmit
<1>5. CASE GiveUp
  <2>1. Pending # NoFrame /\ Pending' = NoFrame /\ ret' = "timeout" /\ Delivered' = Delivered
    BY <1>5, PendingFrame DEF GiveUp, Return, Pending, Delivered
  <2> QED BY <2>1 DEF Uplink!Next, Uplink!ReportFailure, Pending, Delivered
<1>6. CASE AckReceived
  <2>1. Pending \in Delivered /\ Pending # NoFrame
    BY <1>6, PendingFrame, AckIsAnswer DEF AckReceived, Delivered
  <2>2. Pending' = NoFrame /\ ret' = "ok" /\ Delivered' = Delivered
    BY <1>6 DEF AckReceived, Return, Pending, Delivered
  <2> QED BY <2>1, <2>2 DEF Uplink!Next, Uplink!ReportOk, Pending, Delivered
<1>7. CASE NoAckReceived
  <2>1. Pending' = Pending /\ ret' = ret /\ Delivered' = Delivered
    BY <1>7 DEF NoAckReceived, Pending, Delivered
  <2> QED BY <2>1, Stutter
<1>8. CASE Respond
  <2>1. [frame EXCEPT !.tag = Auth!NoTag].type # "DATA"
    BY <1>8 DEF Respond, NodeInv, KeyInv
  <2>2. Pending' = Pending /\ ret' = ret /\ Delivered' = Delivered
    BY <1>8, <2>1 DEF Respond, Send, Pending, Delivered
  <2> QED BY <2>2, Stutter
<1>9. CASE (\E f \in GatewayFrames : GatewaySend(f)) \/ UNCHANGED vars
  <2>1. Pending' = Pending /\ ret' = ret /\ Delivered' = Delivered
    BY <1>9 DEF GatewaySend, vars, Pending, Delivered
  <2> QED BY <2>1, Stutter
<1> QED
  BY <1>1, <1>2, <1>3, <1>4, <1>5, <1>6, <1>7, <1>8, <1>9 DEF SteadyNext, NodeStep

LEMMA UplinkInit == Init => Uplink!Init
  BY DEF Init, Uplink!Init

(***************************************************************************)
(* The safety part of ImplementsUplink: the transmit loop with its         *)
(* counters, retries and ACKs implements ConfirmedUplink                   *)
(* (lora_interface.cpp:65-98, app.cpp:146-186).                            *)
(***************************************************************************)
THEOREM KeepsPromise == SteadySpec => Uplink!Safe
<1>1. Init => NodeInv /\ IdInv /\ AckInv
  BY NodeInit, IdInit, AckInit
<1>2. NodeInv /\ IdInv /\ AckInv /\ [SteadyNext]_vars => NodeInv' /\ IdInv' /\ AckInv'
  <2>1. [SteadyNext]_vars => [Next]_vars
    BY DEF Next
  <2> QED BY <2>1, NodeStepInv, IdStep, AckStep
<1>3. SteadySpec => [](NodeInv /\ IdInv /\ AckInv)
  BY <1>1, <1>2, PTL DEF SteadySpec
<1> QED BY <1>3, UplinkInit, UplinkStep, PTL DEF SteadySpec, Uplink!Safe

-----------------------------------------------------------------------------
(* The receive counter, through losses of power and failing drivers.       *)

WholeTag(f) == f.tag = Auth!Tag(f.tag.key, f.tag.ctr)

\* A DATA frame carries a whole tag, in the air and before, so that its ACK, which
\* repeats key and counter, repeats the tag.
RxInv ==
    /\ RxCounterEarned
    /\ pc \in {"transmit", "await"} => WholeTag(frame)
    /\ \A f \in heard : Data(f) => WholeTag(f)

LEMMA RxInit == Init => RxInv
  BY DEF Init, RxInv, RxCounterEarned

\* A counter that was earned stays so while key and counter stay, or the counter
\* is 0, and the air only gains frames.
LEMMA RxKeep ==
    ASSUME RxCounterEarned, lastRx' = 0 \/ (lastRx' = lastRx /\ key' = key),
           heard \subseteq heard', gwSent \subseteq gwSent'
    PROVE  RxCounterEarned'
  BY DEF RxCounterEarned

\* A frame that verifies is a CONFIG frame, or the ACK of a frame heard.
LEMMA VerifiedEarned ==
    ASSUME RxInv, NEW f \in Downlink, Auth!Verifies(f.low, f.tag)
    PROVE  LET counter == Auth!RxCounter(f.low) IN
           \/ \E g \in gwSent : g.tag = Auth!Tag(key, counter)
           \/ \E g \in heard : g.type = "DATA" /\ g.tag = Auth!Tag(key, counter)
<1> DEFINE counter == Auth!RxCounter(f.low)
<1>1. f.tag = Auth!Tag(key, counter)
  BY DEF Auth!Verifies
<1>2. f # Noise
  BY <1>1 DEF Noise, Auth!Tag, Auth!NoTag
<1>3. CASE f \in gwSent
  BY <1>1, <1>3
<1>4. ASSUME NEW d \in heard, Acknowledged(d), f = AckFrame(d)
      PROVE  d.type = "DATA" /\ d.tag = Auth!Tag(key, counter)
  <2>1. d.type = "DATA" /\ d.tag.key = Auth!DeviceKey(d.id) /\ WholeTag(d)
    BY <1>4 DEF Acknowledged, RxInv, Data
  <2>2. f.tag = Auth!Tag(Auth!DeviceKey(d.id), d.tag.ctr)
    BY <1>4 DEF AckFrame
  <2> QED BY <1>1, <2>1, <2>2 DEF WholeTag
<1> QED BY <1>2, <1>3, <1>4 DEF Downlink

LEMMA RxStep == NodeInv /\ RxInv /\ [Next]_vars => RxInv'
<1> SUFFICES ASSUME NodeInv, RxInv, [Next]_vars PROVE RxInv'
  OBVIOUS
<1> USE DEF worldVars, loopVars, authVars, cfgVars, codecVars, railVars
<1>1. ASSUME \/ AppInit \/ LoadConfig \/ LeaveLoop \/ NothingReceived \/ DecodeFrame
             \/ PowerDown \/ SaveConfig \/ WakeUp
      PROVE  RxInv'
  <2>1. /\ pc' \notin {"transmit", "await"}
        /\ UNCHANGED <<heard, gwSent, key, lastRx>>
    BY <1>1 DEF AppInit, LoadConfig, LeaveLoop, NothingReceived, DecodeFrame, PowerDown,
       SaveConfig, WakeUp
  <2> QED BY <2>1, RxKeep DEF RxInv
<1>2. CASE Prepare
  <2>1. lastRx' = 0 \/ (lastRx' = lastRx /\ key' = key)
    BY <1>2 DEF Prepare, Auth!InitKey, Auth!authVars
  <2>2. pc' = "build" /\ heard' = heard /\ gwSent' = gwSent
    BY <1>2 DEF Prepare
  <2> QED BY <2>1, <2>2, RxKeep DEF RxInv
<1>3. CASE BuildAndSign
  <2>1. UNCHANGED <<heard, gwSent, key, lastRx>>
    BY <1>3, SignFacts DEF BuildAndSign, NodeInv, AuthTypes
  <2>2. WholeTag(frame')
    BY <1>3 DEF BuildAndSign, DataFrame, Auth!SignedTag, Auth!Tag, WholeTag
  <2> QED BY <2>1, <2>2, RxKeep DEF RxInv
<1>4. CASE TransmitBroadcast \/ Transmit
  <2>1. /\ pc = "transmit" /\ heard' \in {heard, heard \cup {frame}}
        /\ UNCHANGED <<frame, gwSent, key, lastRx>>
    BY <1>4 DEF TransmitBroadcast, Transmit, Send
  <2> QED BY <2>1, RxKeep DEF RxInv
<1>5. ASSUME \/ GiveUp \/ AckReceived \/ NoAckReceived \/ UNCHANGED vars
             \/ \E f \in GatewayFrames : GatewaySend(f)
      PROVE  RxInv'
  <2>1. /\ pc' \in {"transmit", "await"} => pc \in {"transmit", "await"}
        /\ UNCHANGED <<frame, heard, key, lastRx>> /\ gwSent \subseteq gwSent'
    BY <1>5 DEF GiveUp, AckReceived, NoAckReceived, Return, GatewaySend, vars
  <2> QED BY <2>1, RxKeep DEF RxInv
<1>6. ASSUME NEW f \in Downlink, ReceiveFrame(f)
      PROVE  RxInv'
  <2>1. /\ pc' \notin {"transmit", "await"} /\ key' = key
        /\ heard' = heard /\ gwSent' = gwSent
    BY <1>6 DEF ReceiveFrame, Auth!VerifyFrame, Auth!keyVars
  <2>2. CASE Auth!Verifies(f.low, f.tag)
    <3>1. lastRx' = Auth!RxCounter(f.low)
      BY <1>6, <2>2 DEF ReceiveFrame, Auth!VerifyFrame
    <3>2. RxCounterEarned'
      BY <2>1, <2>2, <3>1, VerifiedEarned DEF RxCounterEarned, Auth!Tag
    <3> QED BY <2>1, <3>2 DEF RxInv
  <2>3. CASE ~Auth!Verifies(f.low, f.tag)
    <3>1. lastRx' = 0 \/ lastRx' = lastRx
      BY <1>6, <2>3 DEF ReceiveFrame, Auth!VerifyFrame, Auth!RxBase
    <3> QED BY <2>1, <3>1, RxKeep DEF RxInv
  <2> QED BY <2>2, <2>3
<1>7. CASE Reply
  <2>1. /\ pc' \notin {"transmit", "await"}
        /\ UNCHANGED <<heard, gwSent, key, lastRx>>
    BY <1>7, SignFacts DEF Reply, NodeInv, AuthTypes
  <2> QED BY <2>1, RxKeep DEF RxInv
<1>8. CASE Respond
  <2> DEFINE sent == [frame EXCEPT !.tag = Auth!NoTag]
  <2>1. ~Data(sent)
    BY <1>8 DEF Respond, NodeInv, KeyInv, Data
  <2>2. /\ pc' = "off" /\ heard' \in {heard, heard \cup {sent}}
        /\ UNCHANGED <<gwSent, key, lastRx>>
    BY <1>8 DEF Respond, Send
  <2> HIDE DEF sent
  <2> QED BY <2>1, <2>2, RxKeep DEF RxInv
<1>9. CASE PowerLoss
  <2>1. pc' = "init" /\ lastRx' = 0 /\ heard' = heard /\ gwSent' = gwSent
    BY <1>9 DEF PowerLoss, Auth!AuthReset
  <2> QED BY <2>1, RxKeep DEF RxInv
<1> QED
  BY <1>1, <1>2, <1>3, <1>4, <1>5, <1>6, <1>7, <1>8, <1>9 DEF Next, SteadyNext, NodeStep

(***************************************************************************)
(* The receive counter is one the gateway has signed under the node's key, *)
(* in a CONFIG frame or in the ACK of a frame it heard, and losses of power*)
(* do not change that (lora_auth.cpp:80-136, app.cpp:190).                 *)
(***************************************************************************)
THEOREM CounterEarned == Spec => []RxCounterEarned
<1>1. Init => NodeInv /\ RxInv
  BY NodeInit, RxInit
<1>2. NodeInv /\ RxInv /\ [Next]_vars => NodeInv' /\ RxInv'
  BY NodeStepInv, RxStep
<1>3. RxInv => RxCounterEarned
  BY DEF RxInv
<1> QED BY <1>1, <1>2, <1>3, PTL DEF Spec

-----------------------------------------------------------------------------
(* The store, through losses of power and failing drivers.                 *)

\* From the first load on there is a configuration to save, and a save that works
\* leaves it in the store.
StoreInv ==
    /\ pc # "init" => loaded
    /\ AsleepIsStored

LEMMA StoreStep == StoreInv /\ [Next]_vars => StoreInv'
<1> SUFFICES ASSUME StoreInv, [Next]_vars PROVE StoreInv'
  OBVIOUS
<1> USE DEF StoreInv, AsleepIsStored, loopVars, worldVars, authVars, codecVars, railVars
<1>1. CASE AppInit \/ LoadConfig
  <2>1. loaded' = TRUE
    BY <1>1 DEF AppInit, LoadConfig, LoadConfiguration, Cfg!Load
  <2> QED BY <1>1, <2>1 DEF AppInit, LoadConfig
<1>2. CASE SaveConfig
  <2>1. PICK r \in Outcomes("flash"), w \in Outcomes("flash") : Cfg!Save(r, w)
    BY <1>2 DEF SaveConfig
  <2>2. loaded /\ loaded' = loaded /\ nvs' = Cfg!Stored(config', r, w)
    BY <1>2, <2>1 DEF SaveConfig, Cfg!Save
  <2>3. "flash" \notin Faults => r /\ w
    BY DEF Outcomes
  <2>4. "flash" \notin Faults => nvs' = config'
    BY <2>2, <2>3 DEF Cfg!Stored
  <2> QED BY <1>2, <2>2, <2>4 DEF SaveConfig
<1>3. CASE PowerLoss
  BY <1>3 DEF PowerLoss
<1>4. ASSUME \/ Prepare \/ BuildAndSign \/ LeaveLoop \/ TransmitBroadcast \/ Transmit
             \/ GiveUp \/ AckReceived \/ NoAckReceived \/ NothingReceived
             \/ (\E f \in Downlink : ReceiveFrame(f)) \/ DecodeFrame \/ Reply \/ Respond
             \/ PowerDown \/ WakeUp
      PROVE  StoreInv'
  <2>1. pc # "init" /\ pc' # "sleep" /\ loaded' = loaded
    BY <1>4 DEF Prepare, BuildAndSign, LeaveLoop, TransmitBroadcast, Transmit, GiveUp,
       AckReceived, NoAckReceived, NothingReceived, ReceiveFrame, DecodeFrame, Reply,
       Respond, PowerDown, WakeUp, Return, cfgVars
  <2> QED BY <2>1
<1>5. CASE (\E f \in GatewayFrames : GatewaySend(f)) \/ UNCHANGED vars
  <2>1. UNCHANGED <<pc, loaded, config, nvs>>
    BY <1>5 DEF GatewaySend, vars, cfgVars
  <2> QED BY <2>1
<1> QED BY <1>1, <1>2, <1>3, <1>4, <1>5 DEF Next, SteadyNext, NodeStep

(***************************************************************************)
(* With a flash that works a sleeping node has everything in the store,    *)
(* whatever happened before (app.cpp:221-224, config_manager.cpp:74-106).  *)
(***************************************************************************)
THEOREM StoredAsleep == Spec => []AsleepIsStored
<1>1. Init => StoreInv
  BY DEF Init, StoreInv, AsleepIsStored
<1>2. StoreInv => AsleepIsStored
  BY DEF StoreInv
<1> QED BY <1>1, <1>2, StoreStep, PTL DEF Spec

-----------------------------------------------------------------------------
(* The stored transmit counter.                                            *)

Close == Minus(nextTx, config.txSec) <= TxThreshold

\* From the first signature of a cycle to the end of its sleep.
CloseInv ==
    /\ pc \in {"transmit", "await"} => Close
    /\ pc \in {"build", "listen", "decode", "reply", "respond", "off", "save", "sleep"}
         /\ sentCount > 0 => Close

\* Signing raises the stored value when it has fallen behind.
LEMMA SignCloses ==
    ASSUME AuthTypes, Auth!Sign
    PROVE  Close'
<1>1. nextTx' \in 1 .. MaxCtr
  BY SignFacts DEF AuthTypes
<1>2. nextTx' \in Int /\ TxThreshold >= 0 /\ CtrMod \in Nat /\ CtrMod > 0
  BY <1>1
<1>3. CASE Minus(nextTx', config.txSec) > TxThreshold
  <2>1. config'.txSec = nextTx'
    BY <1>3 DEF Auth!Sign, Auth!Minus, Minus, AuthTypes, Cfg!DeviceConfig
  <2>2. 0 % CtrMod = 0
    BY <1>2, ModSmall
  <2>3. Minus(nextTx', nextTx') = 0
    <3>1. \A n \in Int : n - n = 0
      OBVIOUS
    <3>2. \A n \in Int : Minus(n, n) = 0
      BY <2>2, <3>1 DEF Minus
    <3> QED BY <1>2, <3>2
  <2> QED BY <1>2, <2>1, <2>3 DEF Close, Minus
<1>4. CASE ~(Minus(nextTx', config.txSec) > TxThreshold)
  <2>1. config' = config
    BY <1>4 DEF Auth!Sign, Auth!Minus, Minus
  <2>2. config.txSec \in Int
    BY DEF AuthTypes, Cfg!DeviceConfig, Counter
  <2>3. \A m \in Int : m % CtrMod \in Int
    BY <1>2
  <2>4. Minus(nextTx', config.txSec) \in Int
    BY <1>2, <2>2, <2>3 DEF Minus
  <2> QED BY <1>2, <1>4, <2>1, <2>4 DEF Close, Minus
<1> QED BY <1>3, <1>4

\* Nothing between two signatures but a load and init_key() touches either value.
LEMMA CloseKept ==
    ASSUME NodeInv,
           \/ DecodeFrame \/ SaveConfig \/ \E f \in Downlink : ReceiveFrame(f)
    PROVE  nextTx' = nextTx /\ config'.txSec = config.txSec
<1> USE DEF NodeInv, AuthTypes, Cfg!DeviceConfig
<1>1. CASE DecodeFrame
  BY <1>1 DEF DecodeFrame, Handler!Decode, authVars
<1>2. CASE SaveConfig
  BY <1>2 DEF SaveConfig, Cfg!Save, Cfg!Versioned, Cfg!cfgVars, authVars
<1>3. ASSUME NEW f \in Downlink, ReceiveFrame(f)
      PROVE  nextTx' = nextTx /\ config'.txSec = config.txSec
  BY <1>3 DEF ReceiveFrame, Auth!VerifyFrame
<1> QED BY <1>1, <1>2, <1>3

LEMMA CloseStep == NodeInv /\ CloseInv /\ [Next]_vars => CloseInv'
<1> SUFFICES ASSUME NodeInv, CloseInv, [Next]_vars PROVE CloseInv'
  OBVIOUS
<1> USE DEF CloseInv, cfgVars, loopVars, worldVars, authVars
<1>1. CASE AppInit \/ LoadConfig \/ WakeUp \/ PowerLoss
  BY <1>1 DEF AppInit, LoadConfig, WakeUp, PowerLoss
<1>2. CASE Prepare
  BY <1>2 DEF Prepare
<1>3. CASE BuildAndSign \/ (Reply /\ Codec!ResponseLength > 0)
  <2>1. Close'
    BY <1>3, SignCloses DEF BuildAndSign, Reply, NodeInv
  <2> QED BY <2>1
<1>4. CASE Reply /\ ~(Codec!ResponseLength > 0)
  BY <1>4 DEF Reply, Close
<1>5. CASE DecodeFrame \/ SaveConfig \/ \E f \in Downlink : ReceiveFrame(f)
  <2>1. Close => Close'
    BY <1>5, CloseKept DEF Close
  <2> QED
    BY <1>5, <2>1 DEF DecodeFrame, SaveConfig, ReceiveFrame
<1>6. ASSUME \/ LeaveLoop \/ TransmitBroadcast \/ Transmit \/ GiveUp \/ AckReceived
             \/ NoAckReceived \/ NothingReceived \/ Respond \/ PowerDown
             \/ (\E f \in GatewayFrames : GatewaySend(f)) \/ UNCHANGED vars
      PROVE  CloseInv'
  <2>1. Close => Close'
    BY <1>6 DEF LeaveLoop, TransmitBroadcast, Transmit, GiveUp, AckReceived, NoAckReceived,
       NothingReceived, Respond, PowerDown, GatewaySend, vars, Close
  <2> QED
    BY <1>6, <2>1 DEF LeaveLoop, TransmitBroadcast, Transmit, GiveUp, AckReceived,
       NoAckReceived, NothingReceived, Respond, PowerDown, GatewaySend, vars, Return
<1> QED
  BY <1>1, <1>2, <1>3, <1>4, <1>5, <1>6 DEF Next, SteadyNext, NodeStep

(***************************************************************************)
(* With a flash that works, the counter in the store is within the write   *)
(* threshold of the transmit counter after every cycle that sent a frame,  *)
(* also after a loss of power has set the transmit counter back            *)
(* (lora_auth.cpp:49-77, Docs/lora_protocol.md:43).                        *)
(***************************************************************************)
THEOREM StoredClose == Spec => []StoredCounterClose
<1>1. Init => CloseInv
  BY DEF Init, CloseInv
<1>2. NodeInv /\ CloseInv /\ [Next]_vars => NodeInv' /\ CloseInv'
  BY NodeStepInv, CloseStep
<1>3. CloseInv /\ AsleepIsStored => StoredCounterClose
  BY DEF CloseInv, AsleepIsStored, StoredCounterClose, Close
<1> QED BY <1>1, <1>2, <1>3, NodeInit, StoredAsleep, PTL DEF Spec

-----------------------------------------------------------------------------
(* Measurements, through losses of power and failing drivers.              *)

Sent(f) == f.body.slice.first + f.body.slice.count

Typed(f) == /\ f.body.cycle \in Nat
            /\ f.body.slice \in [first : Nat, count : Nat]

\* In the transmit loop the frames of this cycle cover less than the codec has cut,
\* and those heard before the frame in the air end where it begins.
SliceInv ==
    /\ \A f \in heard : Data(f) => Typed(f) /\ f.body.cycle <= cycle
    /\ pc \in {"transmit", "await"} =>
          /\ Typed(frame) /\ frame.body.cycle = cycle /\ Sent(frame) <= batchOffset
          /\ \A f \in heard : Data(f) /\ f.body.cycle = cycle /\ f # frame
                => Sent(f) <= frame.body.slice.first
    /\ pc = "build" =>
          \A f \in heard : Data(f) /\ f.body.cycle = cycle => Sent(f) <= batchOffset
    /\ MeasurementsOnce

LEMMA SliceStep == NodeInv /\ SliceInv /\ [Next]_vars => SliceInv'
<1> SUFFICES ASSUME NodeInv, SliceInv, [Next]_vars PROVE SliceInv'
  OBVIOUS
<1> USE DEF loopVars, worldVars, codecVars
<1>1. CASE Prepare
  <2>1. heard' = heard /\ pc' = "build" /\ cycle' = cycle + 1 /\ cycle \in Nat
    BY <1>1 DEF Prepare, NodeInv, PlainTypes
  <2>2. \A f \in heard : Data(f) => f.body.cycle # cycle' /\ f.body.cycle <= cycle'
    BY <2>1 DEF SliceInv, Typed
  <2> QED BY <2>1, <2>2 DEF SliceInv, MeasurementsOnce
<1>2. CASE BuildAndSign
  <2>1. /\ frame'.body = [cycle |-> cycle, slice |-> Codec!Slice] /\ pc' = "transmit"
        /\ heard' = heard /\ cycle' = cycle /\ cycle \in Nat /\ batchOffset \in Nat
        /\ batchOffset' = batchOffset + Codec!FrameCount
    BY <1>2 DEF BuildAndSign, DataFrame, MoreToSend, Codec!BuildFrame, NodeInv, PlainTypes
  <2>2. Codec!Slice = [first |-> batchOffset, count |-> Codec!FrameCount]
        /\ Codec!FrameCount \in Nat
    BY <1>2, SliceType DEF BuildAndSign, MoreToSend, NodeInv, PlainTypes, Codec!Slice
  <2>3. Typed(frame') /\ frame'.body.cycle = cycle /\ Sent(frame') = batchOffset'
        /\ frame'.body.slice.first = batchOffset
    BY <2>1, <2>2 DEF Typed, Sent
  <2>4. \A f \in heard : Data(f) /\ f.body.cycle = cycle => Sent(f) <= batchOffset
    BY <1>2 DEF BuildAndSign, SliceInv
  <2> QED BY <2>1, <2>3, <2>4 DEF SliceInv, MeasurementsOnce
<1>3. CASE TransmitBroadcast \/ Transmit
  <2>1. /\ pc = "transmit" /\ pc' \in {"build", "await"}
        /\ heard' = heard \/ heard' = heard \cup {frame}
        /\ UNCHANGED <<frame, cycle, batchOffset>>
    BY <1>3 DEF TransmitBroadcast, Transmit, Send, Return
  <2>2. /\ Data(frame) /\ Typed(frame) /\ frame.body.cycle = cycle
        /\ Sent(frame) <= batchOffset /\ cycle \in Nat /\ batchOffset \in Nat
    BY <2>1 DEF SliceInv, NodeInv, KeyInv, PlainTypes
  <2>3. \A f \in heard : Data(f) /\ f.body.cycle = cycle /\ f # frame
           => Sent(f) <= frame.body.slice.first /\ Sent(f) <= batchOffset
    BY <2>1, <2>2 DEF SliceInv, Typed, Sent
  <2>4. MeasurementsOnce'
    BY <2>1, <2>2, <2>3 DEF SliceInv, MeasurementsOnce, Sent, Data
  <2> QED BY <2>1, <2>2, <2>3, <2>4 DEF SliceInv
<1>4. CASE GiveUp \/ AckReceived
  <2>1. /\ pc \in {"transmit", "await"} /\ pc' = "build"
        /\ UNCHANGED <<frame, cycle, batchOffset, heard>>
    BY <1>4 DEF GiveUp, AckReceived, Return
  <2>2. \A f \in heard : Data(f) /\ f.body.cycle = cycle => Sent(f) <= batchOffset
    BY <2>1 DEF SliceInv, NodeInv, PlainTypes, Typed, Sent
  <2> QED BY <2>1, <2>2 DEF SliceInv, MeasurementsOnce
<1>5. CASE Respond
  <2> DEFINE sent == [frame EXCEPT !.tag = Auth!NoTag]
  <2>1. ~Data(sent)
    BY <1>5 DEF Respond, NodeInv, KeyInv, Data
  <2>2. /\ pc' = "off" /\ cycle' = cycle
        /\ heard' = heard \/ heard' = heard \cup {sent}
    BY <1>5 DEF Respond, Send
  <2> HIDE DEF sent
  <2> QED BY <2>1, <2>2 DEF SliceInv, MeasurementsOnce, Data
<1>6. ASSUME \/ AppInit \/ LoadConfig \/ LeaveLoop \/ NoAckReceived \/ NothingReceived
             \/ (\E f \in Downlink : ReceiveFrame(f)) \/ DecodeFrame \/ Reply
             \/ PowerDown \/ SaveConfig \/ WakeUp \/ PowerLoss
             \/ (\E f \in GatewayFrames : GatewaySend(f)) \/ UNCHANGED vars
      PROVE  SliceInv'
  <2>1. /\ heard' = heard /\ cycle' = cycle
        /\ pc' \in {"build", "transmit", "await"} =>
              /\ pc' = pc \/ {pc, pc'} \subseteq {"transmit", "await"}
              /\ UNCHANGED <<frame, batchOffset>>
    BY <1>6 DEF AppInit, LoadConfig, LeaveLoop, NoAckReceived, NothingReceived, ReceiveFrame,
       DecodeFrame, Reply, PowerDown, SaveConfig, WakeUp, PowerLoss, GatewaySend, vars
  <2> QED BY <2>1 DEF SliceInv, MeasurementsOnce
<1> QED
  BY <1>1, <1>2, <1>3, <1>4, <1>5, <1>6 DEF Next, SteadyNext, NodeStep

(***************************************************************************)
(* No measurement reaches the gateway in two frames, however often frames  *)
(* are repeated, given up or cut off by a loss of power                    *)
(* (lora_frame_codec.cpp, encode_data_frame; app.cpp:146-186).             *)
(***************************************************************************)
THEOREM SlicesApart == Spec => []MeasurementsOnce
<1>1. Init => SliceInv
  BY DEF Init, SliceInv, MeasurementsOnce
<1>2. NodeInv /\ SliceInv /\ [Next]_vars => NodeInv' /\ SliceInv'
  BY NodeStepInv, SliceStep
<1>3. SliceInv => MeasurementsOnce
  BY DEF SliceInv
<1> QED BY <1>1, <1>2, <1>3, NodeInit, PTL DEF Spec

-----------------------------------------------------------------------------
(* Acknowledgements again, through losses of power and failing drivers.    *)

OfThisCycle(f) == Data(f) /\ f.body.cycle = cycle

\* Up to the first loss of power.
FirstInv == boots = 0 => AckInv

LEMMA FirstStep == NodeInv /\ FirstInv /\ [Next]_vars => FirstInv'
<1> SUFFICES ASSUME NodeInv, FirstInv, [Next]_vars PROVE FirstInv'
  OBVIOUS
<1>1. CASE PowerLoss
  BY <1>1 DEF PowerLoss, FirstInv, NodeInv, PlainTypes
<1>2. CASE [SteadyNext]_vars
  <2>1. boots' = boots
    BY <1>2 DEF SteadyNext, NodeStep, vars, worldVars, AppInit, LoadConfig, Prepare,
       BuildAndSign, LeaveLoop, TransmitBroadcast, Transmit, GiveUp, AckReceived,
       NoAckReceived, NothingReceived, ReceiveFrame, DecodeFrame, Reply, Respond,
       PowerDown, SaveConfig, WakeUp, GatewaySend
  <2> QED BY <1>2, <2>1, AckStep DEF FirstInv
<1> QED BY <1>1, <1>2 DEF Next

\* A loss of power sets the counter back, but ends the cycle: in the transmit loop
\* the frames of this cycle were signed since, and have what HeardInv and FrameInv
\* say of all frames in one power-on.
CycleInv ==
    /\ pc \in {"build", "transmit", "await"} =>
          \A f \in heard : OfThisCycle(f) => f.tag.ctr < nextTx
    /\ pc \in {"transmit", "await"} =>
          /\ frame.tag = Auth!Tag(key, nextTx - 1)
          /\ \A f \in heard : OfThisCycle(f) /\ f.tag.ctr = nextTx - 1 => f = frame
    /\ \A f, g \in heard :
          /\ Data(f) /\ Data(g) /\ f.tag.ctr = g.tag.ctr /\ f.body.cycle = g.body.cycle
          => f = g
    /\ GatewayInv
    /\ AckSound

LEMMA CycleInit == Init => CycleInv
  BY DEF Init, CycleInv, GatewayInv, AckSound

\* What AckSound asks for.
Answered(d) ==
    /\ d.type = "DATA" /\ d.tag = frame.tag
    /\ \/ d = frame
       \/ boots > 0 /\ d.body.cycle < frame.body.cycle

\* A valid ACK answers a frame with the tag of the one in the air: that one or,
\* once power was lost, one of an earlier cycle.
LEMMA AckIsAnswerOrOlder ==
    ASSUME NodeInv, RxInv, SliceInv, FirstInv, CycleInv, pc = "await",
           NEW f \in Downlink, ValidAck(f)
    PROVE  \E d \in heard : Answered(d)
<1>1. f.type = "ACK"
  BY DEF ValidAck
<1>2. f \notin gwSent /\ f # Noise
  BY <1>1 DEF CycleInv, GatewayInv, Noise
<1>3. PICK d \in heard : Acknowledged(d) /\ f = AckFrame(d)
  BY <1>2 DEF Downlink
<1>4. d.type = "DATA" /\ d.tag.key = Auth!DeviceKey(d.id) /\ WholeTag(d)
  BY <1>3 DEF Acknowledged, RxInv, Data
<1>5. f.tag = Auth!Tag(Auth!DeviceKey(d.id), d.tag.ctr)
  BY <1>3 DEF AckFrame
<1>6. f.tag = d.tag
  BY <1>4, <1>5 DEF WholeTag
<1>7. f.tag = Auth!Tag(key, Auth!Minus(nextTx, 1))
  BY DEF ValidAck, Auth!AckVerifies
<1>8. Auth!Minus(nextTx, 1) = nextTx - 1
  <2>1. nextTx - 1 \in Nat /\ nextTx - 1 < CtrMod
    BY DEF NodeInv, AuthTypes
  <2> QED BY <2>1, ModSmall DEF Auth!Minus
<1>9. d.tag = frame.tag /\ d.tag.ctr = nextTx - 1
  BY <1>6, <1>7, <1>8 DEF CycleInv, Auth!Tag
<1>10. /\ d.body.cycle \in Nat /\ cycle \in Nat /\ d.body.cycle <= cycle
       /\ frame.body.cycle = cycle
  BY <1>3, <1>4 DEF SliceInv, Typed, Data, NodeInv, PlainTypes
<1>11. d.body.cycle = cycle => d = frame
  BY <1>3, <1>4, <1>9 DEF CycleInv, OfThisCycle, Data
<1>12. CASE boots = 0
  <2>1. frame \in heard /\ frame.type = "DATA"
    BY <1>12, AckIsAnswer DEF FirstInv, NodeInv, KeyInv, Data
  <2> QED BY <2>1 DEF Answered
<1>13. CASE boots # 0
  <2>1. boots > 0
    BY <1>13 DEF NodeInv, PlainTypes
  <2>2. d = frame \/ d.body.cycle < frame.body.cycle
    BY <1>10, <1>11
  <2> QED BY <1>3, <1>4, <1>9, <2>1, <2>2 DEF Answered
<1> QED BY <1>12, <1>13

LEMMA CycleStep ==
    NodeInv /\ RxInv /\ SliceInv /\ FirstInv /\ CycleInv /\ [Next]_vars => CycleInv'
<1> SUFFICES ASSUME NodeInv, RxInv, SliceInv, FirstInv, CycleInv, [Next]_vars PROVE CycleInv'
  OBVIOUS
<1> USE DEF loopVars, worldVars, authVars
<1>1. CASE Prepare
  <2>1. /\ heard' = heard /\ gwSent' = gwSent /\ pc' = "build" /\ ret' = "none"
        /\ cycle' = cycle + 1 /\ cycle \in Nat
    BY <1>1 DEF Prepare, NodeInv, PlainTypes
  <2>2. \A f \in heard : Data(f) => f.body.cycle # cycle'
    BY <2>1 DEF SliceInv, Typed
  <2> QED
    BY <2>1, <2>2 DEF CycleInv, OfThisCycle, GatewayInv, AckSound, Data
<1>2. CASE BuildAndSign
  <2>1. /\ nextTx \in Nat /\ nextTx' = nextTx + 1 /\ key' = key
        /\ Auth!SignedTag = Auth!Tag(key, nextTx)
    BY <1>2, SignFacts DEF BuildAndSign, NodeInv, AuthTypes, Auth!SignedTag
  <2>2. /\ frame'.tag = Auth!Tag(key, nextTx) /\ pc = "build" /\ pc' = "transmit"
        /\ heard' = heard /\ gwSent' = gwSent /\ cycle' = cycle
    BY <1>2, <2>1 DEF BuildAndSign, DataFrame
  <2>3. \A f \in heard : OfThisCycle(f) => /\ f.tag.ctr \in Nat /\ f.tag.ctr < nextTx
    BY <2>2 DEF CycleInv, OfThisCycle, NodeInv, AirInv
  <2>4. nextTx' - 1 = nextTx /\ \A n \in Nat : n < nextTx => n < nextTx' /\ n # nextTx
    BY <2>1
  <2>5. \A f \in heard' : OfThisCycle(f)' =>
           f.tag.ctr < nextTx' /\ f.tag.ctr # nextTx' - 1
    BY <2>2, <2>3, <2>4 DEF OfThisCycle, Data
  <2> QED
    BY <2>1, <2>2, <2>4, <2>5 DEF CycleInv, GatewayInv, AckSound, Data
<1>3. CASE TransmitBroadcast \/ Transmit
  <2>1. /\ pc = "transmit" /\ pc' \in {"build", "await"} /\ (pc' = "build" => ret' # "ok")
        /\ heard' = heard \/ heard' = heard \cup {frame}
        /\ UNCHANGED <<frame, cycle, key, nextTx, gwSent>>
    BY <1>3 DEF TransmitBroadcast, Transmit, Send, Return
  <2>2. /\ OfThisCycle(frame) /\ frame.tag.ctr = nextTx - 1 /\ nextTx - 1 < nextTx
        /\ frame.body.cycle = cycle
    BY <2>1 DEF SliceInv, CycleInv, OfThisCycle, NodeInv, KeyInv, AuthTypes, Auth!Tag
  <2>3. \A f \in heard' : OfThisCycle(f) =>
           f.tag.ctr < nextTx /\ (f.tag.ctr = nextTx - 1 => f = frame)
    BY <2>1, <2>2 DEF CycleInv
  <2>4. \A f, g \in heard' :
           Data(f) /\ Data(g) /\ f.tag.ctr = g.tag.ctr /\ f.body.cycle = g.body.cycle
           => f = g
    BY <2>1, <2>2, <2>3 DEF CycleInv, OfThisCycle
  <2>5. \A f : OfThisCycle(f)' <=> OfThisCycle(f)
    BY <2>1 DEF OfThisCycle, Data
  <2>6. AckSound' /\ GatewayInv'
    BY <2>1 DEF CycleInv, GatewayInv, AckSound
  <2> QED BY <2>1, <2>3, <2>4, <2>5, <2>6 DEF CycleInv, Data
<1>4. CASE GiveUp
  <2>1. /\ pc = "transmit" /\ pc' = "build" /\ ret' = "timeout"
        /\ UNCHANGED <<cycle, nextTx, heard, gwSent>>
    BY <1>4 DEF GiveUp, Return
  <2> QED
    BY <2>1 DEF CycleInv, OfThisCycle, GatewayInv, AckSound, Data
<1>5. CASE AckReceived
  <2>1. /\ pc = "await" /\ pc' = "build"
        /\ UNCHANGED <<frame, cycle, boots, nextTx, heard, gwSent>>
    BY <1>5 DEF AckReceived, Return
  <2>2. \E d \in heard : Answered(d)
    BY <1>5, AckIsAnswerOrOlder DEF AckReceived
  <2>3. AckSound'
    BY <2>1, <2>2 DEF AckSound, Answered
  <2> QED BY <2>1, <2>3 DEF CycleInv, OfThisCycle, GatewayInv, Data
<1>6. CASE Respond
  <2> DEFINE sent == [frame EXCEPT !.tag = Auth!NoTag]
  <2>1. ~Data(sent)
    BY <1>6 DEF Respond, NodeInv, KeyInv, Data
  <2>2. /\ pc' = "off" /\ gwSent' = gwSent
        /\ heard' = heard \/ heard' = heard \cup {sent}
    BY <1>6 DEF Respond, Send
  <2> HIDE DEF sent
  <2> QED BY <2>1, <2>2 DEF CycleInv, GatewayInv, AckSound, Data
<1>7. ASSUME NEW f \in GatewayFrames, GatewaySend(f)
      PROVE  CycleInv'
  <2>1. f.type = "CONFIG"
    BY DEF GatewayFrames, ConfigFrame
  <2>2. gwSent' = gwSent \cup {f}
        /\ UNCHANGED <<pc, ret, frame, cycle, boots, key, nextTx, heard>>
    BY <1>7 DEF GatewaySend
  <2> QED
    BY <2>1, <2>2 DEF CycleInv, OfThisCycle, GatewayInv, AckSound, Data
<1>8. ASSUME NoAckReceived \/ UNCHANGED vars
      PROVE  CycleInv'
  <2>1. /\ \/ pc' = pc /\ ret' = ret
           \/ pc = "await" /\ pc' = "transmit"
        /\ UNCHANGED <<frame, cycle, boots, key, nextTx, heard, gwSent>>
    BY <1>8 DEF NoAckReceived, vars
  <2> QED
    BY <2>1 DEF CycleInv, OfThisCycle, GatewayInv, AckSound, Data
<1>9. ASSUME \/ AppInit \/ LoadConfig \/ LeaveLoop \/ NothingReceived
             \/ (\E f \in Downlink : ReceiveFrame(f)) \/ DecodeFrame \/ Reply
             \/ PowerDown \/ SaveConfig \/ WakeUp \/ PowerLoss
      PROVE  CycleInv'
  <2>1. /\ pc' \notin {"build", "transmit", "await"}
        /\ heard' = heard /\ gwSent' = gwSent
    BY <1>9 DEF AppInit, LoadConfig, LeaveLoop, NothingReceived, ReceiveFrame, DecodeFrame,
       Reply, PowerDown, SaveConfig, WakeUp, PowerLoss
  <2> QED BY <2>1 DEF CycleInv, GatewayInv, AckSound, Data
<1> QED
  BY <1>1, <1>2, <1>3, <1>4, <1>5, <1>6, <1>7, <1>8, <1>9 DEF Next, SteadyNext, NodeStep

LEMMA CycleInvariance == Spec => [](NodeInv /\ FirstInv /\ CycleInv)
<1>1. Init => NodeInv /\ RxInv /\ SliceInv /\ FirstInv /\ CycleInv
  BY NodeInit, RxInit, AckInit, CycleInit DEF Init, SliceInv, MeasurementsOnce, FirstInv
<1>2. NodeInv /\ RxInv /\ SliceInv /\ FirstInv /\ CycleInv /\ [Next]_vars
        => NodeInv' /\ RxInv' /\ SliceInv' /\ FirstInv' /\ CycleInv'
  BY NodeStepInv, RxStep, SliceStep, FirstStep, CycleStep
<1> QED BY <1>1, <1>2, PTL DEF Spec

(***************************************************************************)
(* A frame reported acknowledged has reached the gateway, or power was lost*)
(* and one of an earlier cycle with its key and counter has                *)
(* (lora_interface.cpp:65-98, lora_auth.cpp:14, 138-156).                  *)
(***************************************************************************)
THEOREM AcknowledgedIsHeard == Spec => []AckSound
<1>1. CycleInv => AckSound
  BY DEF CycleInv
<1> QED BY <1>1, CycleInvariance, PTL

(***************************************************************************)
(* Key and counter name a DATA frame the gateway heard until power is lost,*)
(* and together with the cycle they do so ever after                       *)
(* (lora_auth.cpp:14, 49-77).                                              *)
(***************************************************************************)
THEOREM CounterNamesFrame == Spec => []OneFramePerCounter
<1>1. NodeInv /\ FirstInv /\ CycleInv => OneFramePerCounter
  <2> SUFFICES ASSUME NodeInv, FirstInv, CycleInv, NEW f \in heard, NEW g \in heard,
                      Data(f), Data(g), f.tag = g.tag, f # g
               PROVE  boots > 0 /\ f.body.cycle # g.body.cycle
    BY DEF OneFramePerCounter, Data
  <2>1. boots # 0
    BY DEF FirstInv, AckInv, HeardInv
  <2>2. f.body.cycle # g.body.cycle
    BY DEF CycleInv
  <2> QED BY <2>1, <2>2 DEF NodeInv, PlainTypes
<1> QED BY <1>1, CycleInvariance, PTL
==============================================================================
