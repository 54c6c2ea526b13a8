--------------------------- MODULE CommandDecoding ---------------------------
(***************************************************************************)
(* The protocol handler fed with CONFIG frames: every short sequence of    *)
(* commands with every size encoding, counts that do not match, leftover   *)
(* bytes, foreign ids and versions.                                        *)
(***************************************************************************)
EXTENDS ProtocolHandler

CONSTANTS
    Ids,            \* combined ids
    MaxCommands,    \* bound on the commands of a frame
    Ops             \* command ids tried

ASSUME DecodingAssumption == Ids \subseteq Nat /\ MaxCommands \in Nat /\ Ops \subseteq Nat

VARIABLES
    result,         \* DecodeResult of the last frame, or "none"
    frame           \* the frame received and not decoded yet, or NoFrame

vars == <<config, result, frame>>

NoFrame == [type |-> "none"]

Commands == [op : Ops, enc : 0 .. 3, arg : Ids]
Bodies == [count : 0 .. MaxCommands + 1, version : {ProtocolVersion, ProtocolVersion + 1},
           cmds : UNION {[1 .. n -> Commands] : n \in 0 .. MaxCommands}, tail : 0 .. 1]
Frames == [type : {"CONFIG"}, id : Ids, body : Bodies]
Strays == [type : {"ACK", "DATA"}, id : Ids, body : {NoBody}]

Init ==
    /\ config \in [id : Ids, interval : {15}]
    /\ result = "none"
    /\ frame = NoFrame

Receive ==
    /\ frame = NoFrame
    /\ frame' \in Frames \cup Strays
    /\ result' = "none"
    /\ UNCHANGED config

Handle ==
    /\ frame # NoFrame
    /\ Decode(frame)
    /\ result' = DecodeResult(frame)
    /\ frame' = NoFrame

Next == Receive \/ Handle
Spec == Init /\ [][Next]_vars

TypeOK ==
    /\ config \in [id : Ids, interval : 0 .. 255]
    /\ result \in Results \cup {"none"}
    /\ frame \in Frames \cup Strays \cup {NoFrame}

Accepted(res) == res \in {"OK", "OK_AND_REBOOT_NEED"}

(***************************************************************************)
(* A frame answered with an error has changed nothing: the handlers run    *)
(* before the rest of the frame is parsed, so an error found late must not *)
(* leave an earlier command behind (the RESPONSE tells the gateway the     *)
(* frame was not executed).                                                *)
(***************************************************************************)
RejectedChangesNothing == [][Handle /\ ~Accepted(result') => config' = config]_vars

(***************************************************************************)
(* What OK means in this code.  The frame was consumed to its last byte,   *)
(* the handler of each of its commands answered with success, each command *)
(* was a SAMPLING_INTERVAL, and nothing has changed: that handler writes to*)
(* a copy of the configuration (lora_protocol_handler.cpp:112), and no     *)
(* other one can end in OK.  Docs/lora_protocol.md:95 has OK for a command *)
(* executed successfully, and line 129 has this one set the interval.      *)
(***************************************************************************)
OkChangesNothing ==
    [][result' = "OK" =>
         /\ frame.body.count = Len(frame.body.cmds) /\ frame.body.tail = 0
         /\ \A i \in 1 .. frame.body.count :
               HandledOk(frame, i) /\ frame.body.cmds[i].op = SamplingInterval
         /\ config' = config]_vars

(***************************************************************************)
(* The id changes only by a SET_COMBINED_ID command of a frame addressed to*)
(* the node's id before the change, and to that command's argument.        *)
(***************************************************************************)
IdOnlyByCommand ==
    [][config'.id # config.id =>
         /\ frame.type = "CONFIG" /\ frame.id = config.id
         /\ \E i \in 1 .. Len(frame.body.cmds) :
              /\ frame.body.cmds[i].op = SetCombinedId
              /\ frame.body.cmds[i].arg = config'.id]_vars
=============================================================================
