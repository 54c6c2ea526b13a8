---------------------------- MODULE ProtocolHandler --------------------------
(***************************************************************************)
(* loragro::ProtocolHandler (common/src/lora_protocol_handler.cpp): decode *)
(* a CONFIG frame that Auth has verified and call the handlers of its      *)
(* commands, one after the other.                                          *)
(*                                                                         *)
(* A frame body is a command count, a protocol version, the commands and   *)
(* "tail", the bytes between the last complete command and the tag.  The   *)
(* body of a frame too short for those is NoBody.  A command is an op, the *)
(* two size bits of its first byte and its argument.                       *)
(***************************************************************************)
EXTENDS Naturals, Sequences

CONSTANT ProtocolVersion    \* PROTOCOL_VERSION

ASSUME ProtocolAssumption == ProtocolVersion \in Nat

VARIABLE config             \* the shared DeviceConfig; its field "id" is used

NoBody == [count |-> 0]

Results == {"OK", "OK_AND_REBOOT_NEED", "PROTOCOL_MISMATCH", "INVALID_LENGTH",
            "UNKNOWN_COMMAND", "DIFFERENT_ID"}

\* MessageOp, as Docs/lora_protocol.md:125-132 numbers the commands and as the
\* dispatch table is ordered.  The table has MAX_OP = 6 entries, the last of
\* them null.
SetCombinedId == 0
SamplingInterval == 1
Reboot == 2
SetUnixTime == 3
LoraConfig == 4
Dispatched == 0 .. 4

\* payload_size() of the two size bits; 0 is the reserved encoding.
PayloadSize(enc) == <<1, 2, 4, 0>>[enc + 1]

\* Mutant of HandlerResult: REBOOT answers EXECUTED_REBOOT, SET_UNIX_TIME runs
\* with the four bytes it can get.
HandlerResult_Reboots(op, size) ==
    IF op \in {Reboot, SetUnixTime} THEN "EXECUTED_REBOOT" ELSE "OK"

\* What the handlers return for a payload of "size" bytes.
HandlerResult(op, size) ==
    CASE op = SetCombinedId    -> IF size < 2 THEN "INVALID_LENGTH"
                                  ELSE "OK_AND_REBOOT_NEED"
      [] op = SamplingInterval -> IF size # 1 THEN "INVALID_LENGTH" ELSE "OK"
      [] op = Reboot           -> "OK_AND_REBOOT_NEED"
      [] op = SetUnixTime      -> IF size # 8 THEN "INVALID_LENGTH" ELSE "OK"
      [] op = LoraConfig       -> IF size # 10 THEN "INVALID_LENGTH"
                                  ELSE "OK_AND_REBOOT_NEED"

\* One turn of decode()'s loop, for command number i of the body.
CommandResult(cmd) ==
    LET size == PayloadSize(cmd.enc)
    IN  IF size = 0 THEN "INVALID_LENGTH"
        ELSE IF cmd.op \notin Dispatched THEN "UNKNOWN_COMMAND"
        ELSE HandlerResult(cmd.op, size)

TurnResult(body, i) ==
    IF i <= Len(body.cmds) THEN CommandResult(body.cmds[i])
    ELSE "INVALID_LENGTH"               \* the bytes run out before the count

\* The loop gets to turn i, and returns there.
Reaches(body, i) == \A j \in 1 .. (i - 1) : TurnResult(body, j) = "OK"
StopsAt(body, i) == Reaches(body, i) /\ TurnResult(body, i) # "OK"

\* Mutant of HeaderResult: the id is not compared.
HeaderResult_AnyId(frame) ==
    IF frame.body = NoBody \/ frame.type # "CONFIG" THEN "INVALID_LENGTH"
    ELSE IF frame.body.version # ProtocolVersion THEN "PROTOCOL_MISMATCH"
    ELSE IF frame.body.count = 0 THEN "INVALID_LENGTH"
    ELSE "OK"

\* The checks ahead of the loop, in order.
HeaderResult(frame) ==
    IF frame.body = NoBody \/ frame.type # "CONFIG" THEN "INVALID_LENGTH"
    ELSE IF frame.id # config.id THEN "DIFFERENT_ID"
    ELSE IF frame.body.version # ProtocolVersion THEN "PROTOCOL_MISMATCH"
    ELSE IF frame.body.count = 0 THEN "INVALID_LENGTH"
    ELSE "OK"

\* Mutant of DecodeResult: the bytes left before the tag are not looked at.
DecodeResult_NoEndCheck(frame) ==
    LET turns == 1 .. frame.body.count
    IN  IF HeaderResult(frame) # "OK" THEN HeaderResult(frame)
        ELSE IF \E i \in turns : StopsAt(frame.body, i)
        THEN TurnResult(frame.body, CHOOSE i \in turns : StopsAt(frame.body, i))
        ELSE "OK"

DecodeResult(frame) ==
    LET body == frame.body
        turns == 1 .. body.count
    IN  IF HeaderResult(frame) # "OK" THEN HeaderResult(frame)
        ELSE IF \E i \in turns : StopsAt(body, i)
        THEN TurnResult(body, CHOOSE i \in turns : StopsAt(body, i))
        ELSE IF body.count = Len(body.cmds) /\ body.tail = 0 THEN "OK"
        ELSE "INVALID_LENGTH"           \* bytes are left before the tag

\* The commands whose handlers decode() calls and that answer with success.
HandledOk(frame, i) ==
    /\ HeaderResult(frame) = "OK"
    /\ i \in 1 .. frame.body.count /\ i <= Len(frame.body.cmds)
    /\ Reaches(frame.body, i)
    /\ TurnResult(frame.body, i) \in {"OK", "OK_AND_REBOOT_NEED"}

\* Mutant of Decode: the sampling interval is written through the reference.
Decode_SetsInterval(frame) ==
    LET done == {i \in 1 .. frame.body.count : HandledOk(frame, i)}
    IN  config' = IF \E i \in done : frame.body.cmds[i].op = SamplingInterval
                  THEN [config EXCEPT !.interval = 30] ELSE config

\* decode().  handle_set_combined_id() writes through the reference, and its
\* result ends the loop, so there is one such command at most.  The sampling
\* interval handler writes to a copy of the configuration, handle_reboot() only
\* returns, and no size the wire can encode gets the other two past their check.
Decode(frame) ==
    LET setters == {i \in 1 .. frame.body.count :
                      HandledOk(frame, i) /\ frame.body.cmds[i].op = SetCombinedId}
    IN  config' = IF setters = {} THEN config
                  ELSE [config EXCEPT !.id =
                          frame.body.cmds[CHOOSE i \in setters : TRUE].arg]
=============================================================================
