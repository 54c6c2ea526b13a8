------------------------------ MODULE FrameCodec -----------------------------
(***************************************************************************)
(* loragro::FrameCodec (common/src/lora_frame_codec.cpp): cuts the batch of*)
(* measurements of a cycle into DATA frames.  A frame is known by its      *)
(* length and the slice of the batch it carries; the values themselves are *)
(* left out.                                                               *)
(***************************************************************************)
EXTENDS Integers

CONSTANT MaxPayload     \* get_max_payload(): 51 at SF11 and SF12, 115 at SF9
                        \* and SF10, 242 at SF7 and SF8

ASSUME CodecAssumption == MaxPayload \in Nat /\ MaxPayload > 4

VARIABLES
    batchCount,     \* batch_.count
    batchOffset     \* batch_count_offset_

codecVars == <<batchCount, batchOffset>>

HeaderSize == 4
AuthTagSize == 4
DataHeader == HeaderSize + 1 + 4        \* count and timestamp follow the header
MeasurementSize == 5
ResponseSize == 5

\* The packet_length the App passes to build_frame().
UsablePayload == MaxPayload - AuthTagSize

\* Mutant of Begin: the offset into the batch is not reset.
Begin_KeepsOffset(count) == batchCount' = count /\ UNCHANGED batchOffset

Begin(count) ==
    /\ batchCount' = count
    /\ batchOffset' = 0

HasFrameToSend == batchOffset < batchCount

\* Mutant of Capacity: the last measurement may overlap the tag.
Capacity_RoundsUp == (MaxPayload - DataHeader) \div MeasurementSize

\* Measurements a DATA frame has room for.  The loop leaves AUTH_TAG_SIZE bytes
\* of packet_length free, from which the App has already taken the tag.
Capacity ==
    IF UsablePayload < DataHeader + AuthTagSize THEN 0
    ELSE (UsablePayload - DataHeader - AuthTagSize) \div MeasurementSize

Remaining == batchCount - batchOffset
FrameCount == IF Remaining < Capacity THEN Remaining ELSE Capacity

\* What build_frame() returns: the length, 0 at the end of the batch, negative
\* (-EINVAL, -ENOMEM) when not one measurement fits.
BuildResult ==
    IF ~HasFrameToSend THEN 0
    ELSE IF Capacity = 0 THEN -1
    ELSE DataHeader + FrameCount * MeasurementSize

\* The slice of the batch the next frame carries.
Slice == [first |-> batchOffset, count |-> FrameCount]

\* Mutant of BuildFrame: the offset advances by one measurement.
BuildFrame_OneStep ==
    /\ batchOffset' = IF BuildResult > 0 THEN batchOffset + 1 ELSE batchOffset
    /\ UNCHANGED batchCount

BuildFrame ==
    IF BuildResult > 0
    THEN /\ batchOffset' = batchOffset + FrameCount
         /\ UNCHANGED batchCount
    ELSE UNCHANGED codecVars

\* build_frame() of a RESPONSE.
ResponseLength ==
    IF UsablePayload < ResponseSize + AuthTagSize THEN -1 ELSE ResponseSize
=============================================================================
