----------------------------- MODULE UplinkBatch -----------------------------
(***************************************************************************)
(* The transmit loop of App::run_cycle (Fino-LoRaGro/src/app.cpp:141-175)  *)
(* over FrameCodec, cycle after cycle, at the sizes of the code.  How the  *)
(* radio fares is left out: the loop goes on whatever send_confirmed()     *)
(* returns.                                                                *)
(***************************************************************************)
EXTENDS FrameCodec, Sequences

CONSTANTS
    MaxBatch,       \* bound: measurements of a batch, MAX_MEASUREMENT = 255
    MaxTx           \* max_tx_frames_per_cycle: 3

ASSUME BatchAssumption == MaxBatch \in Nat /\ MaxTx \in Nat

VARIABLES
    pc,             \* "sampling", "sending" or "listening"
    sentCount,      \* sent_frame_count
    slices          \* slices of the frames of this cycle, in order

vars == <<codecVars, pc, sentCount, slices>>

Init ==
    /\ batchCount = 0 /\ batchOffset = 0
    /\ pc = "sampling"
    /\ sentCount = 0
    /\ slices = <<>>

\* SampleManager hands over a batch.
StartBatch(count) ==
    /\ pc = "sampling"
    /\ Begin(count)
    /\ sentCount' = 0
    /\ slices' = <<>>
    /\ pc' = "sending"

\* Mutants of LoopGoesOn: one frame more, two frames fewer.
LoopGoesOn_OneMore == HasFrameToSend /\ ~(sentCount > MaxTx + 1)
LoopGoesOn_TwoFewer == HasFrameToSend /\ ~(sentCount + 1 >= MaxTx)

\* The loop's guard and the first break.
LoopGoesOn == HasFrameToSend /\ ~(sentCount > MaxTx)

SendFrame ==
    /\ pc = "sending"
    /\ LoopGoesOn /\ BuildResult > 0
    /\ BuildFrame
    /\ slices' = Append(slices, Slice)
    /\ sentCount' = sentCount + 1
    /\ UNCHANGED pc

LeaveLoop ==
    /\ pc = "sending"
    /\ ~(LoopGoesOn /\ BuildResult > 0)
    /\ pc' = "listening"
    /\ UNCHANGED <<codecVars, sentCount, slices>>

EndCycle ==
    /\ pc = "listening"
    /\ pc' = "sampling"
    /\ UNCHANGED <<codecVars, sentCount, slices>>

Next == (\E count \in 0 .. MaxBatch : StartBatch(count)) \/ SendFrame \/ LeaveLoop \/ EndCycle

Spec == Init /\ [][Next]_vars

TypeOK ==
    /\ batchCount \in 0 .. MaxBatch /\ batchOffset \in 0 .. batchCount
    /\ pc \in {"sampling", "sending", "listening"}
    /\ sentCount \in 0 .. MaxTx + 1
    /\ slices \in Seq([first : 0 .. MaxBatch, count : 1 .. MaxBatch])

(***************************************************************************)
(* The frames of a cycle carry the batch from its start, in order, with no *)
(* measurement skipped and none sent twice, at every batch size up to the  *)
(* largest the sample manager can hand over.                               *)
(***************************************************************************)
InOrderNoGap ==
    \A k \in 1 .. Len(slices) :
        slices[k].first = IF k = 1 THEN 0 ELSE slices[k - 1].first + slices[k - 1].count

(***************************************************************************)
(* Measurements are dropped only at the frame limit: every cycle that      *)
(* leaves the loop with measurements unsent has sent exactly one frame more*)
(* than max_tx_frames_per_cycle, and each of them full.  The guard compares*)
(* with > after counting from 0 (app.cpp:150), while its message and       *)
(* Docs/lora_protocol.md:209 have the parameter as the most frames.        *)
(***************************************************************************)
DropsOnlyAtLimit ==
    pc = "listening" /\ HasFrameToSend /\ Capacity > 0 =>
        /\ Len(slices) = MaxTx + 1
        /\ \A k \in 1 .. Len(slices) : slices[k].count = Capacity

(***************************************************************************)
(* A frame with its tag never exceeds what the radio takes at the spreading*)
(* factor (Interface::transmit would refuse it with -EMSGSIZE).            *)
(***************************************************************************)
FrameFits == BuildResult > 0 => BuildResult + AuthTagSize <= MaxPayload
=============================================================================
