-------------------------- MODULE UplinkBatch_proofs --------------------------
(***************************************************************************)
(* How a batch is cut into frames, for every payload size, batch size and  *)
(* frame limit.                                                            *)
(***************************************************************************)
EXTENDS UplinkBatch, TLAPS

USE CodecAssumption, BatchAssumption

-----------------------------------------------------------------------------
(* The codec.                                                              *)

\* Measurements fill a frame up to the place of the tag, never into it.
LEMMA CapacityFits ==
    /\ Capacity \in Nat
    /\ Capacity > 0 => DataHeader + Capacity * MeasurementSize + AuthTagSize <= UsablePayload
<1> USE DEF UsablePayload, DataHeader, HeaderSize, AuthTagSize, MeasurementSize
<1>1. CASE UsablePayload < DataHeader + AuthTagSize
  BY <1>1 DEF Capacity
<1>2. CASE ~(UsablePayload < DataHeader + AuthTagSize)
  <2> DEFINE room == UsablePayload - DataHeader - AuthTagSize
  <2>1. room \in Nat /\ Capacity = room \div 5
    BY <1>2 DEF Capacity
  <2>2. room \div 5 \in Nat /\ (room \div 5) * 5 <= room
    <3> HIDE DEF room
    <3> QED BY <2>1
  <2> QED BY <2>1, <2>2
<1> QED BY <1>1, <1>2

\* A frame that can be built takes at least one measurement of those left, and as
\* many as fit.
LEMMA BuiltFrame ==
    ASSUME batchCount \in Nat, batchOffset \in Nat, HasFrameToSend, Capacity > 0
    PROVE  /\ BuildResult = DataHeader + FrameCount * MeasurementSize /\ BuildResult > 0
           /\ FrameCount \in Nat /\ 1 <= FrameCount /\ FrameCount <= Capacity
           /\ batchOffset + FrameCount <= batchCount
           /\ batchOffset + FrameCount < batchCount => FrameCount = Capacity
<1>1. /\ FrameCount \in Nat /\ 1 <= FrameCount /\ FrameCount <= Capacity
      /\ batchOffset + FrameCount <= batchCount
      /\ batchOffset + FrameCount < batchCount => FrameCount = Capacity
  BY CapacityFits DEF HasFrameToSend, FrameCount, Remaining
<1>2. BuildResult = DataHeader + FrameCount * MeasurementSize
  BY DEF BuildResult
<1> QED BY <1>1, <1>2 DEF DataHeader, HeaderSize, MeasurementSize

\* Nothing else is ever built.
LEMMA BuiltOnly == BuildResult > 0 => HasFrameToSend /\ Capacity > 0
  BY CapacityFits DEF BuildResult

-----------------------------------------------------------------------------
(* The loop.                                                               *)

SliceSet == [first : 0 .. MaxBatch, count : 1 .. MaxBatch]

\* How far the frames of this cycle have got.
Covered ==
    IF slices = <<>> THEN 0
    ELSE slices[Len(slices)].first + slices[Len(slices)].count

\* The offset is what the frames have covered; while measurements are left every
\* frame is full; the loop is left early only at the frame limit.
LoopInv ==
    /\ TypeOK
    /\ sentCount = Len(slices)
    /\ batchOffset = Covered /\ batchOffset <= batchCount
    /\ InOrderNoGap
    /\ HasFrameToSend => \A k \in 1 .. Len(slices) : slices[k].count = Capacity
    /\ pc = "listening" /\ HasFrameToSend /\ Capacity > 0 => sentCount > MaxTx

LEMMA LoopInit == Init => LoopInv
<1> SUFFICES ASSUME Init PROVE LoopInv
  OBVIOUS
<1>1. slices = <<>> /\ Len(slices) = 0 /\ slices \in Seq(SliceSet)
  BY DEF Init
<1> QED
  BY <1>1 DEF Init, LoopInv, TypeOK, SliceSet, Covered, InOrderNoGap, HasFrameToSend

LEMMA LoopStep == LoopInv /\ [Next]_vars => LoopInv'
<1> SUFFICES ASSUME LoopInv, [Next]_vars PROVE LoopInv'
  OBVIOUS
<1> USE DEF LoopInv, TypeOK
<1>1. ASSUME NEW count \in 0 .. MaxBatch, StartBatch(count)
      PROVE  LoopInv'
  <2>1. slices' = <<>> /\ Len(slices') = 0 /\ slices' \in Seq(SliceSet)
    BY <1>1 DEF StartBatch
  <2> QED
    BY <1>1, <2>1
       DEF StartBatch, Begin, SliceSet, Covered, InOrderNoGap, HasFrameToSend
<1>2. CASE SendFrame
  <2>1. /\ HasFrameToSend /\ Capacity > 0 /\ pc = "sending" /\ pc' = "sending"
        /\ batchCount' = batchCount /\ batchOffset' = batchOffset + FrameCount
        /\ sentCount' = sentCount + 1 /\ sentCount <= MaxTx
    BY <1>2, BuiltOnly DEF SendFrame, LoopGoesOn, BuildFrame
  <2>2. /\ FrameCount \in 1 .. MaxBatch
        /\ batchOffset + FrameCount <= batchCount
        /\ batchOffset + FrameCount < batchCount => FrameCount = Capacity
    BY <2>1, BuiltFrame
  <2> DEFINE new == [first |-> batchOffset, count |-> FrameCount]
             n == Len(slices)
  <2>3. slices \in Seq(SliceSet) /\ new \in SliceSet /\ slices' = Append(slices, new)
    BY <1>2, <2>2 DEF SendFrame, Slice, SliceSet
  <2> HIDE DEF new
  <2>4. /\ n \in Nat /\ Len(slices') = n + 1 /\ slices' \in Seq(SliceSet)
        /\ slices'[n + 1] = new /\ slices' # <<>>
        /\ \A k \in 1 .. n : slices'[k] = slices[k]
    BY <2>3
  <2>5. Covered' = batchOffset'
    BY <2>1, <2>2, <2>4 DEF Covered, new
  <2>6. InOrderNoGap'
    <3> SUFFICES ASSUME NEW k \in 1 .. n + 1
                 PROVE  slices'[k].first =
                          IF k = 1 THEN 0 ELSE slices'[k - 1].first + slices'[k - 1].count
      BY <2>4 DEF InOrderNoGap
    <3>1. CASE k \in 1 .. n
      <4>1. k # 1 => k - 1 \in 1 .. n
        BY <3>1, <2>4
      <4>2. slices[k].first = IF k = 1 THEN 0 ELSE slices[k - 1].first + slices[k - 1].count
        BY <3>1 DEF InOrderNoGap
      <4> QED BY <2>4, <3>1, <4>1, <4>2
    <3>2. CASE k = n + 1
      <4>1. slices'[k].first = Covered
        BY <2>4, <3>2 DEF new
      <4>2. CASE n = 0
        <5>1. slices = <<>>
          BY <4>2, <2>3
        <5> QED BY <3>2, <4>1, <4>2, <5>1 DEF Covered
      <4>3. CASE n # 0
        <5>1. slices # <<>> /\ k - 1 = n /\ n \in 1 .. n /\ k # 1
          BY <3>2, <4>3, <2>3, <2>4
        <5> QED BY <4>1, <5>1, <2>4 DEF Covered
      <4> QED BY <4>2, <4>3
    <3> QED BY <2>4, <3>1, <3>2
  <2>7. HasFrameToSend' => \A k \in 1 .. n + 1 : slices'[k].count = Capacity
    <3> SUFFICES ASSUME HasFrameToSend', NEW k \in 1 .. n + 1
                 PROVE  slices'[k].count = Capacity
      OBVIOUS
    <3>1. FrameCount = Capacity
      BY <2>1, <2>2 DEF HasFrameToSend
    <3>2. CASE k \in 1 .. n
      BY <2>1, <2>4, <3>2
    <3>3. CASE k = n + 1
      BY <2>4, <3>1, <3>3 DEF new
    <3> QED BY <2>4, <3>2, <3>3
  <2>8. Capacity' = Capacity
    BY DEF Capacity, UsablePayload
  <2> QED
    BY <2>1, <2>2, <2>4, <2>5, <2>6, <2>7, <2>8 DEF SliceSet
<1>3. CASE LeaveLoop
  <2>1. HasFrameToSend /\ Capacity > 0 => sentCount > MaxTx
    BY <1>3, BuiltFrame DEF LeaveLoop, LoopGoesOn
  <2> QED
    BY <1>3, <2>1 DEF LeaveLoop, codecVars, Covered, InOrderNoGap, HasFrameToSend
<1>4. CASE EndCycle \/ UNCHANGED vars
  BY <1>4 DEF EndCycle, vars, codecVars, Covered, InOrderNoGap, HasFrameToSend
<1> QED BY <1>1, <1>2, <1>3, <1>4 DEF Next

LEMMA LoopInvariance == Spec => []LoopInv
  BY LoopInit, LoopStep, PTL DEF Spec

(***************************************************************************)
(* Type correctness: the offset never passes the end of its batch, every   *)
(* frame carries at least one measurement, and no cycle sends more than one*)
(* frame above the limit (app.cpp:147-152).                                *)
(***************************************************************************)
THEOREM TypeCorrect == Spec => []TypeOK
<1>1. LoopInv => TypeOK
  BY DEF LoopInv
<1> QED BY <1>1, LoopInvariance, PTL

(***************************************************************************)
(* The frames of a cycle carry the batch from its start, in order, without *)
(* a gap (lora_frame_codec.cpp, encode_data_frame).                        *)
(***************************************************************************)
THEOREM NoGap == Spec => []InOrderNoGap
<1>1. LoopInv => InOrderNoGap
  BY DEF LoopInv
<1> QED BY <1>1, LoopInvariance, PTL

(***************************************************************************)
(* A cycle drops measurements only when it has sent exactly one frame more *)
(* than max_tx_frames_per_cycle, each of them full (app.cpp:141-175).      *)
(***************************************************************************)
THEOREM DropsAtLimit == Spec => []DropsOnlyAtLimit
<1>1. LoopInv => DropsOnlyAtLimit
  BY DEF LoopInv, TypeOK, DropsOnlyAtLimit
<1> QED BY <1>1, LoopInvariance, PTL

(***************************************************************************)
(* A frame with its tag is never longer than the radio takes at the        *)
(* spreading factor (lora_frame_codec.cpp, app.cpp:152).                   *)
(***************************************************************************)
THEOREM EveryFrameFits == Spec => []FrameFits
<1>1. TypeOK => FrameFits
  <2> SUFFICES ASSUME TypeOK, BuildResult > 0
               PROVE  BuildResult + AuthTagSize <= MaxPayload
    BY DEF FrameFits
  <2>1. /\ BuildResult = DataHeader + FrameCount * MeasurementSize
        /\ FrameCount \in Nat /\ FrameCount <= Capacity
    BY BuiltOnly, BuiltFrame DEF TypeOK
  <2>2. /\ Capacity \in Nat
        /\ DataHeader + Capacity * MeasurementSize + AuthTagSize <= UsablePayload
    BY BuiltOnly, CapacityFits
  <2> QED
    BY <2>1, <2>2
       DEF DataHeader, HeaderSize, AuthTagSize, MeasurementSize, UsablePayload
<1> QED BY <1>1, TypeCorrect, PTL
===============================================================================
