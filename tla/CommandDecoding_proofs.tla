------------------------ MODULE CommandDecoding_proofs ------------------------
(***************************************************************************)
(* What decode() answers and what it has done by then, for frames of any   *)
(* length, all ids and all commands.                                       *)
(***************************************************************************)
EXTENDS CommandDecoding, SequenceTheorems, WellFoundedInduction, TLAPS

USE DecodingAssumption, ProtocolAssumption

-----------------------------------------------------------------------------
(* The first turn of a loop at which something happens.                    *)

NatLess == {pair \in Nat \X Nat : pair[1] < pair[2]}

LEMMA NatLessWellFounded == IsWellFoundedOn(NatLess, Nat)
  BY NatLessThanWellFounded DEF NatLess, OpToRel

LEMMA LeastTurn ==
    ASSUME NEW T, T \subseteq Nat, T # {}
    PROVE  \E least \in T : \A n \in T : least <= n
<1>1. PICK least \in T : \A n \in T : ~(<<n, least>> \in NatLess)
  BY NatLessWellFounded, WFMin
<1>2. \A n \in T : ~(n < least)
  BY <1>1 DEF NatLess
<1>3. \A n \in T : n \in Nat /\ least \in Nat
  OBVIOUS
<1>4. \A n \in T : least <= n
  BY <1>2, <1>3
<1> QED BY <1>4

-----------------------------------------------------------------------------
(* Frames and what the handlers return.                                    *)

\* The commands of a body, and what its other fields are.
LEMMA BodyShape ==
    ASSUME NEW body \in Bodies
    PROVE  /\ body.count \in Nat /\ Len(body.cmds) \in Nat
           /\ \A i \in 1 .. Len(body.cmds) : body.cmds[i] \in Commands
<1>1. PICK n \in 0 .. MaxCommands : body.cmds \in [1 .. n -> Commands]
  BY DEF Bodies
<1>2. body.cmds \in Seq(Commands)
  BY <1>1, SeqDef
<1>3. body.count \in Nat
  BY DEF Bodies
<1> QED BY <1>2, <1>3

\* A frame whose header is accepted is a CONFIG frame to this node.
LEMMA AcceptedHeader ==
    ASSUME frame \in Frames \cup Strays, HeaderResult(frame) = "OK"
    PROVE  frame \in Frames /\ frame.body \in Bodies /\ frame.id = config.id
<1>1. frame.body # NoBody /\ frame.id = config.id
  BY DEF HeaderResult
<1>2. frame \in Frames
  BY <1>1 DEF Strays
<1> QED BY <1>1, <1>2 DEF Frames

LEMMA HeaderType == HeaderResult(frame) \in Results
  BY DEF HeaderResult, Results

LEMMA PayloadType ==
    ASSUME NEW enc \in 0 .. 3
    PROVE  PayloadSize(enc) \in Nat /\ PayloadSize(enc) # 8
<1>1. enc = 0 \/ enc = 1 \/ enc = 2 \/ enc = 3
  OBVIOUS
<1> QED BY <1>1 DEF PayloadSize

LEMMA HandlerType ==
    ASSUME NEW op \in Dispatched, NEW size \in Nat
    PROVE  /\ HandlerResult(op, size) \in Results
           /\ op = SetCombinedId => HandlerResult(op, size) # "OK"
           /\ size # 8 /\ HandlerResult(op, size) = "OK" => op = SamplingInterval
  BY DEF HandlerResult, Results, Dispatched, SetCombinedId, SamplingInterval, Reboot,
     SetUnixTime, LoraConfig

\* No turn of the loop ends with anything but a result, a SET_COMBINED_ID never
\* with OK (it is the last command that is run), and only a SAMPLING_INTERVAL does.
LEMMA TurnFacts ==
    ASSUME NEW body \in Bodies, NEW i \in Nat, 1 <= i
    PROVE  /\ TurnResult(body, i) \in Results
           /\ i <= Len(body.cmds) /\ body.cmds[i].op = SetCombinedId
                => TurnResult(body, i) # "OK"
           /\ TurnResult(body, i) = "OK" =>
                i <= Len(body.cmds) /\ body.cmds[i].op = SamplingInterval
<1>1. CASE i <= Len(body.cmds)
  <2> DEFINE cmd == body.cmds[i]
  <2>1. cmd \in [op : Ops, enc : 0 .. 3, arg : Ids]
    <3>1. i \in 1 .. Len(body.cmds)
      BY <1>1, BodyShape
    <3>2. cmd \in Commands
      BY <3>1, BodyShape
    <3> QED BY <3>2 DEF Commands
  <2> HIDE DEF cmd
  <2>2. PayloadSize(cmd.enc) \in Nat /\ PayloadSize(cmd.enc) # 8
    BY <2>1, PayloadType
  <2>3. /\ CommandResult(cmd) \in Results
        /\ cmd.op = SetCombinedId => CommandResult(cmd) # "OK"
        /\ CommandResult(cmd) = "OK" => cmd.op = SamplingInterval
    BY <2>1, <2>2, HandlerType DEF CommandResult, Results
  <2> QED BY <1>1, <2>3 DEF TurnResult, cmd
<1>2. CASE ~(i <= Len(body.cmds))
  BY <1>2 DEF TurnResult, Results
<1> QED BY <1>1, <1>2

\* The loop stops at one turn.
LEMMA StopsOnce ==
    ASSUME NEW body, NEW i \in Nat, NEW j \in Nat, 1 <= i, 1 <= j,
           StopsAt(body, i), StopsAt(body, j)
    PROVE  i = j
<1>1. \A k, m \in Nat : 1 <= k /\ k < m => k \in 1 .. (m - 1)
  OBVIOUS
<1>2. ~(i < j) /\ ~(j < i)
  BY <1>1 DEF StopsAt, Reaches
<1> QED BY <1>2

\* A loop that does not stop runs every command to OK.
LEMMA NeverStopped ==
    ASSUME NEW body \in Bodies, \A i \in 1 .. body.count : ~StopsAt(body, i)
    PROVE  \A i \in 1 .. body.count : TurnResult(body, i) = "OK" /\ Reaches(body, i)
<1> DEFINE bad == {i \in 1 .. body.count : TurnResult(body, i) # "OK"}
<1>1. body.count \in Nat
  BY BodyShape
<1>2. bad = {}
  <2> SUFFICES ASSUME bad # {} PROVE FALSE
    OBVIOUS
  <2>1. bad \subseteq Nat
    BY <1>1
  <2> HIDE DEF bad
  <2>2. PICK least \in bad : \A i \in bad : least <= i
    BY <2>1, LeastTurn
  <2>3. least \in 1 .. body.count /\ TurnResult(body, least) # "OK"
    BY <2>2 DEF bad
  <2>4. \A i \in 1 .. (least - 1) : i \in 1 .. body.count /\ ~(least <= i)
    BY <1>1, <2>3
  <2>5. Reaches(body, least)
    BY <2>2, <2>4 DEF Reaches, bad
  <2> QED BY <2>3, <2>5 DEF StopsAt
<1>3. \A i \in 1 .. body.count : TurnResult(body, i) = "OK"
  BY <1>2
<1>4. \A i \in 1 .. body.count : \A j \in 1 .. (i - 1) : j \in 1 .. body.count
  BY <1>1
<1> QED BY <1>3, <1>4 DEF Reaches

-----------------------------------------------------------------------------
(* decode().                                                               *)

\* A SET_COMBINED_ID handled with success is the turn the loop stopped at.
LEMMA SetterAnswers ==
    ASSUME frame \in Frames \cup Strays, NEW i, HandledOk(frame, i),
           frame.body.cmds[i].op = SetCombinedId
    PROVE  DecodeResult(frame) = "OK_AND_REBOOT_NEED"
<1> DEFINE body == frame.body
           turns == 1 .. body.count
<1>1. HeaderResult(frame) = "OK" /\ body \in Bodies
  BY AcceptedHeader DEF HandledOk
<1>2. i \in turns /\ i <= Len(body.cmds) /\ i \in Nat /\ 1 <= i
  BY <1>1, BodyShape DEF HandledOk
<1>3. TurnResult(body, i) = "OK_AND_REBOOT_NEED" /\ StopsAt(body, i)
  BY <1>1, <1>2, TurnFacts DEF HandledOk, StopsAt
<1>4. \A j \in turns : StopsAt(body, j) => j = i
  <2>1. \A j \in turns : j \in Nat /\ 1 <= j
    BY <1>1, BodyShape
  <2> QED BY <1>2, <1>3, <2>1, StopsOnce
<1>5. (CHOOSE j \in turns : StopsAt(body, j)) = i
  BY <1>2, <1>3, <1>4
<1> QED BY <1>1, <1>2, <1>3, <1>5 DEF DecodeResult

LEMMA DecodeType ==
    ASSUME frame \in Frames \cup Strays
    PROVE  DecodeResult(frame) \in Results
<1> DEFINE turns == 1 .. frame.body.count
           stop == CHOOSE i \in turns : StopsAt(frame.body, i)
<1>1. CASE HeaderResult(frame) # "OK"
  BY <1>1, HeaderType DEF DecodeResult
<1>2. CASE HeaderResult(frame) = "OK" /\ \E i \in turns : StopsAt(frame.body, i)
  <2>1. frame.body \in Bodies
    BY <1>2, AcceptedHeader
  <2>2. stop \in turns
    BY <1>2
  <2>3. stop \in Nat /\ 1 <= stop
    BY <2>1, <2>2, BodyShape
  <2>4. TurnResult(frame.body, stop) \in Results
    BY <2>1, <2>3, TurnFacts
  <2> QED BY <1>2, <2>4 DEF DecodeResult
<1>3. CASE HeaderResult(frame) = "OK" /\ ~\E i \in turns : StopsAt(frame.body, i)
  BY <1>3 DEF DecodeResult, Results
<1> QED BY <1>1, <1>2, <1>3

\* What decode() makes of the configuration.
LEMMA DecodeEffect ==
    ASSUME TypeOK, frame # NoFrame, Decode(frame)
    PROVE  \/ config' = config
           \/ \E i \in 1 .. Len(frame.body.cmds) :
                 /\ HandledOk(frame, i) /\ frame.body.cmds[i].op = SetCombinedId
                 /\ frame.body.cmds[i].arg \in Ids
                 /\ config' = [config EXCEPT !.id = frame.body.cmds[i].arg]
<1> DEFINE setters == {i \in 1 .. frame.body.count :
              HandledOk(frame, i) /\ frame.body.cmds[i].op = SetCombinedId}
           first == CHOOSE i \in setters : TRUE
<1>1. frame \in Frames \cup Strays
  BY DEF TypeOK
<1>2. config' = IF setters = {} THEN config
                ELSE [config EXCEPT !.id = frame.body.cmds[first].arg]
  BY DEF Decode
<1>3. CASE setters # {}
  <2>1. first \in setters
    BY <1>3
  <2>2. /\ HandledOk(frame, first) /\ frame.body.cmds[first].op = SetCombinedId
        /\ first \in 1 .. frame.body.count /\ first <= Len(frame.body.cmds)
    BY <2>1 DEF HandledOk
  <2> HIDE DEF first, setters
  <2>3. frame.body \in Bodies
    BY <1>1, <2>2, AcceptedHeader DEF HandledOk
  <2>4. first \in 1 .. Len(frame.body.cmds)
    BY <2>2, <2>3, BodyShape
  <2>5. frame.body.cmds[first].arg \in Ids
    BY <2>3, <2>4, BodyShape DEF Commands
  <2> QED BY <1>2, <1>3, <2>2, <2>4, <2>5
<1> QED BY <1>2, <1>3

LEMMA TypeStep == TypeOK /\ [Next]_vars => TypeOK'
<1> SUFFICES ASSUME TypeOK, [Next]_vars PROVE TypeOK'
  OBVIOUS
<1>1. CASE Receive
  BY <1>1 DEF Receive, TypeOK
<1>2. CASE Handle
  <2>1. frame # NoFrame /\ Decode(frame) /\ frame \in Frames \cup Strays
    BY <1>2 DEF Handle, TypeOK
  <2>2. config' \in [id : Ids, interval : 0 .. 255]
    BY <2>1, DecodeEffect DEF TypeOK
  <2>3. result' \in Results /\ frame' = NoFrame
    BY <1>2, <2>1, DecodeType DEF Handle
  <2> QED BY <2>2, <2>3 DEF TypeOK
<1>3. CASE UNCHANGED vars
  BY <1>3 DEF vars, TypeOK
<1> QED BY <1>1, <1>2, <1>3 DEF Next

(***************************************************************************)
(* Type correctness: decode() answers every frame with one of the results  *)
(* and leaves an id of the network (lora_protocol_handler.cpp:66-151).     *)
(***************************************************************************)
THEOREM TypeCorrect == Spec => []TypeOK
<1>1. Init => TypeOK
  BY DEF Init, TypeOK
<1> QED BY <1>1, TypeStep, PTL DEF Spec

(***************************************************************************)
(* A frame answered with an error has changed nothing, although handlers   *)
(* run before the rest of the frame is parsed: the one that changes        *)
(* anything is the last one to run                                         *)
(* (lora_protocol_handler.cpp, decode and handle_set_combined_id).         *)
(***************************************************************************)
THEOREM ErrorChangesNothing == Spec => RejectedChangesNothing
<1>1. TypeOK /\ [Next]_vars => [Handle /\ ~Accepted(result') => config' = config]_vars
  <2> SUFFICES ASSUME TypeOK, Handle, ~Accepted(result')
               PROVE  config' = config
    OBVIOUS
  <2>1. frame # NoFrame /\ Decode(frame) /\ frame \in Frames \cup Strays
    BY DEF Handle, TypeOK
  <2>2. DecodeResult(frame) # "OK_AND_REBOOT_NEED"
    BY DEF Handle, Accepted
  <2> QED BY <2>1, <2>2, DecodeEffect, SetterAnswers
<1> QED BY <1>1, TypeCorrect, PTL DEF Spec, RejectedChangesNothing

(***************************************************************************)
(* OK is only answered to a frame consumed to its last byte, all of whose  *)
(* commands are SAMPLING_INTERVAL and were handled with success, and it    *)
(* changes nothing (lora_protocol_handler.cpp:45-80, 104-117).             *)
(***************************************************************************)
THEOREM OkIsEmpty == Spec => OkChangesNothing
<1> DEFINE Consumed == frame.body.count = Len(frame.body.cmds) /\ frame.body.tail = 0
           Intervals == \A i \in 1 .. frame.body.count :
                           HandledOk(frame, i) /\ frame.body.cmds[i].op = SamplingInterval
<1>1. TypeOK /\ [Next]_vars
        => [result' = "OK" => Consumed /\ Intervals /\ config' = config]_vars
  <2> SUFFICES ASSUME TypeOK, Next, result' = "OK"
               PROVE  Consumed /\ Intervals /\ config' = config
    OBVIOUS
  <2>1. Handle
    BY DEF Next, Receive
  <2>2. DecodeResult(frame) = "OK" /\ frame \in Frames \cup Strays
    BY <2>1 DEF Handle, TypeOK
  <2>3. HeaderResult(frame) = "OK"
    BY <2>2 DEF DecodeResult
  <2>4. frame.body \in Bodies
    BY <2>2, <2>3, AcceptedHeader
  <2>5. \A i \in 1 .. frame.body.count : ~StopsAt(frame.body, i)
    BY <2>2, <2>3 DEF DecodeResult, StopsAt
  <2>6. Consumed
    BY <2>2, <2>3, <2>5 DEF DecodeResult
  <2>7. \A i \in 1 .. frame.body.count : TurnResult(frame.body, i) = "OK" /\ Reaches(frame.body, i)
    BY <2>4, <2>5, NeverStopped
  <2>8. \A i \in 1 .. frame.body.count :
           /\ i <= Len(frame.body.cmds)
           /\ frame.body.cmds[i].op = SamplingInterval
    <3>1. \A i \in 1 .. frame.body.count : i \in Nat /\ 1 <= i
      BY <2>4, BodyShape
    <3> QED BY <2>4, <2>7, <3>1, TurnFacts
  <2>9. Intervals
    BY <2>3, <2>7, <2>8 DEF HandledOk
  <2>10. config' = config
    <3>1. frame # NoFrame /\ Decode(frame)
      BY <2>1 DEF Handle
    <3> QED BY <2>2, <3>1, DecodeEffect, SetterAnswers
  <2> QED BY <2>6, <2>9, <2>10
<1> QED BY <1>1, TypeCorrect, PTL DEF Spec, OkChangesNothing

(***************************************************************************)
(* Nothing but a SET_COMBINED_ID command in a CONFIG frame to this node    *)
(* changes its id (lora_protocol_handler.cpp, handle_set_combined_id).     *)
(***************************************************************************)
THEOREM IdByCommand == Spec => IdOnlyByCommand
<1> DEFINE Commanded ==
      /\ frame.type = "CONFIG" /\ frame.id = config.id
      /\ \E i \in 1 .. Len(frame.body.cmds) :
           /\ frame.body.cmds[i].op = SetCombinedId
           /\ frame.body.cmds[i].arg = config'.id
<1>1. TypeOK /\ [Next]_vars => [config'.id # config.id => Commanded]_vars
  <2> SUFFICES ASSUME TypeOK, Next, config'.id # config.id
               PROVE  Commanded
    OBVIOUS
  <2>1. Handle
    BY DEF Next, Receive
  <2>2. frame # NoFrame /\ Decode(frame) /\ frame \in Frames \cup Strays
    BY <2>1 DEF Handle, TypeOK
  <2>3. PICK i \in 1 .. Len(frame.body.cmds) :
           /\ HandledOk(frame, i) /\ frame.body.cmds[i].op = SetCombinedId
           /\ config' = [config EXCEPT !.id = frame.body.cmds[i].arg]
    BY <2>2, DecodeEffect
  <2>4. frame \in Frames /\ frame.id = config.id
    BY <2>2, <2>3, AcceptedHeader DEF HandledOk
  <2>5. config'.id = frame.body.cmds[i].arg
    BY <2>3 DEF TypeOK
  <2> QED BY <2>3, <2>4, <2>5 DEF Frames
<1> QED BY <1>1, TypeCorrect, PTL DEF Spec, IdOnlyByCommand
===============================================================================
