----------------------------- MODULE Auth_proofs -----------------------------
(***************************************************************************)
(* What Auth guarantees, for every width of the counters:                  *)
(*   - the window around the node's transmit counter in which it recovers  *)
(*     the counter of a frame, for every bound on the counters;            *)
(*   - signing and verifying through any sequence of cycles, id changes,   *)
(*     received frames and losses of power, for every set of ids and every *)
(*     threshold.                                                          *)
(***************************************************************************)
EXTENDS AuthHistory, CounterWindow, SecurityCounter_proofs

USE CounterAssumption, WindowAssumption, AuthAssumption, HistoryAssumption

-----------------------------------------------------------------------------
(* The window.                                                             *)

\* Both counters stay within the bound, and "seen" is up to date.
WindowInv ==
    /\ nodeTx \in 1 .. MaxCount
    /\ gwCtr \in 1 .. MaxCount
    /\ seen = Reconstruct(Low(gwCtr), nodeTx)

LEMMA SuccBounded ==
    ASSUME NEW n \in 1 .. MaxCount, n < MaxCount
    PROVE  Succ(n) \in 1 .. MaxCount
<1>1. (n + 1) % CtrMod = n + 1
  BY ModSmall
<1> QED BY <1>1 DEF Succ

LEMMA WindowInvariance == WindowSpec => []WindowInv
<1>1. WindowInit => WindowInv
  BY DEF WindowInit, WindowInv
<1>2. WindowInv /\ [WindowNext]_windowVars => WindowInv'
  <2> SUFFICES ASSUME WindowInv, [WindowNext]_windowVars PROVE WindowInv'
    OBVIOUS
  <2> USE DEF WindowInv
  <2>1. CASE NodeSends
    BY <2>1, SuccBounded DEF NodeSends
  <2>2. CASE GatewaySends
    BY <2>2, SuccBounded DEF GatewaySends
  <2>3. CASE NodeBoots
    BY <2>3 DEF NodeBoots
  <2>4. CASE UNCHANGED windowVars
    BY <2>4 DEF windowVars
  <2> QED BY <2>1, <2>2, <2>3, <2>4 DEF WindowNext
<1> QED BY <1>1, <1>2, PTL DEF WindowSpec

(***************************************************************************)
(* Type correctness; in particular the reconstruction stays a counter.     *)
(***************************************************************************)
THEOREM WindowTypes == WindowSpec => []WindowTypeOK
<1>1. WindowInv => WindowTypeOK
  <2> SUFFICES ASSUME WindowInv PROVE WindowTypeOK
    OBVIOUS
  <2>1. Low(gwCtr) \in Nat
    BY Split DEF WindowInv, LowByte
  <2>2. seen \in Counter
    BY <2>1, ReconstructType DEF WindowInv
  <2> QED BY <2>2 DEF WindowInv, WindowTypeOK, Counter
<1> QED BY <1>1, WindowInvariance, PTL

(***************************************************************************)
(* The node recovers the counter of a gateway frame exactly in the window  *)
(* around its own transmit counter (lora_auth.cpp:98).                     *)
(***************************************************************************)
THEOREM Exactness == WindowSpec => []ExactInWindow
<1>1. WindowInv => ExactInWindow
  BY WindowExact DEF WindowInv, ExactInWindow
<1> QED BY <1>1, WindowInvariance, PTL

(***************************************************************************)
(* The ACK of a frame is recognised unless the frame's counter is the last *)
(* of its block (lora_auth.cpp:138-147).                                   *)
(***************************************************************************)
THEOREM BlockEnds == WindowSpec => []OnlyBlockEndLost
<1>1. WindowInv => OnlyBlockEndLost
  <2> SUFFICES ASSUME WindowInv PROVE OnlyBlockEndLost
    OBVIOUS
  <2>1. nodeTx \in Nat /\ nodeTx > 0 /\ nodeTx - 1 \in Nat /\ nodeTx + LowMod < CtrMod
    BY DEF WindowInv
  <2>2. Reconstruct(Low(nodeTx - 1), nodeTx) = nodeTx - 1 <=> InWindow(nodeTx - 1, nodeTx)
    BY <2>1, WindowExact
  <2>3. Low(nodeTx) \in 0 .. (LowMod - 1)
    BY <2>1, Split DEF LowByte
  <2>4. Low(nodeTx - 1) = IF Low(nodeTx) = 0 THEN LowMod - 1 ELSE Low(nodeTx) - 1
    BY <2>1, LowBefore
  <2>5. InWindow(nodeTx - 1, nodeTx) <=> Low(nodeTx) # 0
    BY <2>1, <2>3 DEF InWindow
  <2> QED BY <2>2, <2>3, <2>4, <2>5 DEF OnlyBlockEndLost
<1> QED BY <1>1, WindowInvariance, PTL

-----------------------------------------------------------------------------
(* Signing, through changes of the id and losses of power.                 *)

LEMMA CounterFacts ==
    /\ 0 \in Counter /\ 1 \in Counter
    /\ \A n \in 1 .. (MaxCtr - 1) : Succ(n) = n + 1 /\ Succ(n) \in Counter
    /\ \A n \in 1 .. MaxCtr : n \in Counter
<1>1. ASSUME NEW n \in 1 .. (MaxCtr - 1)
      PROVE  Succ(n) = n + 1
  BY ModSmall DEF Succ
<1> QED BY <1>1 DEF Counter

\* The inductive invariant: the types, and no signed tag is ahead of the
\* transmit counter.  Tags of every key count, for the key may come back.
IInv ==
    /\ TypeOK
    /\ \A t \in signed : t.ctr < nextTx

LEMMA TypeInit == Init => TypeOK
  BY CounterFacts DEF Init, TypeOK, AuthConfig, Keys

LEMMA DownlinkTags == Downlinks \subseteq Tags
  BY DEF Downlinks, Tags, Tag, Keys

\* One step down: the type invariant is kept by each action.
LEMMA TypeStep == TypeOK /\ [Next]_vars => TypeOK'
<1> SUFFICES ASSUME TypeOK, [Next]_vars PROVE TypeOK'
  OBVIOUS
<1> USE DEF TypeOK
<1>1. CASE StartCycle
  <2>1. config.id \in Ids
    BY DEF AuthConfig
  <2>2. DeviceKey(config.id) \in Keys
    BY <2>1 DEF Keys
  <2>3. [config EXCEPT !.txSec = 1] \in AuthConfig
    BY CounterFacts DEF AuthConfig
  <2>4. accepted' \subseteq Acceptances
    BY <1>1 DEF StartCycle, Acceptances
  <2> QED BY <1>1, <2>1, <2>2, <2>3, <2>4, CounterFacts DEF StartCycle, InitKey, authVars
<1>2. CASE SignFrame
  <2>1. nextTx \in 1 .. (MaxCtr - 1) /\ nextTx' = nextTx + 1 /\ nextTx' \in Counter
    BY <1>2, CounterFacts DEF SignFrame, Sign
  <2>2. config' \in AuthConfig
    BY <1>2, <2>1 DEF SignFrame, Sign, AuthConfig
  <2>3. SignedTag \in Tags
    BY CounterFacts DEF SignedTag, Tag, Tags
  <2>4. signed' \subseteq Tags
    BY <1>2, <2>3 DEF SignFrame
  <2> QED BY <1>2, <2>1, <2>2, <2>4 DEF SignFrame, Sign, keyVars, rxVars
<1>3. ASSUME NEW tag \in Downlinks, Receive(tag)
      PROVE  TypeOK'
  <2>1. tag \in Tags
    BY DownlinkTags
  <2>2. Low(tag.ctr) \in Nat
    BY <2>1, Split DEF Tags, Counter, LowByte
  <2>3. RxCounter(Low(tag.ctr)) \in Counter
    BY <2>2, ReconstructType DEF RxCounter
  <2>4. RxBase \in Counter
    BY CounterFacts DEF RxBase
  <2>5. lastRx' \in Counter /\ lastRxTime' \in 0 .. MaxNow
    BY <1>3, <2>3, <2>4 DEF Receive, VerifyFrame
  <2>6. config' \in AuthConfig
    BY <1>3, <2>5 DEF Receive, VerifyFrame, AuthConfig
  <2>7. accepted' \subseteq Acceptances
    <3>1. [tag |-> tag, at |-> now, kept |-> TRUE] \in Acceptances
      BY <2>1 DEF Acceptances
    <3> QED BY <1>3, <3>1 DEF Receive
  <2> QED BY <1>3, <2>5, <2>6, <2>7 DEF Receive, VerifyFrame, keyVars
<1>4. ASSUME NEW i \in Ids, SetId(i)
      PROVE  TypeOK'
  BY <1>4 DEF SetId, authVars, AuthConfig
<1>5. CASE TimePasses
  BY <1>5 DEF TimePasses, authVars
<1>6. CASE PowerLoss
  BY <1>6, CounterFacts DEF PowerLoss, AuthReset, Keys
<1>7. CASE UNCHANGED vars
  BY <1>7 DEF vars, authVars
<1> QED BY <1>1, <1>2, <1>3, <1>4, <1>5, <1>6, <1>7 DEF Next

(***************************************************************************)
(* Type correctness: the counters stay within their bounds whatever is     *)
(* received, and the configuration Auth writes to stays a configuration.   *)
(***************************************************************************)
THEOREM TypeCorrect == Spec => []TypeOK
  BY TypeInit, TypeStep, PTL DEF Spec

LEMMA Invariance == Spec => []IInv
<1>1. Init => IInv
  BY TypeInit DEF Init, IInv
<1>2. IInv /\ [Next]_vars => IInv'
  <2> SUFFICES ASSUME IInv, [Next]_vars PROVE IInv'
    OBVIOUS
  <2>1. TypeOK /\ TypeOK'
    BY TypeStep DEF IInv
  <2> USE DEF IInv
  <2>2. CASE StartCycle
    BY <2>1, <2>2 DEF StartCycle, InitKey, authVars
  <2>3. CASE SignFrame
    <3>1. nextTx' = nextTx + 1 /\ nextTx \in Int
      BY <2>1, <2>3, CounterFacts DEF SignFrame, Sign, TypeOK
    <3>2. SignedTag.ctr = nextTx
      BY DEF SignedTag, Tag
    <3>3. \A t \in signed : t.ctr \in Int
      BY <2>1 DEF TypeOK, Tags, Counter
    <3> QED BY <2>1, <2>3, <3>1, <3>2, <3>3 DEF SignFrame
  <2>4. ASSUME NEW tag \in Downlinks, Receive(tag)
        PROVE  IInv'
    BY <2>1, <2>4 DEF Receive, VerifyFrame
  <2>5. ASSUME NEW i \in Ids, SetId(i)
        PROVE  IInv'
    BY <2>1, <2>5 DEF SetId, authVars
  <2>6. CASE TimePasses
    BY <2>1, <2>6 DEF TimePasses, authVars
  <2>7. CASE PowerLoss
    BY <2>1, <2>7 DEF PowerLoss
  <2>8. CASE UNCHANGED vars
    BY <2>1, <2>8 DEF vars, authVars
  <2> QED BY <2>2, <2>3, <2>4, <2>5, <2>6, <2>7, <2>8 DEF Next
<1> QED BY <1>1, <1>2, PTL DEF Spec

(***************************************************************************)
(* No key and counter are used for two frames of one power-on, although    *)
(* init_key() returns to earlier keys (lora_auth.cpp:17-32).               *)
(***************************************************************************)
THEOREM TagsUnique == Spec => NoTagReuse
<1>1. IInv /\ [Next]_vars => [SignFrame => SignedTag \notin signed]_vars
  BY DEF IInv, TypeOK, SignedTag, Tag
<1> QED BY <1>1, Invariance, PTL DEF Spec, NoTagReuse

-----------------------------------------------------------------------------
(* The receive direction.                                                  *)

\* Accepted under the key in use, and not longer ago than the timeout.
Recent(a) == a.kept /\ now - a.at <= ResetTimeout

\* Every acceptance under the key in use that is not older than the timeout is
\* covered by the receive counter.
ReplayInv ==
    /\ lastRxTime <= now
    /\ \A a \in accepted :
          /\ a.kept => a.at <= lastRxTime
          /\ Recent(a) => lastRx # 0 /\ a.tag.ctr <= lastRx
    /\ NewestIsLargest

LEMMA ReplayInit == Init => ReplayInv
  BY DEF Init, ReplayInv, NewestIsLargest

LEMMA AcceptedTypes ==
    ASSUME TypeOK, NEW a \in accepted
    PROVE  /\ a.tag \in Tags /\ a.tag.ctr \in Nat /\ a.at \in Nat /\ a.kept \in BOOLEAN
           /\ a = [tag |-> a.tag, at |-> a.at, kept |-> a.kept]
  BY DEF TypeOK, Acceptances, Tags, Counter

\* A frame that verifies is newer than every acceptance within the timeout.
LEMMA VerifiedIsNewer ==
    ASSUME TypeOK, ReplayInv, NEW tag \in Tags, Verifies(Low(tag.ctr), tag)
    PROVE  /\ tag.ctr = RxCounter(Low(tag.ctr)) /\ tag.ctr \in Nat /\ tag.ctr # 0
           /\ \A a \in accepted : Recent(a) => a.tag.ctr < tag.ctr
<1>1. tag.ctr = RxCounter(Low(tag.ctr)) /\ tag.ctr \in Nat
  BY DEF Verifies, Tag, Tags, Counter
<1>2. ASSUME NEW a \in accepted, Recent(a)
      PROVE  ~TimedOut /\ RxBase = lastRx /\ lastRx # 0 /\ a.tag.ctr <= lastRx
  BY <1>2, AcceptedTypes DEF ReplayInv, Recent, TimedOut, RxBase, TypeOK
<1>3. tag.ctr # 0
  <2>1. CASE RxBase = 0
    <3>1. Low(tag.ctr) = 1
      BY <2>1 DEF Verifies, Fresh
    <3>2. Low(0) = 0
      BY ModSmall DEF Low
    <3> QED BY <3>1, <3>2
  <2>2. CASE RxBase # 0
    BY <1>1, <2>2 DEF Verifies, Fresh, RxBase, TypeOK, Counter
  <2> QED BY <2>1, <2>2
<1>4. ASSUME NEW a \in accepted, Recent(a)
      PROVE  a.tag.ctr < tag.ctr
  <2>1. RxCounter(Low(tag.ctr)) > lastRx
    BY <1>2, <1>4 DEF Verifies, Fresh
  <2> QED BY <1>1, <1>2, <1>4, <2>1, AcceptedTypes DEF TypeOK, Counter
<1> QED BY <1>1, <1>3, <1>4

LEMMA ReplayStep == TypeOK /\ TypeOK' /\ ReplayInv /\ [Next]_vars => ReplayInv'
<1> SUFFICES ASSUME TypeOK, TypeOK', ReplayInv, [Next]_vars PROVE ReplayInv'
  OBVIOUS
<1>1. CASE StartCycle
  <2>1. CASE config.id = lastDerivedId
    BY <1>1, <2>1 DEF StartCycle, InitKey, authVars, ReplayInv, Recent, NewestIsLargest
  <2>2. CASE config.id # lastDerivedId
    <3>1. accepted' = {[a EXCEPT !.kept = FALSE] : a \in accepted}
      BY <1>1, <2>2 DEF StartCycle
    <3>2. \A a \in accepted' : ~a.kept
      BY <3>1, AcceptedTypes
    <3> QED
      BY <1>1, <2>2, <3>2 DEF StartCycle, InitKey, ReplayInv, Recent, NewestIsLargest, TypeOK
  <2> QED BY <2>1, <2>2
<1>2. CASE SignFrame
  BY <1>2 DEF SignFrame, Sign, keyVars, rxVars, ReplayInv, Recent, NewestIsLargest
<1>3. ASSUME NEW tag \in Downlinks, Receive(tag), Verifies(Low(tag.ctr), tag)
      PROVE  ReplayInv'
  <2> DEFINE new == [tag |-> tag, at |-> now, kept |-> TRUE]
  <2>1. tag \in Tags
    BY DownlinkTags
  <2>2. /\ tag.ctr = RxCounter(Low(tag.ctr)) /\ tag.ctr \in Nat /\ tag.ctr # 0
        /\ \A a \in accepted : Recent(a) => a.tag.ctr < tag.ctr
    BY <1>3, <2>1, VerifiedIsNewer
  <2>3. /\ lastRx' = tag.ctr /\ lastRxTime' = now /\ now' = now
        /\ accepted' = {a \in accepted : a.tag # tag} \cup {new}
    BY <1>3, <2>2 DEF Receive, VerifyFrame
  <2>4. \A a \in accepted : a.at \in Nat /\ a.tag.ctr \in Nat /\ (a.kept => a.at <= now)
    BY AcceptedTypes DEF ReplayInv, TypeOK
  <2>5. \A a \in accepted' : a \in accepted \/ a = new
    BY <2>3
  <2>6. ASSUME NEW a \in accepted'
        PROVE  /\ a.kept => a.at <= lastRxTime'
               /\ Recent(a)' => lastRx' # 0 /\ a.tag.ctr <= lastRx'
    BY <2>2, <2>3, <2>4, <2>5 DEF Recent, TypeOK
  <2>7. ASSUME NEW a \in accepted', NEW b \in accepted', a.kept, b.kept,
               a.at < b.at, b.at - a.at <= ResetTimeout
        PROVE  a.tag.ctr < b.tag.ctr
    <3>1. a \in accepted
      BY <2>4, <2>5, <2>7 DEF TypeOK
    <3>2. CASE b \in accepted
      BY <2>7, <3>1, <3>2 DEF ReplayInv, NewestIsLargest
    <3>3. CASE b = new
      BY <2>2, <2>7, <3>1, <3>3 DEF Recent
    <3> QED BY <2>5, <3>2, <3>3
  <2> QED BY <2>3, <2>6, <2>7 DEF ReplayInv, NewestIsLargest, TypeOK
<1>4. ASSUME NEW tag \in Downlinks, Receive(tag), ~Verifies(Low(tag.ctr), tag)
      PROVE  ReplayInv'
  <2>1. /\ lastRx' = RxBase /\ lastRxTime' = (IF TimedOut THEN now ELSE lastRxTime)
        /\ now' = now /\ accepted' = accepted
    BY <1>4 DEF Receive, VerifyFrame
  <2>2. ASSUME NEW a \in accepted
        PROVE  /\ a.kept => a.at <= lastRxTime'
               /\ Recent(a)' => lastRx' # 0 /\ a.tag.ctr <= lastRx'
    BY <2>1, AcceptedTypes DEF Recent, RxBase, TimedOut, ReplayInv, TypeOK
  <2> QED BY <2>1, <2>2 DEF ReplayInv, NewestIsLargest, TypeOK
<1>5. ASSUME NEW i \in Ids, SetId(i)
      PROVE  ReplayInv'
  BY <1>5 DEF SetId, authVars, ReplayInv, Recent, NewestIsLargest
<1>6. CASE TimePasses
  <2>1. \A a \in accepted : Recent(a)' => Recent(a)
    BY <1>6, AcceptedTypes DEF TimePasses, Recent, TypeOK
  <2> QED BY <1>6, <2>1 DEF TimePasses, authVars, ReplayInv, NewestIsLargest, TypeOK
<1>7. CASE PowerLoss
  BY <1>7 DEF PowerLoss, AuthReset, ReplayInv, NewestIsLargest
<1>8. CASE UNCHANGED vars
  BY <1>8 DEF vars, authVars, ReplayInv, Recent, NewestIsLargest
<1> QED BY <1>1, <1>2, <1>3, <1>4, <1>5, <1>6, <1>7, <1>8 DEF Next

LEMMA ReplayInvariance == Spec => []ReplayInv
  BY TypeCorrect, ReplayInit, ReplayStep, PTL DEF Spec

(***************************************************************************)
(* The counters of the downlink frames accepted under one derivation of    *)
(* the key grow within the timeout (lora_auth.cpp:80-135).                 *)
(***************************************************************************)
THEOREM CountersGrow == Spec => []NewestIsLargest
<1>1. ReplayInv => NewestIsLargest
  BY DEF ReplayInv
<1> QED BY <1>1, ReplayInvariance, PTL

(***************************************************************************)
(* A downlink frame that was accepted is refused until the timeout has     *)
(* passed or a key was derived again, from whichever transmit counter its  *)
(* counter is reconstructed, and whatever was accepted under other keys    *)
(* in between (lora_auth.cpp:17-32, 80-135).                               *)
(***************************************************************************)
THEOREM ReplayBounded == Spec => []ReplayRefused
<1>1. TypeOK /\ ReplayInv => ReplayRefused
  <2> SUFFICES ASSUME TypeOK, ReplayInv, NEW a \in accepted, Recent(a),
                      Verifies(Low(a.tag.ctr), a.tag)
               PROVE  FALSE
    BY DEF ReplayRefused, Recent
  <2>1. a.tag \in Tags /\ a.tag.ctr \in Nat
    BY AcceptedTypes
  <2>2. a.tag.ctr < a.tag.ctr
    BY <2>1, VerifiedIsNewer
  <2> QED BY <2>1, <2>2
<1> QED BY <1>1, TypeCorrect, ReplayInvariance, PTL
==============================================================================
