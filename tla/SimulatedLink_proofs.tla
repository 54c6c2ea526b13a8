------------------------- MODULE SimulatedLink_proofs -------------------------
(***************************************************************************)
(* Node and simulated gateway, for every width of the counters, every      *)
(* number of retries, frames and cycles, every spreading factor and every  *)
(* set of frame lengths for which an ACK is due within the node's window.  *)
(***************************************************************************)
EXTENDS SimulatedLink, SecurityCounter_proofs

-----------------------------------------------------------------------------
(* Airtimes.                                                               *)

LEMMA SymbolValues ==
    /\ Air!SymbolUs(7) = 1024
    /\ Air!SymbolUs(8) = 2048
    /\ Air!SymbolUs(9) = 4096
    /\ Air!SymbolUs(10) = 8192
    /\ Air!SymbolUs(11) = 16384
    /\ Air!SymbolUs(12) = 32768
<1>1. Air!SymbolUs(7) = 1024
  <2>1. 2 ^ 7 = 128
    OBVIOUS
  <2> QED BY <2>1 DEF Air!SymbolUs
<1>2. Air!SymbolUs(8) = 2048
  <2>1. 2 ^ 8 = 256
    OBVIOUS
  <2> QED BY <2>1 DEF Air!SymbolUs
<1>3. Air!SymbolUs(9) = 4096
  <2>1. 2 ^ 9 = 512
    OBVIOUS
  <2> QED BY <2>1 DEF Air!SymbolUs
<1>4. Air!SymbolUs(10) = 8192
  <2>1. 2 ^ 10 = 1024
    OBVIOUS
  <2> QED BY <2>1 DEF Air!SymbolUs
<1>5. Air!SymbolUs(11) = 16384
  <2>1. 2 ^ 11 = 2048
    OBVIOUS
  <2> QED BY <2>1 DEF Air!SymbolUs
<1>6. Air!SymbolUs(12) = 32768
  <2>1. 2 ^ 12 = 4096
    OBVIOUS
  <2> QED BY <2>1 DEF Air!SymbolUs
<1> QED BY <1>1, <1>2, <1>3, <1>4, <1>5, <1>6

LEMMA Symbols ==
    ASSUME NEW sf \in 7 .. 12
    PROVE  Air!SymbolUs(sf) \in Nat
<1>1. sf = 7 \/ sf = 8 \/ sf = 9 \/ sf = 10 \/ sf = 11 \/ sf = 12
  OBVIOUS
<1> QED BY <1>1, SymbolValues

LEMMA SymbolBound ==
    ASSUME NEW sf \in 7 .. 11
    PROVE  Air!SymbolUs(sf) \in Nat /\ Air!SymbolUs(sf) <= 16384
<1>1. sf = 7 \/ sf = 8 \/ sf = 9 \/ sf = 10 \/ sf = 11
  OBVIOUS
<1> QED BY <1>1, SymbolValues

LEMMA DivNat ==
    ASSUME NEW a \in Nat, NEW m \in Nat, m > 0
    PROVE  a \div m \in Nat
<1>1. a % m \in 0 .. (m - 1) /\ a \div m \in Int /\ a = m * (a \div m) + (a % m)
  BY DivMod
<1>2. a \div m >= 0
  <2> SUFFICES ASSUME a \div m < 0 PROVE FALSE
    BY <1>1
  <2>1. m * (a \div m) + m <= m * 0
    BY <1>1, NextBlock
  <2> QED BY <1>1, <2>1
<1> QED BY <1>1, <1>2

LEMMA BlocksType ==
    ASSUME NEW sf \in 7 .. 12, NEW n \in Nat
    PROVE  Air!PayloadBlocks(sf, n) \in Nat
<1> DEFINE bits == 8 * n - 4 * sf + 28 + 16
           block == 4 * (sf - 2 * Air!LowDataRate(sf))
<1>1. bits \in Int /\ block \in Nat /\ block > 0
  BY DEF Air!LowDataRate
<1>2. Air!PayloadBlocks(sf, n) = IF bits < 0 THEN 0 ELSE (bits + block - 1) \div block
  BY DEF Air!PayloadBlocks
<1> HIDE DEF bits, block
<1>3. CASE bits < 0
  BY <1>2, <1>3
<1>4. CASE ~(bits < 0)
  <2>1. bits + block - 1 \in Nat
    BY <1>1, <1>4
  <2> QED BY <1>1, <1>2, <1>4, <2>1, DivNat
<1> QED BY <1>3, <1>4

LEMMA AirtimeType ==
    ASSUME NEW sf \in 7 .. 12, NEW n \in Nat
    PROVE  Air!AirtimeMs(sf, n) \in Nat
<1>1. Air!PayloadSymbols(sf, n) \in Nat
  <2>1. Air!PayloadBlocks(sf, n) \in Nat
    BY BlocksType
  <2> QED BY <2>1 DEF Air!PayloadSymbols
<1>2. PICK us \in Nat : us = Air!SymbolUs(sf)
  BY Symbols
<1>3. 49 * us \in Nat /\ Air!PayloadSymbols(sf, n) * us \in Nat
  BY <1>1, <1>2
<1>4. (49 * us) \div 4 \in Nat
  BY <1>3, DivNat
<1>5. (49 * us) \div 4 + Air!PayloadSymbols(sf, n) * us \in Nat
  BY <1>3, <1>4
<1>6. ((49 * us) \div 4 + Air!PayloadSymbols(sf, n) * us) \div 1000 \in Nat
  BY <1>5, DivNat
<1> QED BY <1>2, <1>6 DEF Air!AirtimeMs

LEMMA MarginType ==
    ASSUME NEW ms \in Nat
    PROVE  Air!WithMargin(ms) \in Nat
<1>1. ms * 14 \in Nat
  OBVIOUS
<1> QED BY <1>1, DivNat DEF Air!WithMargin

\* The simulated radio computes with the same formula.
LEMMA SameFormula ==
    ASSUME NEW sf, NEW n
    PROVE  Radio!Air!AirtimeMs(sf, n) = Air!AirtimeMs(sf, n)
  BY DEF Radio!Air!AirtimeMs, Radio!Air!PayloadSymbols, Radio!Air!PayloadBlocks,
         Radio!Air!LowDataRate, Radio!Air!SymbolUs, Air!AirtimeMs, Air!PayloadSymbols,
         Air!PayloadBlocks, Air!LowDataRate, Air!SymbolUs

\* When the ACK of a frame of length n is due after the frame was handed to the radio,
\* and the condition that the node still waits then.
Due(n) == Air!AirtimeMs(Radio!Sf, n) + Air!AirtimeMs(Radio!Sf, Radio!AckLength)
AckInTime == \A n \in Lengths : Due(n) < Air!AirtimeMs(NodeSf, n) + AckWindow

\* At any smaller spreading factor a frame is on the air no longer, and the window
\* for an ACK is shorter than the ACK of the gateway, which keeps to its own.
LEMMA Blocks ==
    ASSUME NEW sf \in 7 .. 11, NEW n \in Nat, n > 0
    PROVE  Air!PayloadBlocks(sf, n) <= 2 * Air!PayloadBlocks(12, n)
<1>0. sf = 7 \/ sf = 8 \/ sf = 9 \/ sf = 10 \/ sf = 11
  OBVIOUS
<1>1. Air!PayloadBlocks(12, n) = (8 * n + 35) \div 40
  BY DEF Air!PayloadBlocks, Air!LowDataRate
<1>2. CASE sf = 7
  <2>1. Air!PayloadBlocks(7, n) = (8 * n + 43) \div 28
    BY DEF Air!PayloadBlocks, Air!LowDataRate
  <2>2. (8 * n + 43) \div 28 <= 2 * ((8 * n + 35) \div 40)
    OBVIOUS
  <2> QED BY <1>1, <1>2, <2>1, <2>2
<1>3. CASE sf = 8
  <2>1. Air!PayloadBlocks(8, n) = (8 * n + 43) \div 32
    BY DEF Air!PayloadBlocks, Air!LowDataRate
  <2>2. (8 * n + 43) \div 32 <= 2 * ((8 * n + 35) \div 40)
    OBVIOUS
  <2> QED BY <1>1, <1>3, <2>1, <2>2
<1>4. CASE sf = 9
  <2>1. Air!PayloadBlocks(9, n) = (8 * n + 43) \div 36
    BY DEF Air!PayloadBlocks, Air!LowDataRate
  <2>2. (8 * n + 43) \div 36 <= 2 * ((8 * n + 35) \div 40)
    OBVIOUS
  <2> QED BY <1>1, <1>4, <2>1, <2>2
<1>5. CASE sf = 10
  <2>1. Air!PayloadBlocks(10, n) = (8 * n + 43) \div 40
    BY DEF Air!PayloadBlocks, Air!LowDataRate
  <2>2. (8 * n + 43) \div 40 <= 2 * ((8 * n + 35) \div 40)
    OBVIOUS
  <2> QED BY <1>1, <1>5, <2>1, <2>2
<1>6. CASE sf = 11
  <2>1. Air!PayloadBlocks(11, n) = (8 * n + 35) \div 36
    BY DEF Air!PayloadBlocks, Air!LowDataRate
  <2>2. (8 * n + 35) \div 36 <= 2 * ((8 * n + 35) \div 40)
    OBVIOUS
  <2> QED BY <1>1, <1>6, <2>1, <2>2
<1> QED BY <1>0, <1>2, <1>3, <1>4, <1>5, <1>6

LEMMA WindowBound ==
    ASSUME NEW sf \in 7 .. 11
    PROVE  Air!WithMargin(Air!AirtimeMs(sf, 4)) <= 991
<1>0. sf = 7 \/ sf = 8 \/ sf = 9 \/ sf = 10 \/ sf = 11
  OBVIOUS
<1>1. Air!WithMargin(Air!AirtimeMs(7, 4)) = 42
  <2>1. Air!AirtimeMs(7, 4) = 30
    BY SymbolValues
       DEF Air!AirtimeMs, Air!PayloadSymbols, Air!PayloadBlocks, Air!LowDataRate
  <2> QED BY <2>1 DEF Air!WithMargin
<1>2. Air!WithMargin(Air!AirtimeMs(8, 4)) = 85
  <2>1. Air!AirtimeMs(8, 4) = 61
    BY SymbolValues
       DEF Air!AirtimeMs, Air!PayloadSymbols, Air!PayloadBlocks, Air!LowDataRate
  <2> QED BY <2>1 DEF Air!WithMargin
<1>3. Air!WithMargin(Air!AirtimeMs(9, 4)) = 172
  <2>1. Air!AirtimeMs(9, 4) = 123
    BY SymbolValues
       DEF Air!AirtimeMs, Air!PayloadSymbols, Air!PayloadBlocks, Air!LowDataRate
  <2> QED BY <2>1 DEF Air!WithMargin
<1>4. Air!WithMargin(Air!AirtimeMs(10, 4)) = 288
  <2>1. Air!AirtimeMs(10, 4) = 206
    BY SymbolValues
       DEF Air!AirtimeMs, Air!PayloadSymbols, Air!PayloadBlocks, Air!LowDataRate
  <2> QED BY <2>1 DEF Air!WithMargin
<1>5. Air!WithMargin(Air!AirtimeMs(11, 4)) = 578
  <2>1. Air!AirtimeMs(11, 4) = 413
    BY SymbolValues
       DEF Air!AirtimeMs, Air!PayloadSymbols, Air!PayloadBlocks, Air!LowDataRate
  <2> QED BY <2>1 DEF Air!WithMargin
<1> QED BY <1>0, <1>1, <1>2, <1>3, <1>4, <1>5

LEMMA DivMonotone ==
    ASSUME NEW a \in Int, NEW b \in Int, NEW m \in Nat, m > 0, a <= b
    PROVE  a \div m <= b \div m
<1>1. /\ a % m \in 0 .. (m - 1) /\ a \div m \in Int /\ a = m * (a \div m) + (a % m)
      /\ b % m \in 0 .. (m - 1) /\ b \div m \in Int /\ b = m * (b \div m) + (b % m)
  BY DivMod
<1>2. b \div m < a \div m => m * (b \div m) + m <= m * (a \div m)
  BY <1>1, NextBlock
<1>3. m * (a \div m) \in Int /\ m * (b \div m) \in Int
  BY <1>1
<1> QED BY <1>1, <1>2, <1>3

LEMMA ProductMonotone ==
    ASSUME NEW a \in Nat, NEW b \in Nat, NEW c \in Nat, NEW d \in Nat, a <= b, c <= d
    PROVE  a * c <= b * d
<1>1. PICK e \in Nat : b = a + e
  <2>1. b - a \in Nat /\ b = a + (b - a)
    OBVIOUS
  <2> QED BY <2>1
<1>2. PICK f \in Nat : d = c + f
  <2>1. d - c \in Nat /\ d = c + (d - c)
    OBVIOUS
  <2> QED BY <2>1
<1>3. b * d = a * c + a * f + e * c + e * f
  BY <1>1, <1>2
<1>4. a * c \in Nat /\ a * f \in Nat /\ e * c \in Nat /\ e * f \in Nat
  OBVIOUS
<1> QED BY <1>3, <1>4

LEMMA ShorterFrame ==
    ASSUME NEW sf \in 7 .. 11, NEW n \in Nat, n > 0
    PROVE  Air!AirtimeMs(sf, n) <= Air!AirtimeMs(12, n)
<1>0. sf \in 7 .. 12
  OBVIOUS
<1>1. PICK us \in Nat : us = Air!SymbolUs(sf) /\ us <= 16384
  BY SymbolBound
<1>2. PICK p \in Nat : p = Air!PayloadSymbols(sf, n)
  <2>1. Air!PayloadBlocks(sf, n) \in Nat
    BY <1>0, BlocksType
  <2> QED BY <2>1 DEF Air!PayloadSymbols
<1>3. PICK q \in Nat : q = Air!PayloadSymbols(12, n)
  <2>1. Air!PayloadBlocks(12, n) \in Nat
    BY <1>0, BlocksType
  <2> QED BY <2>1 DEF Air!PayloadSymbols
<1>4. p <= 2 * q
  <2>1. Air!PayloadBlocks(sf, n) \in Nat
    BY <1>0, BlocksType
  <2>2. Air!PayloadBlocks(12, n) \in Nat
    BY BlocksType
  <2>3. Air!PayloadBlocks(sf, n) <= 2 * Air!PayloadBlocks(12, n)
    BY Blocks
  <2> QED BY <1>2, <1>3, <2>1, <2>2, <2>3 DEF Air!PayloadSymbols
<1>5. p * us <= q * 32768
  <2>1. PICK r \in Nat : r = 2 * q
    OBVIOUS
  <2>2. p * us <= r * 16384
    BY <1>1, <1>4, <2>1, ProductMonotone
  <2>3. r * 16384 = q * 32768
    BY <2>1
  <2> QED BY <2>2, <2>3
<1>6. (49 * us) \div 4 <= (49 * 32768) \div 4
  BY <1>1
<1> DEFINE short == (49 * us) \div 4 + p * us
           long == (49 * 32768) \div 4 + q * 32768
<1>7. short \in Int /\ long \in Int /\ short <= long
  <2>1. (49 * us) \div 4 \in Int /\ (49 * 32768) \div 4 \in Int
    OBVIOUS
  <2>2. p * us \in Int /\ q * 32768 \in Int
    OBVIOUS
  <2> QED BY <1>5, <1>6, <2>1, <2>2
<1>8. Air!AirtimeMs(sf, n) = short \div 1000
  BY <1>1, <1>2 DEF Air!AirtimeMs
<1>9. Air!AirtimeMs(12, n) = long \div 1000
  BY <1>3, SymbolValues DEF Air!AirtimeMs
<1> HIDE DEF short, long
<1>10. short \div 1000 <= long \div 1000
  BY <1>7, DivMonotone
<1> QED BY <1>8, <1>9, <1>10

(***************************************************************************)
(* At the spreading factor of the default configuration, and at no other,  *)
(* the window the node computes for an ACK without its tag, with the       *)
(* margin, holds an ACK with its tag, whatever the lengths of the frames:  *)
(* the simulated gateway keeps to that spreading factor                    *)
(* (lora_interface.cpp:158, config_manager.cpp:176, sx1262_fake.cpp:148).  *)
(***************************************************************************)
THEOREM WindowHoldsAck ==
    ASSUME Lengths # {}
    PROVE  AckInTime <=> NodeSf = 12
<1>1. Air!AirtimeMs(12, 4) = 827 /\ Air!AirtimeMs(12, 8) = 991
  BY SymbolValues DEF Air!AirtimeMs, Air!PayloadSymbols, Air!PayloadBlocks, Air!LowDataRate
<1>2. Air!WithMargin(827) = 1157
  BY DEF Air!WithMargin
<1>3. \A n \in Lengths : n \in Nat /\ n > 0
  BY LinkAssumption
<1>4. \A n \in Lengths : Due(n) = Air!AirtimeMs(12, n) + 991 /\ Air!AirtimeMs(12, n) \in Nat
  BY <1>1, <1>3, AirtimeType DEF Due, Radio!Sf, Radio!AckLength
<1>5. ASSUME NodeSf = 12
      PROVE  AckInTime
  BY <1>1, <1>2, <1>4, <1>5 DEF AckInTime, AckWindow
<1>6. ASSUME NodeSf # 12
      PROVE  ~AckInTime
  <2>1. NodeSf \in 7 .. 11
    BY <1>6, LinkAssumption
  <2>2. PICK n \in Lengths : TRUE
    OBVIOUS
  <2>3. Air!AirtimeMs(NodeSf, n) <= Air!AirtimeMs(12, n) /\ Air!AirtimeMs(NodeSf, n) \in Nat
    BY <1>3, <2>1, ShorterFrame, AirtimeType, LinkAssumption
  <2>4. AckWindow <= 991 /\ AckWindow \in Nat
    <3>1. Air!WithMargin(Air!AirtimeMs(NodeSf, 4)) <= 991
      BY <2>1, WindowBound
    <3>2. Air!AirtimeMs(NodeSf, 4) \in Nat
      BY LinkAssumption, AirtimeType
    <3>3. Air!WithMargin(Air!AirtimeMs(NodeSf, 4)) \in Nat
      BY <3>2, MarginType
    <3> QED BY <3>1, <3>3 DEF AckWindow
  <2>5. Due(n) >= Air!AirtimeMs(NodeSf, n) + AckWindow
    BY <1>4, <2>3, <2>4
  <2> QED BY <1>4, <2>3, <2>4, <2>5 DEF AckInTime
<1> QED BY <1>5, <1>6

LEMMA Waits ==
    /\ \A n \in Nat : Due(n) \in Nat
    /\ Lengths \subseteq Nat
    /\ \A n \in Lengths : Air!AirtimeMs(NodeSf, n) + AckWindow \in Nat
    /\ ListenWindow \in Nat
<1>1. NodeSf \in 7 .. 12 /\ MaxPayload \in Nat /\ \A n \in Lengths : n \in Nat
  BY LinkAssumption
<1>2. Air!AirtimeMs(NodeSf, 4) \in Nat /\ Air!AirtimeMs(NodeSf, MaxPayload) \in Nat
  BY <1>1, AirtimeType
<1>3. AckWindow \in Nat /\ ListenWindow \in Nat
  BY <1>2, MarginType DEF AckWindow, ListenWindow
<1>4. ASSUME NEW n \in Nat
      PROVE  Air!AirtimeMs(NodeSf, n) \in Nat /\ Air!AirtimeMs(12, n) \in Nat
  <2>1. Air!AirtimeMs(NodeSf, n) \in Nat
    BY <1>1, AirtimeType
  <2>2. Air!AirtimeMs(12, n) \in Nat
    <3>1. 12 \in 7 .. 12
      OBVIOUS
    <3> QED BY <3>1, AirtimeType
  <2> QED BY <2>1, <2>2
<1>5. Air!AirtimeMs(12, 8) \in Nat
  BY AirtimeType
<1> QED BY <1>1, <1>3, <1>4, <1>5 DEF Due, Radio!Sf, Radio!AckLength

-----------------------------------------------------------------------------
(* What the calls do.                                                      *)

Config == [id : {0, FirstId, NewId}, txSec : Counter, rxSec : Counter]

LEMMA SignFacts ==
    ASSUME nextTx \in 1 .. MaxCtr, config \in Config, Auth!Sign
    PROVE  /\ nextTx' = nextTx + 1 /\ nextTx' \in 1 .. MaxCtr /\ nextTx < MaxCtr
           /\ Auth!SignedTag = Tag(key, nextTx)
           /\ config' \in Config /\ config'.id = config.id
           /\ UNCHANGED <<key, lastDerivedId, lastRx, lastRxTime>>
<1>1. nextTx < MaxCtr /\ nextTx' = (nextTx + 1) % CtrMod
  BY DEF Auth!Sign, Auth!Succ
<1>2. (nextTx + 1) % CtrMod = nextTx + 1
  BY <1>1, ModSmall, LinkAssumption, CounterAssumption
<1>3. nextTx' = nextTx + 1 /\ nextTx' \in 1 .. MaxCtr /\ nextTx' \in Counter
  BY <1>1, <1>2, LinkAssumption, CounterAssumption DEF Counter
<1>4. config' = config \/ config' = [config EXCEPT !.txSec = nextTx']
  BY DEF Auth!Sign
<1>5. config' \in Config /\ config'.id = config.id
  BY <1>3, <1>4 DEF Config
<1>6. UNCHANGED <<key, lastDerivedId, lastRx, lastRxTime>>
  BY DEF Auth!Sign, Auth!keyVars, Auth!rxVars
<1> QED BY <1>1, <1>3, <1>5, <1>6 DEF Auth!SignedTag, Tag

\* Deriving the key of the configured id.
LEMMA KeyFacts ==
    ASSUME config \in Config, key = DeviceKey(lastDerivedId), Auth!InitKey
    PROVE  /\ config' \in Config /\ config'.id = config.id
           /\ key' = DeviceKey(config.id) /\ lastDerivedId' = config.id
           /\ nextTx' = nextTx
           /\ lastRx' \in {0, lastRx} /\ lastRxTime' \in {0, lastRxTime}
<1>1. CASE config.id = lastDerivedId
  BY <1>1 DEF Auth!InitKey, Auth!authVars
<1>2. CASE config.id # lastDerivedId
  <2>1. 1 \in Counter
    BY CounterAssumption DEF Counter
  <2> QED BY <1>2, <2>1 DEF Auth!InitKey, DeviceKey, Config
<1> QED BY <1>1, <1>2

\* Verifying a frame, whoever made it.
LEMMA RxType ==
    ASSUME nextTx \in 1 .. MaxCtr, NEW low \in LowByte
    PROVE  Auth!RxCounter(low) \in Counter
<1>1. Auth!Reconstruct(low, nextTx) = Reconstruct(low, nextTx)
  BY DEF Auth!Reconstruct, Reconstruct, Auth!Wrapped, Wrapped, Auth!Low, Low
<1>2. Reconstruct(low, nextTx) \in Counter
  BY ReconstructType, LinkAssumption, CounterAssumption DEF LowByte
<1> QED BY <1>1, <1>2 DEF Auth!RxCounter

LEMMA VerifyFacts ==
    ASSUME nextTx \in 1 .. MaxCtr, lastRx \in Counter, lastRxTime \in Nat, now \in Nat,
           config \in Config, NEW low \in LowByte, NEW tag, Auth!VerifyFrame(low, tag)
    PROVE  /\ config' \in Config /\ config'.id = config.id
           /\ lastRx' \in Counter /\ lastRxTime' \in Nat
           /\ UNCHANGED <<key, lastDerivedId, nextTx>>
<1>1. 0 \in Counter /\ Auth!RxCounter(low) \in Counter
  BY RxType, CounterAssumption DEF Counter
<1>2. lastRx' \in {Auth!RxCounter(low), Auth!RxBase}
      /\ lastRxTime' \in {now, lastRxTime}
      /\ (config' = config \/ config' = [config EXCEPT !.rxSec = lastRx'])
  BY DEF Auth!VerifyFrame
<1>3. lastRx' \in Counter
  BY <1>1, <1>2 DEF Auth!RxBase
<1>4. config' \in Config /\ config'.id = config.id
  BY <1>2, <1>3 DEF Config
<1> QED BY <1>2, <1>3, <1>4 DEF Auth!VerifyFrame, Auth!keyVars

\* The bodies of the frames the node gets to decode, and what comes of them.
CommandBody ==
    [count |-> 1, version |-> ProtocolVersion,
     cmds |-> <<[op |-> 0, enc |-> 1, arg |-> NewId]>>, tail |-> 0]

Decodable(f) ==
    \/ f.type = "ACK" /\ f.body = Handler!NoBody
    \/ f.type = "CONFIG" /\ f.body = CommandBody

LEMMA DecodeFacts ==
    ASSUME Decodable(frame), Handler!Decode(frame)
    PROVE  config' = IF frame.type = "CONFIG" /\ frame.id = config.id
                     THEN [config EXCEPT !.id = NewId] ELSE config
<1> DEFINE setters == {i \in 1 .. frame.body.count :
                         /\ Handler!HandledOk(frame, i)
                         /\ frame.body.cmds[i].op = Handler!SetCombinedId}
<1>1. config' = IF setters = {} THEN config
                ELSE [config EXCEPT !.id = frame.body.cmds[CHOOSE i \in setters : TRUE].arg]
  BY DEF Handler!Decode
<1>2. CASE ~(frame.type = "CONFIG" /\ frame.id = config.id)
  <2>1. Handler!HeaderResult(frame) # "OK"
    BY <1>2 DEF Handler!HeaderResult
  <2>2. setters = {}
    BY <2>1 DEF Handler!HandledOk
  <2> QED BY <1>1, <1>2, <2>2
<1>3. CASE frame.type = "CONFIG" /\ frame.id = config.id
  <2>1. frame.body = CommandBody
    BY <1>3 DEF Decodable
  <2>2. /\ frame.body.count = 1 /\ frame.body.version = ProtocolVersion
        /\ frame.body.cmds = <<[op |-> 0, enc |-> 1, arg |-> NewId]>>
    BY <2>1 DEF CommandBody
  <2>3. Len(frame.body.cmds) = 1 /\ frame.body.cmds[1] = [op |-> 0, enc |-> 1, arg |-> NewId]
    BY <2>2
  <2>4. frame.body # Handler!NoBody
    BY <2>2 DEF Handler!NoBody
  <2>5. Handler!HeaderResult(frame) = "OK"
    BY <1>3, <2>2, <2>4 DEF Handler!HeaderResult
  <2>6. Handler!PayloadSize(1) = 2
    BY DEF Handler!PayloadSize
  <2>7. Handler!HandlerResult(0, 2) = "OK_AND_REBOOT_NEED"
    BY DEF Handler!HandlerResult, Handler!SetCombinedId, Handler!SamplingInterval,
           Handler!Reboot, Handler!SetUnixTime, Handler!LoraConfig
  <2>8. Handler!TurnResult(frame.body, 1) = "OK_AND_REBOOT_NEED"
    BY <2>3, <2>6, <2>7 DEF Handler!TurnResult, Handler!CommandResult, Handler!Dispatched
  <2>9. Handler!HandledOk(frame, 1)
    BY <2>2, <2>3, <2>5, <2>8 DEF Handler!HandledOk, Handler!Reaches
  <2>10. setters = {1}
    BY <2>2, <2>3, <2>9 DEF Handler!SetCombinedId
  <2>11. (CHOOSE i \in setters : TRUE) = 1
    BY <2>10
  <2> HIDE DEF setters
  <2> QED BY <1>1, <1>3, <2>3, <2>10, <2>11
<1> QED BY <1>2, <1>3

LEMMA SendFacts ==
    ASSUME NEW f, NEW n \in Nat, Radio!LoraSend(f, n)
    PROVE  /\ ack' = [type |-> "ACK", id |-> f.id, low |-> f.low,
                      tag |-> Tag(Radio!GwKey, f.low), body |-> Handler!NoBody]
           /\ lastLow' = f.low /\ ackDue' = Due(n) /\ ackDue' \in Nat
           /\ UNCHANGED <<gwId, gwCtr>>
<1>1. ackDue' = Due(n)
  BY SameFormula DEF Radio!LoraSend, Due
<1>2. Due(n) \in Nat
  BY Waits
<1> QED BY <1>1, <1>2 DEF Radio!LoraSend, Radio!NoBody, Handler!NoBody

\* What the gateway holds back for the node.
AckShape == ack # NoFrame => ack.type = "ACK" /\ ack.low \in LowByte /\ ack.body = Handler!NoBody

LEMMA RecvFacts ==
    ASSUME NEW ms \in Nat, Radio!LoraRecv(ms), AckShape,
           gwId \in {FirstId, NewId}, gwCtr \in LowByte, ackDue \in Nat
    PROVE  /\ gwId' \in {FirstId, NewId} /\ gwCtr' \in LowByte /\ ackDue' \in Nat
           /\ lastLow' = lastLow /\ AckShape'
           /\ LET f == Radio!Received(ms)
              IN  f # NoFrame => Decodable(f) /\ f.low \in LowByte
<1>1. Radio!NextGwCtr \in LowByte
  <2>1. gwCtr + 1 \in Int
    BY CounterAssumption DEF LowByte
  <2>2. (gwCtr + 1) % LowMod \in 0 .. (LowMod - 1)
    BY <2>1, DivMod, CounterAssumption
  <2> QED BY <2>2 DEF Radio!NextGwCtr, LowByte
<1>2. Radio!Elapsed(ms) \in Nat
  BY DEF Radio!Elapsed
<1>3. Decodable(Radio!Injection) /\ Radio!Injection.low \in LowByte
  BY <1>1 DEF Radio!Injection, Decodable, CommandBody
<1>4. ack # NoFrame => Decodable(ack)
  BY DEF AckShape, Decodable
<1>5. Radio!Received(ms) \in {NoFrame, Radio!Injection} \/ (Radio!Received(ms) = ack /\ ack # NoFrame)
  BY DEF Radio!Received, Radio!AckWithin
<1>6. /\ ackDue' \in {0, Radio!Elapsed(ms)} /\ gwId' \in {gwId, NewId}
      /\ gwCtr' \in {gwCtr, Radio!NextGwCtr} /\ lastLow' = lastLow /\ ack' \in {ack, NoFrame}
  BY DEF Radio!LoraRecv
<1>7. AckShape'
  BY <1>6 DEF AckShape, Handler!NoBody
<1> QED BY <1>1, <1>2, <1>3, <1>4, <1>5, <1>6, <1>7 DEF AckShape

-----------------------------------------------------------------------------
(* Types, and what is in the air.                                          *)

Sending == {"transmit", "await", "backoff"}

\* While a frame is sent it is the last one signed, under the key of the cycle.
FrameInv ==
    /\ pc \in Sending => /\ nextTx > 1 /\ len \in Lengths
                         /\ frame = Frame("DATA", config.id, Tag(key, nextTx - 1))
    /\ pc \in {"await", "backoff"} => attempt < MaxRetries
    /\ pc = "decode" => Decodable(frame)
    /\ pc # "load" => config.id # 0

LinkInv == TypeOK /\ FrameInv /\ AckShape

LEMMA LinkInit == Init => LinkInv
<1> SUFFICES ASSUME Init PROVE LinkInv
  OBVIOUS
<1>1. {0, 1} \subseteq Counter /\ 0 \in LowByte /\ 1 \in 1 .. MaxCtr
  BY CounterAssumption, LinkAssumption DEF Counter, LowByte
<1>2. TypeOK
  BY <1>1, LinkAssumption DEF Init, TypeOK, Defaults, Radio!RadioInit
<1> QED BY <1>2 DEF Init, LinkInv, FrameInv, Sending, AckShape, Radio!RadioInit

LEMMA LinkStep == LinkInv /\ [Next]_vars => LinkInv'
<1> SUFFICES ASSUME LinkInv, [Next]_vars PROVE LinkInv'
  OBVIOUS
<1> USE DEF authVars, radioVars, sendVars
<1>t. /\ config \in Config /\ nextTx \in 1 .. MaxCtr /\ lastRx \in Counter /\ lastRxTime \in Nat
      /\ now \in Nat /\ key = DeviceKey(lastDerivedId) /\ AckShape
      /\ gwId \in {FirstId, NewId} /\ gwCtr \in LowByte /\ ackDue \in Nat
  BY DEF LinkInv, TypeOK, Config
<1>k. {0, 1} \subseteq Counter /\ 0 \in LowByte /\ 1 \in 1 .. MaxCtr
  BY CounterAssumption, LinkAssumption DEF Counter, LowByte
<1>1. CASE LoadConfig
  BY <1>1, LinkAssumption DEF LoadConfig, LinkInv, TypeOK, FrameInv, Sending, AckShape, DeviceKey
<1>2. CASE Prepare
  <2>1. Auth!InitKey
    BY <1>2 DEF Prepare
  <2>2. /\ config' \in Config /\ config'.id = config.id /\ key' = DeviceKey(config.id)
        /\ lastDerivedId' = config.id /\ nextTx' = nextTx
        /\ lastRx' \in {0, lastRx} /\ lastRxTime' \in {0, lastRxTime}
    BY <1>t, <2>1, KeyFacts
  <2>3. TypeOK'
    BY <1>2, <1>k, <2>2, LinkAssumption DEF Prepare, LinkInv, TypeOK, Config, DeviceKey
  <2> QED BY <1>2, <2>2, <2>3 DEF Prepare, LinkInv, FrameInv, Sending, AckShape
<1>3. CASE BuildAndSign
  <2>1. Auth!Sign
    BY <1>3 DEF BuildAndSign
  <2>2. /\ nextTx' = nextTx + 1 /\ nextTx' \in 1 .. MaxCtr
        /\ Auth!SignedTag = Tag(key, nextTx)
        /\ config' \in Config /\ config'.id = config.id
        /\ UNCHANGED <<key, lastDerivedId, lastRx, lastRxTime>>
    BY <1>t, <2>1, SignFacts
  <2>3. TypeOK'
    BY <1>3, <1>k, <2>2, LinkAssumption
       DEF BuildAndSign, LinkInv, TypeOK, Config, DeviceKey
  <2>4. nextTx' - 1 = nextTx /\ nextTx' > 1
    BY <1>t, <2>2
  <2>5. FrameInv'
    BY <1>3, <2>2, <2>4 DEF BuildAndSign, LinkInv, FrameInv, Sending, Frame, Tag
  <2> QED BY <1>3, <2>3, <2>5 DEF BuildAndSign, LinkInv, AckShape
<1>4. CASE Transmit
  <2>1. len \in Nat /\ Radio!LoraSend(frame, len)
    BY <1>4, Waits DEF Transmit, LinkInv, FrameInv, Sending
  <2>2. frame.low \in LowByte
    <3>1. frame.low = Low(nextTx - 1)
      BY <1>4 DEF Transmit, LinkInv, FrameInv, Sending, Frame, Tag, Auth!Tag
    <3> QED BY <1>t, <3>1, Split, LinkAssumption
  <2>3. /\ AckShape' /\ lastLow' \in LowByte /\ ackDue' \in Nat
        /\ UNCHANGED <<gwId, gwCtr>>
    BY <2>1, <2>2, SendFacts DEF AckShape
  <2>4. TypeOK'
    BY <1>4, <2>3 DEF Transmit, LinkInv, TypeOK, DeviceKey
  <2> QED
    BY <1>4, <2>3, <2>4 DEF Transmit, LinkInv, FrameInv, Sending, Frame, Tag, TypeOK
<1>5. CASE GiveUp
  BY <1>5 DEF GiveUp, LinkInv, TypeOK, FrameInv, Sending, AckShape, DeviceKey
<1>6. ASSUME NEW ms \in Nat, Radio!LoraRecv(ms), NoteInjection, UNCHANGED nextTx
      PROVE  /\ gwId' \in {FirstId, NewId} /\ gwCtr' \in LowByte /\ ackDue' \in Nat
             /\ lastLow' = lastLow /\ AckShape' /\ firstAt' \in 0 .. MaxCtr
             /\ LET f == Radio!Received(ms)
                IN  f # NoFrame => Decodable(f) /\ f.low \in LowByte
  <2>1. firstAt' \in {nextTx, firstAt}
    BY <1>6 DEF NoteInjection
  <2>2. firstAt' \in 0 .. MaxCtr
    BY <1>t, <2>1 DEF LinkInv, TypeOK
  <2> QED BY <1>t, <1>6, <2>2, RecvFacts
<1>7. ListenWindow \in Nat /\ (pc = "await" => AckDeadline \in Nat)
  BY Waits DEF LinkInv, FrameInv, Sending, AckDeadline
<1>8. CASE AckArrives
  <2>1. /\ gwId' \in {FirstId, NewId} /\ gwCtr' \in LowByte /\ ackDue' \in Nat
        /\ lastLow' = lastLow /\ AckShape' /\ firstAt' \in 0 .. MaxCtr
    BY <1>6, <1>7, <1>8 DEF AckArrives
  <2>2. TypeOK'
    BY <1>8, <2>1 DEF AckArrives, LinkInv, TypeOK, DeviceKey
  <2> QED BY <1>8, <2>1, <2>2 DEF AckArrives, LinkInv, FrameInv, Sending
<1>9. CASE NoValidAck
  <2>1. /\ gwId' \in {FirstId, NewId} /\ gwCtr' \in LowByte /\ ackDue' \in Nat
        /\ lastLow' = lastLow /\ AckShape' /\ firstAt' \in 0 .. MaxCtr
    BY <1>6, <1>7, <1>9 DEF NoValidAck
  <2>2. TypeOK'
    BY <1>9, <2>1 DEF NoValidAck, LinkInv, TypeOK, DeviceKey
  <2> QED BY <1>9, <2>1, <2>2 DEF NoValidAck, LinkInv, FrameInv, Sending, Frame, Tag
<1>10. CASE BackOff
  <2>1. Radio!Elapsed(Backoff) \in Nat
    BY <1>t DEF Radio!Elapsed, Backoff
  <2>2. ackDue' \in Nat /\ UNCHANGED <<gwId, gwCtr, lastLow, ack>>
    BY <1>10, <2>1 DEF BackOff, Radio!Pause
  <2>3. attempt + 1 \in 0 .. MaxRetries
    BY <1>10, LinkAssumption DEF BackOff, LinkInv, FrameInv, TypeOK
  <2>4. TypeOK'
    BY <1>10, <2>2, <2>3 DEF BackOff, LinkInv, TypeOK, DeviceKey
  <2> QED
    BY <1>10, <2>2, <2>4 DEF BackOff, LinkInv, FrameInv, Sending, Frame, Tag, AckShape
<1>11. CASE Listen
  <2> DEFINE f == Radio!Received(ListenWindow)
  <2>1. CASE f = NoFrame
    <3>1. UNCHANGED <<config, key, lastDerivedId, nextTx, lastRx, lastRxTime, frame>> /\ pc' = "save"
      BY <1>11, <2>1 DEF Listen
    <3>2. /\ gwId' \in {FirstId, NewId} /\ gwCtr' \in LowByte /\ ackDue' \in Nat
          /\ lastLow' = lastLow /\ AckShape' /\ firstAt' \in 0 .. MaxCtr
      BY <1>6, <1>7, <1>11, <3>1 DEF Listen
    <3>3. TypeOK'
      BY <1>11, <3>1, <3>2 DEF Listen, LinkInv, TypeOK, DeviceKey
    <3> QED BY <1>11, <3>1, <3>2, <3>3 DEF Listen, LinkInv, FrameInv, Sending
  <2>2. CASE f # NoFrame
    <3>1. /\ Auth!VerifyFrame(f.low, f.tag) /\ frame' = f /\ pc' \in {"decode", "save"}
      BY <1>11, <2>2 DEF Listen
    <3>2. UNCHANGED nextTx
      BY <3>1 DEF Auth!VerifyFrame
    <3>3. /\ gwId' \in {FirstId, NewId} /\ gwCtr' \in LowByte /\ ackDue' \in Nat
          /\ lastLow' = lastLow /\ AckShape' /\ firstAt' \in 0 .. MaxCtr
          /\ Decodable(f) /\ f.low \in LowByte
      BY <1>6, <1>7, <1>11, <2>2, <3>2 DEF Listen
    <3>4. /\ config' \in Config /\ config'.id = config.id
          /\ lastRx' \in Counter /\ lastRxTime' \in Nat
          /\ UNCHANGED <<key, lastDerivedId, nextTx>>
      BY <1>t, <3>1, <3>3, VerifyFacts
    <3> HIDE DEF f
    <3>5. TypeOK'
      BY <1>11, <3>3, <3>4 DEF Listen, LinkInv, TypeOK, Config, DeviceKey
    <3>6. Decodable(frame')
      BY <3>1, <3>3
    <3>7. FrameInv'
      BY <1>11, <3>1, <3>4, <3>6 DEF Listen, LinkInv, FrameInv, Sending, Decodable
    <3> QED BY <3>3, <3>5, <3>7 DEF LinkInv
  <2> QED BY <2>1, <2>2
<1>12. CASE DecodeFrame
  <2>1. Handler!Decode(frame) /\ Decodable(frame)
    BY <1>12 DEF DecodeFrame, LinkInv, FrameInv
  <2>2. config' = config \/ config' = [config EXCEPT !.id = NewId]
    BY <2>1, DecodeFacts
  <2>3. config' \in Config /\ config'.id # 0
    BY <1>12, <1>t, <2>2, LinkAssumption DEF DecodeFrame, LinkInv, FrameInv, Config
  <2>4. TypeOK'
    BY <1>12, <2>3 DEF DecodeFrame, LinkInv, TypeOK, Config, DeviceKey
  <2> QED BY <1>12, <2>3, <2>4 DEF DecodeFrame, LinkInv, FrameInv, Sending, AckShape
<1>13. CASE Reply
  <2> DEFINE f == Frame("RESPONSE", config.id, Auth!SignedTag)
  <2>1. Auth!Sign /\ Radio!LoraSend(f, 5) /\ pc' = "save"
    BY <1>13 DEF Reply
  <2>2. /\ nextTx' \in 1 .. MaxCtr
        /\ Auth!SignedTag = Tag(key, nextTx)
        /\ config' \in Config /\ config'.id = config.id
        /\ UNCHANGED <<key, lastDerivedId, lastRx, lastRxTime>>
    BY <1>t, <2>1, SignFacts
  <2>3. f.low \in LowByte
    <3>1. f.low = Low(nextTx)
      BY <2>2 DEF Frame, Tag, Auth!Tag
    <3> QED BY <1>t, <3>1, Split, LinkAssumption
  <2>4. /\ AckShape' /\ lastLow' \in LowByte /\ ackDue' \in Nat
        /\ UNCHANGED <<gwId, gwCtr>>
    BY <2>1, <2>3, SendFacts DEF AckShape
  <2> HIDE DEF f
  <2>5. TypeOK'
    BY <1>13, <2>2, <2>4 DEF Reply, LinkInv, TypeOK, Config, DeviceKey
  <2> QED BY <1>13, <2>1, <2>2, <2>4, <2>5 DEF Reply, LinkInv, FrameInv, Sending
<1>14. CASE SaveConfig
  BY <1>14 DEF SaveConfig, LinkInv, TypeOK, FrameInv, Sending, AckShape, DeviceKey
<1>15. CASE WakeUp
  <2>1. Radio!Elapsed(ackDue + 1) \in Nat
    BY <1>t DEF Radio!Elapsed
  <2>2. ackDue' \in Nat /\ UNCHANGED <<gwId, gwCtr, lastLow, ack>>
    BY <1>15, <2>1 DEF WakeUp, Radio!Pause
  <2>3. now + 1 \in 0 .. MaxCycles
    BY <1>15, LinkAssumption DEF WakeUp, LinkInv, TypeOK
  <2>4. TypeOK'
    BY <1>15, <2>2, <2>3 DEF WakeUp, LinkInv, TypeOK, DeviceKey
  <2> QED BY <1>15, <2>2, <2>4 DEF WakeUp, LinkInv, FrameInv, Sending, AckShape
<1>16. CASE Restart
  <2>1. TypeOK'
    BY <1>16, <1>k, LinkAssumption
       DEF Restart, LinkInv, TypeOK, Auth!AuthReset, Radio!RadioReset, DeviceKey
  <2> QED
    BY <1>16, <2>1 DEF Restart, LinkInv, FrameInv, Sending, AckShape, Radio!RadioReset
<1>17. CASE UNCHANGED vars
  BY <1>17 DEF vars, LinkInv, TypeOK, FrameInv, Sending, AckShape, DeviceKey, Frame, Tag
<1> QED
  BY <1>1, <1>2, <1>3, <1>4, <1>5, <1>8, <1>9, <1>10, <1>11, <1>12, <1>13, <1>14,
     <1>15, <1>16, <1>17 DEF Next, NodeStep

LEMMA LinkInvariance == Spec => []LinkInv
  BY LinkInit, LinkStep, PTL DEF Spec

(***************************************************************************)
(* Type correctness of node, store and simulated gateway: the transmit     *)
(* counter stays within its bound, the counters the node reconstructs stay *)
(* counters, no id but the two is saved, and the key is always that of the *)
(* id it was last derived for (sx1262_fake.cpp, lora_auth.cpp).            *)
(***************************************************************************)
THEOREM TypeCorrect == Spec => []TypeOK
<1>1. LinkInv => TypeOK
  BY DEF LinkInv
<1> QED BY <1>1, LinkInvariance, PTL

-----------------------------------------------------------------------------
(* Acknowledgements.                                                       *)

\* The gateway signs its ACK with the byte of the frame it answers, the node
\* expects the full counter: the two agree on the counters of the first block,
\* where the last is lost as that of every block is.
LEMMA AckByte ==
    ASSUME nextTx \in 1 .. MaxCtr, nextTx > 1, NEW k
    PROVE  LET c == nextTx - 1
           IN  Auth!AckVerifies(Low(c), Tag(k, Low(c))) <=> k = key /\ c < LowMod - 1
<1> DEFINE n == nextTx
           c == nextTx - 1
<1>1. /\ n \in Nat /\ n > 0 /\ c \in Nat /\ n < CtrMod /\ c = n - 1
      /\ LowMod \in Nat /\ LowMod > 0 /\ CtrMod \in Nat
  BY LinkAssumption, CounterAssumption
<1>2. Auth!Minus(n, 1) = c
  BY <1>1, ModSmall DEF Auth!Minus
<1>3. Low(c) \in 0 .. (LowMod - 1) /\ Low(n) \in 0 .. (LowMod - 1)
  BY <1>1, Split DEF LowByte
<1>4. Auth!Reconstruct(Low(c), n) = Reconstruct(Low(c), n)
  BY DEF Auth!Reconstruct, Reconstruct, Auth!Wrapped, Wrapped, Auth!Low, Low
<1>5. Tag(k, Low(c)) = Auth!Tag(key, c) <=> k = key /\ Low(c) = c
  BY DEF Tag, Auth!Tag
<1>6. Auth!AckVerifies(Low(c), Tag(k, Low(c)))
        <=> Reconstruct(Low(c), n) = c /\ k = key /\ Low(c) = c
  BY <1>2, <1>4, <1>5 DEF Auth!AckVerifies
<1>7. Low(c) = IF Low(n) = 0 THEN LowMod - 1 ELSE Low(n) - 1
  BY <1>1, LowBefore
<1> HIDE DEF n, c
<1>8. c < LowMod => Low(c) = c
  BY <1>1, ModSmall DEF Low
<1>9. CASE c < LowMod - 1
  <2>1. Low(c) = c /\ Low(n) = n
    BY <1>1, <1>8, <1>9, ModSmall DEF Low
  <2>2. ~Wrapped(c, n)
    BY <1>1, <2>1, CounterAssumption DEF Wrapped
  <2>3. Reconstruct(c, n) = c % CtrMod
    <3>1. n - Low(n) + c + 0 = c
      BY <1>1, <2>1
    <3> QED BY <2>2, <3>1 DEF Reconstruct
  <2>4. c % CtrMod = c
    BY <1>1, ModSmall
  <2>5. Reconstruct(Low(c), n) = c /\ Low(c) = c
    BY <2>1, <2>3, <2>4
  <2> QED BY <1>6, <1>9, <2>5 DEF c
<1>10. CASE c = LowMod - 1
  <2>1. Low(c) = c /\ Low(n) = 0
    BY <1>1, <1>3, <1>7, <1>8, <1>10
  <2>2. ~Wrapped(c, n)
    BY <1>1, <1>10, CounterAssumption DEF Wrapped
  <2>3. n - Low(n) + c + 0 = LowMod + LowMod - 1
    BY <1>1, <1>10, <2>1
  <2>4. Reconstruct(c, n) = (LowMod + LowMod - 1) % CtrMod
    BY <2>2, <2>3 DEF Reconstruct
  <2>5. LowMod + LowMod <= CtrMod
    <3>1. CtrMod \div LowMod \in Int /\ CtrMod = LowMod * (CtrMod \div LowMod)
      BY <1>1, DivMod, CounterAssumption
    <3>2. CtrMod \div LowMod > 1
      <4> SUFFICES ASSUME CtrMod \div LowMod <= 1 PROVE FALSE
        BY <3>1
      <4>1. CtrMod \div LowMod = 1 \/ CtrMod \div LowMod < 1
        BY <3>1
      <4>2. CtrMod \div LowMod = 1 => CtrMod = LowMod
        BY <1>1, <3>1
      <4>3. CtrMod \div LowMod < 1 => LowMod * (CtrMod \div LowMod) + LowMod <= LowMod * 1
        BY <1>1, <3>1, NextBlock
      <4> QED BY <1>1, <3>1, <4>1, <4>2, <4>3, CounterAssumption
    <3>3. LowMod * 1 + LowMod <= LowMod * (CtrMod \div LowMod)
      BY <1>1, <3>1, <3>2, NextBlock
    <3> QED BY <1>1, <3>1, <3>3
  <2>6. (LowMod + LowMod - 1) % CtrMod = LowMod + LowMod - 1
    BY <1>1, <2>5, ModSmall
  <2>7. Reconstruct(Low(c), n) # c
    BY <1>1, <1>10, <2>1, <2>4, <2>6
  <2> QED BY <1>1, <1>6, <1>10, <2>7 DEF c
<1>11. CASE c > LowMod - 1
  <2>1. Low(c) # c
    BY <1>1, <1>3, <1>11
  <2> QED BY <1>1, <1>6, <1>11, <2>1 DEF c
<1> QED BY <1>1, <1>9, <1>10, <1>11

InStep == key = Radio!GwKey /\ frame.tag.ctr < LowMod - 1

\* While the node waits, the ACK of its frame is on the way; a frame that is sent
\* again is not acknowledged the next time either.
StepInv ==
    /\ pc = "await" =>
          /\ ackDue = Due(len)
          /\ ack = [type |-> "ACK", id |-> config.id, low |-> frame.low,
                    tag |-> Tag(Radio!GwKey, frame.low), body |-> Handler!NoBody]
    /\ (pc = "transmit" /\ attempt > 0) \/ pc = "backoff" => ~InStep
    /\ AckedInStep

LEMMA Await ==
    ASSUME AckInTime, LinkInv, StepInv, pc = "await"
    PROVE  /\ Radio!AckWithin(AckDeadline)
           /\ ValidAck(Radio!Received(AckDeadline)) <=> InStep
           /\ Radio!LoraRecv(AckDeadline) =>
                ack' = NoFrame /\ UNCHANGED <<gwId, gwCtr, lastLow>>
<1>1. /\ len \in Lengths /\ nextTx \in 1 .. MaxCtr /\ nextTx > 1
      /\ frame = Frame("DATA", config.id, Tag(key, nextTx - 1))
  BY DEF LinkInv, FrameInv, Sending, TypeOK
<1>2. frame.low = Low(nextTx - 1) /\ frame.tag.ctr = nextTx - 1
  BY <1>1 DEF Frame, Tag, Auth!Tag
<1>3. ack = [type |-> "ACK", id |-> config.id, low |-> frame.low,
             tag |-> Tag(Radio!GwKey, frame.low), body |-> Handler!NoBody]
  BY DEF StepInv
<1>4. ack # NoFrame
  BY <1>3 DEF NoFrame
<1>5. ackDue < AckDeadline
  BY <1>1 DEF StepInv, AckInTime, AckDeadline
<1>6. Radio!AckWithin(AckDeadline)
  BY <1>4, <1>5 DEF Radio!AckWithin
<1>7. Radio!Received(AckDeadline) = ack
  BY <1>6 DEF Radio!Received
<1>8. ValidAck(ack) <=> Auth!AckVerifies(frame.low, Tag(Radio!GwKey, frame.low))
  BY <1>3 DEF ValidAck
<1>9. Auth!AckVerifies(frame.low, Tag(Radio!GwKey, frame.low)) <=> InStep
  BY <1>1, <1>2, AckByte DEF InStep
<1> QED BY <1>6, <1>7, <1>8, <1>9 DEF Radio!LoraRecv

LEMMA StepStep ==
    ASSUME AckInTime, LinkInv, StepInv, [Next]_vars
    PROVE  StepInv'
<1> USE DEF authVars, radioVars, sendVars
<1>1. CASE LoadConfig
  BY <1>1 DEF LoadConfig, StepInv, AckedInStep
<1>2. CASE Prepare
  BY <1>2 DEF Prepare, StepInv, AckedInStep
<1>3. CASE BuildAndSign
  BY <1>3 DEF BuildAndSign, StepInv, AckedInStep
<1>4. CASE Transmit
  <2>1. /\ len \in Nat /\ Radio!LoraSend(frame, len) /\ pc' = "await"
        /\ UNCHANGED <<config, authVars, sendVars>>
    BY <1>4, Waits DEF Transmit, LinkInv, FrameInv, Sending
  <2>2. frame.id = config.id
    BY <1>4 DEF Transmit, LinkInv, FrameInv, Sending, Frame
  <2>3. /\ ack' = [type |-> "ACK", id |-> frame.id, low |-> frame.low,
                   tag |-> Tag(Radio!GwKey, frame.low), body |-> Handler!NoBody]
        /\ ackDue' = Due(len) /\ UNCHANGED gwId
    BY <2>1, SendFacts
  <2>4. Radio!GwKey' = Radio!GwKey
    BY <2>3 DEF Radio!GwKey
  <2> QED BY <2>1, <2>2, <2>3, <2>4 DEF StepInv, AckedInStep
<1>5. CASE GiveUp
  <2>1. ~InStep
    BY <1>5, LinkAssumption DEF GiveUp, StepInv, LinkInv, TypeOK
  <2> QED BY <1>5, <2>1 DEF GiveUp, StepInv, AckedInStep, InStep, Radio!GwKey
<1>6. CASE AckArrives
  <2>1. InStep /\ UNCHANGED gwId
    BY <1>6, Await DEF AckArrives
  <2> QED BY <1>6, <2>1 DEF AckArrives, StepInv, AckedInStep, InStep, Radio!GwKey
<1>7. CASE NoValidAck
  <2>1. ~InStep /\ UNCHANGED gwId
    BY <1>7, Await DEF NoValidAck
  <2> QED BY <1>7, <2>1 DEF NoValidAck, StepInv, AckedInStep, InStep, Radio!GwKey
<1>8. CASE BackOff
  BY <1>8 DEF BackOff, Radio!Pause, StepInv, AckedInStep, InStep, Radio!GwKey
<1>9. CASE Listen
  BY <1>9 DEF Listen, StepInv, AckedInStep
<1>10. CASE DecodeFrame
  BY <1>10 DEF DecodeFrame, StepInv, AckedInStep
<1>11. CASE Reply
  BY <1>11 DEF Reply, StepInv, AckedInStep
<1>12. CASE SaveConfig
  BY <1>12 DEF SaveConfig, StepInv, AckedInStep
<1>13. CASE WakeUp
  BY <1>13 DEF WakeUp, StepInv, AckedInStep
<1>14. CASE Restart
  BY <1>14 DEF Restart, StepInv, AckedInStep
<1>15. CASE UNCHANGED vars
  BY <1>15 DEF vars, StepInv, AckedInStep, InStep, Radio!GwKey
<1> QED
  BY <1>1, <1>2, <1>3, <1>4, <1>5, <1>6, <1>7, <1>8, <1>9, <1>10, <1>11, <1>12,
     <1>13, <1>14, <1>15 DEF Next, NodeStep

(***************************************************************************)
(* Where an ACK is due within the node's window, a frame is acknowledged   *)
(* exactly when node and gateway have one key and its counter is in the    *)
(* first block of the byte and not its last: later frames are sent         *)
(* MaxRetries times and given up (sx1262_fake.cpp:129, lora_auth.cpp:141). *)
(***************************************************************************)
THEOREM AcksInStep ==
    ASSUME AckInTime
    PROVE  Spec => []AckedInStep
<1>1. Init => StepInv
  BY DEF Init, StepInv, AckedInStep
<1>2. LinkInv /\ StepInv /\ [Next]_vars => StepInv'
  BY StepStep
<1>3. StepInv => AckedInStep
  BY DEF StepInv
<1> QED BY <1>1, <1>2, <1>3, LinkInvariance, PTL DEF Spec

-----------------------------------------------------------------------------
(* The two ids.                                                            *)

\* Until the first CONFIG frame the gateway is as it was switched on; from then on
\* it has the new id, and so has the node, in RAM or in the store, if that frame
\* came early enough, except while it decodes it.
IdInv ==
    /\ firstAt = 0 => /\ gwId = FirstId /\ gwCtr = 0 /\ lastRx = 0
                      /\ pc \notin {"decode", "reply"}
                      /\ ack # NoFrame => pc = "await"
    /\ firstAt # 0 => gwId = NewId
    /\ pc \in Sending \cup {"build", "decode"} => lastDerivedId = config.id
    /\ pc = "sleep" => store = config
    /\ firstAt # 0 /\ firstAt < LowMod - WrapBand =>
          \/ pc = "load" /\ store.id = NewId
          \/ pc # "load" /\ config.id = NewId
          \/ pc = "decode" /\ frame.type = "CONFIG" /\ frame.id = config.id

LEMMA IdApart ==
    ASSUME LinkInv, IdInv
    PROVE  ApartForAReason
<1>1. pc = "sleep" => config.id \in {FirstId, NewId}
  BY DEF LinkInv, TypeOK, FrameInv
<1>2. firstAt \in Nat /\ LowMod - WrapBand \in Int
  BY LinkAssumption, CounterAssumption DEF LinkInv, TypeOK
<1>3. gwId = IF firstAt = 0 THEN FirstId ELSE NewId
  BY DEF IdInv
<1>4. pc = "sleep" /\ firstAt # 0 /\ firstAt < LowMod - WrapBand => config.id = NewId
  BY DEF IdInv
<1> QED BY <1>1, <1>2, <1>3, <1>4 DEF ApartForAReason

\* The gateway's first frame carries counter 1.
LEMMA FirstCounter ==
    ASSUME LinkInv, IdInv, firstAt = 0
    PROVE  /\ Radio!NextGwCtr = 1
           /\ Radio!Injection.type = "CONFIG" /\ Radio!Injection.id = FirstId
           /\ Radio!Injection.low = 1 /\ Radio!Injection.tag = Tag(DeviceKey(FirstId), 1)
<1>1. 1 \in Nat /\ LowMod \in Nat /\ 1 < LowMod
  BY CounterAssumption
<1>2. 1 % LowMod = 1
  BY <1>1, ModSmall
<1>3. gwCtr = 0 /\ gwId = FirstId
  BY DEF IdInv
<1>4. gwCtr + 1 = 1
  BY <1>3
<1>5. Radio!NextGwCtr = 1
  BY <1>2, <1>4 DEF Radio!NextGwCtr
<1> QED BY <1>3, <1>5 DEF Radio!Injection, Radio!GwKey

\* A node that still has the first id, before the band of the wrap, accepts it.
LEMMA FirstAccepted ==
    ASSUME LinkInv, IdInv, firstAt = 0, pc = "build", config.id = FirstId,
           nextTx < LowMod - WrapBand
    PROVE  Auth!Verifies(Radio!Injection.low, Radio!Injection.tag)
<1>1. nextTx \in Nat /\ nextTx < LowMod /\ LowMod \in Nat
  BY CounterAssumption, LinkAssumption DEF LinkInv, TypeOK
<1>2. Low(nextTx) = nextTx
  BY <1>1, ModSmall DEF Low
<1>3. ~Wrapped(1, nextTx)
  BY <1>1, <1>2, CounterAssumption DEF Wrapped
<1>4. nextTx - Low(nextTx) + 1 + 0 = 1
  BY <1>1, <1>2
<1>5. 1 % CtrMod = 1
  BY ModSmall, CounterAssumption
<1>6. Reconstruct(1, nextTx) = 1
  BY <1>3, <1>4, <1>5 DEF Reconstruct
<1>7. Auth!RxCounter(1) = 1
  BY <1>6 DEF Auth!RxCounter, Auth!Reconstruct, Reconstruct, Auth!Wrapped, Wrapped,
              Auth!Low, Low
<1>8. Auth!RxBase = 0
  BY DEF Auth!RxBase, IdInv
<1>9. key = DeviceKey(FirstId)
  BY DEF IdInv, LinkInv, TypeOK
<1> QED
  BY <1>7, <1>8, <1>9, FirstCounter
     DEF Auth!Verifies, Auth!Fresh, Tag

LEMMA IdStep ==
    ASSUME AckInTime, LinkInv, StepInv, IdInv, [Next]_vars
    PROVE  IdInv'
<1> USE DEF authVars, radioVars, sendVars
<1>t. /\ config \in Config /\ nextTx \in 1 .. MaxCtr /\ lastRx \in Counter /\ lastRxTime \in Nat
      /\ now \in Nat /\ key = DeviceKey(lastDerivedId) /\ AckShape
      /\ gwId \in {FirstId, NewId} /\ gwCtr \in LowByte /\ ackDue \in Nat
  BY DEF LinkInv, TypeOK, Config
<1>1. CASE LoadConfig
  BY <1>1 DEF LoadConfig, IdInv, Sending
<1>2. CASE Prepare
  <2>1. Auth!InitKey
    BY <1>2 DEF Prepare
  <2>2. /\ config'.id = config.id /\ lastDerivedId' = config.id /\ lastRx' \in {0, lastRx}
    BY <1>t, <2>1, KeyFacts
  <2> QED BY <1>2, <2>2 DEF Prepare, IdInv, Sending
<1>3. CASE BuildAndSign
  <2>1. Auth!Sign
    BY <1>3 DEF BuildAndSign
  <2>2. /\ config'.id = config.id
        /\ UNCHANGED <<key, lastDerivedId, lastRx, lastRxTime>>
    BY <1>t, <2>1, SignFacts
  <2> QED BY <1>3, <2>2 DEF BuildAndSign, IdInv, Sending
<1>4. CASE Transmit
  BY <1>4 DEF Transmit, Radio!LoraSend, IdInv, Sending
<1>5. CASE GiveUp
  BY <1>5 DEF GiveUp, IdInv, Sending
<1>6. CASE AckArrives
  <2>1. ack' = NoFrame /\ UNCHANGED <<gwId, gwCtr>>
    BY <1>6, Await DEF AckArrives
  <2>2. firstAt' = firstAt
    BY <1>6, <2>1 DEF AckArrives, NoteInjection
  <2> QED BY <1>6, <2>1, <2>2 DEF AckArrives, IdInv, Sending
<1>7. CASE NoValidAck
  <2>1. ack' = NoFrame /\ UNCHANGED <<gwId, gwCtr>>
    BY <1>7, Await DEF NoValidAck
  <2>2. firstAt' = firstAt
    BY <1>7, <2>1 DEF NoValidAck, NoteInjection
  <2> QED BY <1>7, <2>1, <2>2 DEF NoValidAck, IdInv, Sending
<1>8. CASE BackOff
  BY <1>8 DEF BackOff, Radio!Pause, IdInv, Sending
<1>9. CASE Listen
  <2> DEFINE f == Radio!Received(ListenWindow)
  <2>1. /\ config'.id = config.id /\ lastDerivedId' = lastDerivedId
        /\ pc' \in {"decode", "save"} /\ (f = NoFrame => pc' = "save" /\ lastRx' = lastRx)
        /\ (f # NoFrame => frame' = f /\ (Auth!Verifies(f.low, f.tag) => pc' = "decode"))
    <3>1. CASE f = NoFrame
      BY <1>9, <3>1 DEF Listen
    <3>2. CASE f # NoFrame
      <4>1. Auth!VerifyFrame(f.low, f.tag)
        BY <1>9, <3>2 DEF Listen
      <4>2. ListenWindow \in Nat /\ Radio!LoraRecv(ListenWindow)
        BY <1>9, Waits DEF Listen
      <4>3. f.low \in LowByte
        BY <1>t, <3>2, <4>2, RecvFacts
      <4>4. config'.id = config.id /\ lastDerivedId' = lastDerivedId
        BY <1>t, <4>1, <4>3, VerifyFacts
      <4> QED BY <1>9, <3>2, <4>4 DEF Listen
    <3> QED BY <3>1, <3>2
  <2>2. /\ pc = "build" /\ lastDerivedId = config.id
        /\ Radio!LoraRecv(ListenWindow) /\ NoteInjection
    BY <1>9 DEF Listen, IdInv
  <2>3. CASE firstAt = 0
    <3>1. ack = NoFrame /\ gwCtr = 0 /\ gwId = FirstId /\ lastRx = 0
      BY <2>2, <2>3 DEF IdInv
    <3>2. ~Radio!AckWithin(ListenWindow)
      BY <3>1 DEF Radio!AckWithin
    <3>3. CASE Radio!Injects
      <4>1. f = Radio!Injection /\ gwCtr' = 1 /\ gwId' = NewId
        BY <2>2, <2>3, <3>2, <3>3, FirstCounter DEF Radio!Received, Radio!LoraRecv
      <4>2. firstAt' = nextTx /\ nextTx # 0
        BY <1>t, <2>2, <2>3, <3>1, <4>1 DEF NoteInjection
      <4>3. f.type = "CONFIG" /\ f.id = FirstId
        BY <2>3, <4>1, FirstCounter
      <4>4. f # NoFrame
        BY <4>3 DEF NoFrame
      <4>5. config.id \in {FirstId, NewId}
        BY <2>2 DEF LinkInv, TypeOK, FrameInv
      <4>6. nextTx < LowMod - WrapBand /\ config.id = FirstId =>
              pc' = "decode" /\ frame'.type = "CONFIG" /\ frame'.id = config'.id
        BY <2>1, <2>2, <2>3, <4>1, <4>3, <4>4, FirstAccepted
      <4> HIDE DEF f
      <4> QED BY <2>1, <2>2, <4>1, <4>2, <4>5, <4>6 DEF IdInv, Sending
    <3>4. CASE ~Radio!Injects
      <4>1. f = NoFrame /\ UNCHANGED <<gwCtr, gwId, ack>>
        BY <2>2, <3>2, <3>4 DEF Radio!Received, Radio!LoraRecv
      <4>2. firstAt' = 0
        BY <2>2, <2>3, <4>1 DEF NoteInjection
      <4> HIDE DEF f
      <4> QED BY <2>1, <2>3, <3>1, <4>1, <4>2 DEF IdInv, Sending
    <3> QED BY <3>3, <3>4
  <2>4. CASE firstAt # 0
    <3>1. gwId' = NewId
      BY <2>2, <2>4 DEF IdInv, Radio!LoraRecv
    <3>2. firstAt' = firstAt
      BY <2>2, <2>4 DEF NoteInjection
    <3>3. firstAt < LowMod - WrapBand => config.id = NewId
      BY <2>2, <2>4 DEF IdInv
    <3> HIDE DEF f
    <3> QED BY <2>1, <2>2, <2>4, <3>1, <3>2, <3>3 DEF IdInv, Sending
  <2> QED BY <2>3, <2>4
<1>10. CASE DecodeFrame
  <2>1. Handler!Decode(frame) /\ Decodable(frame) /\ firstAt # 0
    BY <1>10 DEF DecodeFrame, LinkInv, FrameInv, IdInv
  <2>2. config' = IF frame.type = "CONFIG" /\ frame.id = config.id
                  THEN [config EXCEPT !.id = NewId] ELSE config
    BY <2>1, DecodeFacts
  <2>3. firstAt < LowMod - WrapBand => config'.id = NewId
    BY <1>10, <1>t, <2>1, <2>2 DEF DecodeFrame, IdInv, Config
  <2> QED BY <1>10, <2>1, <2>3 DEF DecodeFrame, IdInv, Sending
<1>11. CASE Reply
  <2>1. Auth!Sign /\ firstAt # 0
    BY <1>11 DEF Reply, IdInv
  <2>2. config'.id = config.id
    BY <1>t, <2>1, SignFacts
  <2> QED BY <1>11, <2>1, <2>2 DEF Reply, Radio!LoraSend, IdInv, Sending
<1>12. CASE SaveConfig
  BY <1>12 DEF SaveConfig, IdInv, Sending
<1>13. CASE WakeUp
  BY <1>13 DEF WakeUp, Radio!Pause, IdInv, Sending
<1>14. CASE Restart
  BY <1>14 DEF Restart, Auth!AuthReset, Radio!RadioReset, IdInv, Sending
<1>15. CASE UNCHANGED vars
  BY <1>15 DEF vars, IdInv
<1> QED
  BY <1>1, <1>2, <1>3, <1>4, <1>5, <1>6, <1>7, <1>8, <1>9, <1>10, <1>11, <1>12,
     <1>13, <1>14, <1>15 DEF Next, NodeStep

(***************************************************************************)
(* Where an ACK is due within the node's window, node and gateway part for *)
(* two reasons only: the node came up with the new id and was not yet told *)
(* of it, or the first CONFIG frame came when the transmit counter was in  *)
(* the last WrapBand values of a block or beyond the first block           *)
(* (sx1262_fake.cpp:219, lora_auth.cpp:98).                                *)
(***************************************************************************)
THEOREM ApartExplained ==
    ASSUME AckInTime
    PROVE  Spec => []ApartForAReason
<1>1. Init => StepInv /\ IdInv
  BY DEF Init, Radio!RadioInit, StepInv, AckedInStep, IdInv, Sending
<1>2. LinkInv /\ StepInv /\ IdInv /\ [Next]_vars => StepInv' /\ IdInv'
  BY StepStep, IdStep
<1>3. LinkInv /\ IdInv => ApartForAReason
  BY IdApart
<1> QED BY <1>1, <1>2, <1>3, LinkInvariance, PTL DEF Spec
===============================================================================
