------------------------ MODULE SecurityCounter_proofs ------------------------
(***************************************************************************)
(* Facts about the counter arithmetic, for every width of the counters.    *)
(***************************************************************************)
EXTENDS SecurityCounter, TLAPS

LEMMA DivMod ==
    ASSUME NEW a \in Int, NEW m \in Nat, m > 0
    PROVE  /\ a % m \in 0 .. (m - 1)
           /\ a \div m \in Int
           /\ a = m * (a \div m) + (a % m)
  OBVIOUS

LEMMA ModSmall ==
    ASSUME NEW a \in Nat, NEW m \in Nat, a < m
    PROVE  a % m = a
  OBVIOUS

LEMMA NextBlock ==
    ASSUME NEW p \in Int, NEW q \in Int, NEW m \in Nat, p < q
    PROVE  m * p + m <= m * q
<1>1. PICK d \in Nat : q = p + 1 + d
  <2>1. q - p - 1 \in Nat /\ q = p + 1 + (q - p - 1)
    OBVIOUS
  <2> QED BY <2>1
<1>2. m * q = m * p + m + m * d
  BY <1>1
<1>3. m * d \in Nat /\ m * p \in Int
  OBVIOUS
<1> QED BY <1>2, <1>3

\* A full counter is a block and a byte.
LEMMA Split ==
    ASSUME NEW c \in Nat
    PROVE  \E b \in Nat : c = LowMod * b + Low(c) /\ Low(c) \in LowByte
<1>1. /\ c % LowMod \in 0 .. (LowMod - 1)
      /\ c \div LowMod \in Int
      /\ c = LowMod * (c \div LowMod) + (c % LowMod)
  BY DivMod, CounterAssumption
<1>2. c \div LowMod >= 0
  <2> SUFFICES ASSUME c \div LowMod < 0 PROVE FALSE
    BY <1>1
  <2>1. LowMod * (c \div LowMod) + LowMod <= LowMod * 0
    BY <1>1, NextBlock, CounterAssumption
  <2> QED BY <1>1, <2>1, CounterAssumption
<1> QED BY <1>1, <1>2 DEF Low, LowByte

\* One step down stays in the block, or goes to the end of the block before.
LEMMA LowBefore ==
    ASSUME NEW n \in Nat, n > 0
    PROVE  Low(n - 1) = IF Low(n) = 0 THEN LowMod - 1 ELSE Low(n) - 1
<1>1. PICK b \in Nat : n = LowMod * b + Low(n) /\ Low(n) \in LowByte
  BY Split
<1>2. PICK p \in Nat : n - 1 = LowMod * p + Low(n - 1) /\ Low(n - 1) \in LowByte
  BY Split
<1> DEFINE bL == LowMod * b
           pL == LowMod * p
<1>3. bL \in Nat /\ pL \in Nat
  BY CounterAssumption
<1>4. p = b => pL = bL
  OBVIOUS
<1>5. p < b => pL + LowMod <= bL
  BY NextBlock, CounterAssumption
<1>6. p > b => bL + LowMod <= pL
  BY NextBlock, CounterAssumption
<1>7. p + 1 < b => pL + LowMod + LowMod <= bL
  <2>1. LowMod * (p + 1) = pL + LowMod
    BY CounterAssumption
  <2>2. p + 1 < b => LowMod * (p + 1) + LowMod <= bL
    BY NextBlock, CounterAssumption
  <2> QED BY <2>1, <2>2
<1>8. p + 1 = b => bL = pL + LowMod
  BY CounterAssumption
<1>9. n = bL + Low(n) /\ n - 1 = pL + Low(n - 1)
  BY <1>1, <1>2
<1> HIDE DEF bL, pL
<1>10. Low(n) \in 0 .. (LowMod - 1) /\ Low(n - 1) \in 0 .. (LowMod - 1)
  BY <1>1, <1>2 DEF LowByte
<1> QED
  BY <1>3, <1>4, <1>5, <1>6, <1>7, <1>8, <1>9, <1>10, CounterAssumption

LEMMA ReconstructType ==
    ASSUME NEW low \in Nat, NEW full \in Nat
    PROVE  Reconstruct(low, full) \in Counter
<1> DEFINE sum == full - Low(full) + low + (IF Wrapped(low, full) THEN LowMod ELSE 0)
<1>1. sum \in Int
  BY Split, CounterAssumption DEF LowByte
<1> HIDE DEF sum
<1>2. sum % CtrMod \in 0 .. (CtrMod - 1)
  BY <1>1, DivMod, CounterAssumption
<1> QED BY <1>2 DEF Reconstruct, Counter, sum

\* Away from the end of the counter, what the reconstruction adds up does not
\* wrap.
LEMMA ReconstructSum ==
    ASSUME NEW full \in Nat, NEW low \in LowByte, full + LowMod < CtrMod
    PROVE  Reconstruct(low, full)
             = full - Low(full) + low + (IF Wrapped(low, full) THEN LowMod ELSE 0)
<1> DEFINE sum == full - Low(full) + low + (IF Wrapped(low, full) THEN LowMod ELSE 0)
<1>1. Low(full) \in LowByte /\ Low(full) <= full
  <2>1. PICK b \in Nat : full = LowMod * b + Low(full) /\ Low(full) \in LowByte
    BY Split
  <2>2. LowMod * b \in Nat
    BY CounterAssumption
  <2> QED BY <2>1, <2>2 DEF LowByte
<1>2. sum \in Nat /\ sum < CtrMod
  <2>1. CASE Wrapped(low, full)
    <3>1. low < Low(full)
      BY <2>1, <1>1, CounterAssumption DEF Wrapped, LowByte
    <3> QED BY <2>1, <3>1, <1>1, CounterAssumption DEF LowByte
  <2>2. CASE ~Wrapped(low, full)
    BY <2>2, <1>1, CounterAssumption DEF LowByte
  <2> QED BY <2>1, <2>2
<1> HIDE DEF sum
<1>3. sum % CtrMod = sum
  BY <1>2, ModSmall, CounterAssumption
<1> QED BY <1>3 DEF Reconstruct, sum

(***************************************************************************)
(* The reconstruction returns the counter a byte came from exactly when    *)
(* that counter lies in the window around the receiver's own counter       *)
(* (lora_auth.cpp:157-171), for every width of byte, band and counter.     *)
(***************************************************************************)
THEOREM WindowExact ==
    ASSUME NEW c \in Nat, NEW full \in Nat, full + LowMod < CtrMod
    PROVE  Reconstruct(Low(c), full) = c <=> InWindow(c, full)
<1> DEFINE s == Low(c)
           r == Low(full)
<1>1. PICK q \in Nat : c = LowMod * q + s /\ s \in LowByte
  BY Split
<1>2. PICK b \in Nat : full = LowMod * b + r /\ r \in LowByte
  BY Split
<1>3. Reconstruct(s, full) = full - r + s + (IF Wrapped(s, full) THEN LowMod ELSE 0)
  BY <1>1, ReconstructSum
<1>4. Wrapped(s, full) <=> s < WrapBand /\ r >= LowMod - WrapBand
  BY DEF Wrapped
<1>5. InWindow(c, full) <=>
        LET skip == IF r >= LowMod - WrapBand THEN WrapBand ELSE 0
        IN  full - r + skip <= c /\ c < full - r + skip + LowMod
  BY DEF InWindow
<1> HIDE DEF s, r
<1> DEFINE qL == LowMod * q
           bL == LowMod * b
<1>6. qL \in Nat /\ bL \in Nat
  BY CounterAssumption
<1>7. /\ q < b => qL + LowMod <= bL
      /\ q = b => qL = bL
      /\ q = b + 1 => qL = bL + LowMod
      /\ q > b + 1 => bL + LowMod + LowMod <= qL
  <2>1. q < b => qL + LowMod <= bL
    BY NextBlock, CounterAssumption
  <2>2. LowMod * (b + 1) = bL + LowMod
    BY CounterAssumption
  <2>3. q > b + 1 => LowMod * (b + 1) + LowMod <= qL
    BY NextBlock, CounterAssumption
  <2> QED BY <2>1, <2>2, <2>3
<1>8. q < b \/ q = b \/ q = b + 1 \/ q > b + 1
  OBVIOUS
<1> HIDE DEF qL, bL
<1>9. c = qL + s /\ full = bL + r
  BY <1>1, <1>2 DEF qL, bL
<1>10. s \in 0 .. (LowMod - 1) /\ r \in 0 .. (LowMod - 1)
  BY <1>1, <1>2 DEF LowByte
<1>11. Reconstruct(s, full) = c <=> InWindow(c, full)
  BY <1>3, <1>4, <1>5, <1>6, <1>7, <1>8, <1>9, <1>10, CounterAssumption
<1> QED BY <1>11 DEF s
==============================================================================
