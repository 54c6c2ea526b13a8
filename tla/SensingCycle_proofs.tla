------------------------- MODULE SensingCycle_proofs --------------------------
(***************************************************************************)
(* The measuring side of the node, for every set of sensors, order of      *)
(* registration, batch size, threshold and battery: what the batch of a    *)
(* cycle holds, how long a sleep lasts, when the deep sleep ends; and the  *)
(* calibration of the soil sensor, for every voltage.                      *)
(***************************************************************************)
EXTENDS SensingCycle, SequenceTheorems, FiniteSetTheorems, WellFoundedInduction, TLAPS

-----------------------------------------------------------------------------
(* FlattenSeq, which joins the measurements of one sensor after the other. *)
(* Its recursion is met with the least number at which a claim fails.      *)

NatLess == {pair \in Nat \X Nat : pair[1] < pair[2]}

LEMMA NatLessWellFounded == IsWellFoundedOn(NatLess, Nat)
  BY NatLessThanWellFounded DEF NatLess, OpToRel

LEMMA LeastOf ==
    ASSUME NEW T, T \subseteq Nat, T # {}
    PROVE  \E least \in T : \A n \in T : least <= n
<1>1. PICK least \in T : \A n \in T : ~(<<n, least>> \in NatLess)
  BY NatLessWellFounded, WFMin
<1>2. \A n \in T : ~(n < least)
  BY <1>1 DEF NatLess
<1>3. \A n \in T : n \in Nat /\ least \in Nat
  OBVIOUS
<1>4. \A n \in T : least <= n
  BY <1>2, <1>3
<1> QED BY <1>4

\* "f" holds what the first n members of M join to, for every n up to "last".
Joins(f, M, last) ==
    f = [i \in 1 .. last |-> IF i = 1 THEN M[i] ELSE f[i - 1] \o M[i]]

\* What the first n members of M join to.
Joined(M, n) == FlattenSeq([i \in 1 .. n |-> M[i]])

LEMMA JoinsAt ==
    ASSUME NEW f, NEW M, NEW last \in Nat, Joins(f, M, last)
    PROVE  /\ \A i \in 1 .. last : f[i] = IF i = 1 THEN M[i] ELSE f[i - 1] \o M[i]
           /\ f = [i \in 1 .. last |-> f[i]]
<1> DEFINE rec(i) == IF i = 1 THEN M[i] ELSE f[i - 1] \o M[i]
<1>1. f = [i \in 1 .. last |-> rec(i)]
  BY DEF Joins
<1> HIDE DEF rec
<1>2. \A i \in 1 .. last : f[i] = rec(i)
  BY <1>1
<1>3. f = [i \in 1 .. last |-> f[i]]
  BY <1>1
<1> QED BY <1>2, <1>3 DEF rec

LEMMA JoinsIf ==
    ASSUME NEW f, NEW M, NEW last \in Nat, f = [i \in 1 .. last |-> f[i]],
           \A i \in 1 .. last : f[i] = IF i = 1 THEN M[i] ELSE f[i - 1] \o M[i]
    PROVE  Joins(f, M, last)
<1> DEFINE rec(i) == IF i = 1 THEN M[i] ELSE f[i - 1] \o M[i]
<1> HIDE DEF rec
<1>1. \A i \in 1 .. last : f[i] = rec(i)
  BY DEF rec
<1>2. f = [i \in 1 .. last |-> rec(i)]
  BY <1>1
<1> QED BY <1>2 DEF Joins, rec

LEMMA JoinsExtend ==
    ASSUME NEW f, NEW M, NEW n \in Nat, Joins(f, M, n)
    PROVE  \E g : Joins(g, M, n + 1)
<1> DEFINE top == IF n = 0 THEN M[1] ELSE f[n] \o M[n + 1]
           g == [i \in 1 .. n + 1 |-> IF i = n + 1 THEN top ELSE f[i]]
<1> HIDE DEF top
<1>1. \A i \in 1 .. n + 1 : g[i] = IF i = n + 1 THEN top ELSE f[i]
  OBVIOUS
<1>2. g = [i \in 1 .. n + 1 |-> g[i]]
  OBVIOUS
<1> HIDE DEF g
<1>3. ASSUME NEW i \in 1 .. n + 1
      PROVE  g[i] = IF i = 1 THEN M[i] ELSE g[i - 1] \o M[i]
  <2>1. CASE i = n + 1
    <3>1. CASE n = 0
      BY <1>1, <2>1, <3>1 DEF top
    <3>2. CASE n # 0
      <4>1. i # 1 /\ i - 1 = n /\ n \in 1 .. n + 1 /\ n # n + 1
        BY <2>1, <3>2
      <4>2. g[i] = f[n] \o M[n + 1] /\ g[i - 1] = f[n]
        BY <1>1, <2>1, <3>2, <4>1 DEF top
      <4> QED BY <2>1, <4>1, <4>2
    <3> QED BY <3>1, <3>2
  <2>2. CASE i # n + 1
    <3>1. i \in 1 .. n /\ (i # 1 => i - 1 \in 1 .. n + 1 /\ i - 1 # n + 1)
      BY <2>2
    <3>2. f[i] = IF i = 1 THEN M[i] ELSE f[i - 1] \o M[i]
      BY <3>1, JoinsAt
    <3> QED BY <1>1, <2>2, <3>1, <3>2
  <2> QED BY <2>1, <2>2
<1>4. Joins(g, M, n + 1)
  <2>1. n + 1 \in Nat
    OBVIOUS
  <2> QED BY <1>2, <1>3, <2>1, JoinsIf
<1> QED BY <1>4

LEMMA JoinsExists ==
    ASSUME NEW M, NEW n \in Nat
    PROVE  \E f : Joins(f, M, n)
<1> DEFINE bad == {k \in Nat : ~\E f : Joins(f, M, k)}
<1> SUFFICES ASSUME bad # {} PROVE FALSE
  OBVIOUS
<1>1. PICK k \in bad : \A m \in bad : k <= m
  BY LeastOf
<1>2. k # 0
  <2> DEFINE empty == [i \in 1 .. 0 |-> 0]
  <2>1. Joins(empty, M, 0)
    <3>1. /\ empty = [i \in 1 .. 0 |-> empty[i]] /\ 0 \in Nat
          /\ \A i \in 1 .. 0 : empty[i] = IF i = 1 THEN M[i] ELSE empty[i - 1] \o M[i]
      OBVIOUS
    <3> QED BY <3>1, JoinsIf
  <2> QED BY <2>1
<1>3. k - 1 \in Nat /\ k - 1 \notin bad /\ k - 1 + 1 = k
  BY <1>1, <1>2
<1>4. PICK f : Joins(f, M, k - 1)
  BY <1>3
<1>5. \E g : Joins(g, M, k - 1 + 1)
  BY <1>3, <1>4, JoinsExtend
<1> QED BY <1>3, <1>5

LEMMA JoinsUnique ==
    ASSUME NEW M, NEW n \in Nat, NEW f, NEW g, Joins(f, M, n), Joins(g, M, n)
    PROVE  f = g
<1> DEFINE bad == {i \in 1 .. n : f[i] # g[i]}
<1>1. bad = {}
  <2> SUFFICES ASSUME bad # {} PROVE FALSE
    OBVIOUS
  <2>1. PICK i \in bad : \A j \in bad : i <= j
    <3>1. bad \subseteq Nat
      OBVIOUS
    <3> HIDE DEF bad
    <3> QED BY <3>1, LeastOf
  <2>2. CASE i = 1
    BY <2>1, <2>2, JoinsAt
  <2>3. CASE i # 1
    <3>1. i - 1 \in 1 .. n /\ i - 1 \notin bad
      BY <2>1, <2>3
    <3>2. f[i - 1] = g[i - 1]
      BY <3>1
    <3> QED BY <2>1, <2>3, <3>2, JoinsAt
  <2> QED BY <2>2, <2>3
<1>2. \A i \in 1 .. n : f[i] = g[i]
  BY <1>1
<1> QED BY <1>2, JoinsAt

\* Joining is defined for every length ...
LEMMA JoinedIs ==
    ASSUME NEW M, NEW n \in Nat, n # 0, NEW f, Joins(f, M, n)
    PROVE  Joined(M, n) = f[n]
<1> DEFINE S == [i \in 1 .. n |-> M[i]]
<1>1. Len(S) = n
  OBVIOUS
<1>2. \A h : h = [i \in 1 .. n |-> IF i = 1 THEN S[i] ELSE h[i - 1] \o S[i]] <=> Joins(h, M, n)
  <2> TAKE h
  <2> DEFINE recS(i) == IF i = 1 THEN S[i] ELSE h[i - 1] \o S[i]
             recM(i) == IF i = 1 THEN M[i] ELSE h[i - 1] \o M[i]
  <2>1. \A i \in 1 .. n : recS(i) = recM(i)
    OBVIOUS
  <2> HIDE DEF recS, recM
  <2>2. [i \in 1 .. n |-> recS(i)] = [i \in 1 .. n |-> recM(i)]
    BY <2>1
  <2> QED BY <2>2 DEF recS, recM, Joins
<1> HIDE DEF S
<1>3. FlattenSeq(S) =
        (CHOOSE h : h = [i \in 1 .. n |-> IF i = 1 THEN S[i] ELSE h[i - 1] \o S[i]])[n]
  BY <1>1 DEF FlattenSeq
<1>4. (CHOOSE h : h = [i \in 1 .. n |-> IF i = 1 THEN S[i] ELSE h[i - 1] \o S[i]]) = f
  BY <1>2, JoinsUnique
<1> QED BY <1>3, <1>4 DEF Joined, S

LEMMA JoinedNone ==
    ASSUME NEW M
    PROVE  Joined(M, 0) = <<>>
  BY DEF Joined, FlattenSeq

\* ... and takes one member after the other.
LEMMA JoinedStep ==
    ASSUME NEW X, NEW M, NEW n \in Nat, \A i \in 1 .. n + 1 : M[i] \in Seq(X)
    PROVE  /\ Joined(M, 0) = <<>>
           /\ Joined(M, n + 1) = Joined(M, n) \o M[n + 1]
<1>1. Joined(M, 0) = <<>>
  BY JoinedNone
<1>2. PICK f : Joins(f, M, n + 1)
  <2>1. n + 1 \in Nat
    OBVIOUS
  <2> QED BY <2>1, JoinsExists
<1>3. /\ n + 1 \in Nat /\ n + 1 # 0
      /\ f[n + 1] = IF n + 1 = 1 THEN M[n + 1] ELSE f[n + 1 - 1] \o M[n + 1]
  BY <1>2, JoinsAt
<1>4. Joined(M, n + 1) = f[n + 1]
  BY <1>2, <1>3, JoinedIs
<1>5. CASE n = 0
  <2>1. Joined(M, 1) = M[1] /\ M[1] \in Seq(X)
    BY <1>3, <1>4, <1>5
  <2>2. <<>> \o M[1] = M[1]
    BY <2>1
  <2> QED BY <1>1, <1>5, <2>1, <2>2
<1>6. CASE n # 0
  <2> DEFINE g == [i \in 1 .. n |-> f[i]]
  <2>1. Joins(g, M, n)
    <3>1. g = [i \in 1 .. n |-> g[i]] /\ \A i \in 1 .. n : g[i] = f[i]
      OBVIOUS
    <3> HIDE DEF g
    <3>2. ASSUME NEW i \in 1 .. n
          PROVE  g[i] = IF i = 1 THEN M[i] ELSE g[i - 1] \o M[i]
      <4>1. i \in 1 .. n + 1 /\ (i # 1 => i - 1 \in 1 .. n)
        OBVIOUS
      <4>2. f[i] = IF i = 1 THEN M[i] ELSE f[i - 1] \o M[i]
        BY <1>2, <4>1, JoinsAt
      <4> QED BY <3>1, <4>1, <4>2
    <3> QED BY <3>1, <3>2, JoinsIf
  <2>2. Joined(M, n) = g[n] /\ g[n] = f[n]
    BY <1>6, <2>1, JoinedIs
  <2>3. n + 1 # 1 /\ n + 1 - 1 = n
    BY <1>6
  <2> QED BY <1>1, <1>3, <1>4, <2>2, <2>3
<1> QED BY <1>5, <1>6

LEMMA JoinedType ==
    ASSUME NEW X, NEW M, NEW n \in Nat, \A i \in 1 .. n : M[i] \in Seq(X)
    PROVE  Joined(M, n) \in Seq(X)
<1> DEFINE bad == {k \in 0 .. n : Joined(M, k) \notin Seq(X)}
<1> SUFFICES ASSUME bad # {} PROVE FALSE
  OBVIOUS
<1>1. PICK k \in bad : \A m \in bad : k <= m
  <2>1. bad \subseteq Nat
    OBVIOUS
  <2> HIDE DEF bad
  <2> QED BY <2>1, LeastOf
<1>2. CASE k = 0
  <2>1. Joined(M, k) = <<>> /\ <<>> \in Seq(X)
    BY <1>2, JoinedNone
  <2> QED BY <1>1, <2>1
<1>3. CASE k # 0
  <2>1. k - 1 \in 0 .. n /\ k - 1 \notin bad /\ k - 1 + 1 = k /\ k \in 1 .. n
    BY <1>1, <1>3
  <2>2. \A i \in 1 .. (k - 1) + 1 : M[i] \in Seq(X)
    BY <2>1
  <2>3. Joined(M, k - 1) \in Seq(X) /\ M[k] \in Seq(X)
    BY <2>1
  <2>4. Joined(M, k) = Joined(M, k - 1) \o M[k]
    <3> HIDE DEF bad
    <3>1. k - 1 \in Nat
      BY <2>1
    <3> QED BY <2>1, <2>2, <3>1, JoinedStep
  <2>5. Joined(M, k) \in Seq(X)
    BY <2>3, <2>4
  <2> QED BY <1>1, <2>5
<1> QED BY <1>2, <1>3

\* Joining more members only adds at the end.
LEMMA JoinedPrefix ==
    ASSUME NEW X, NEW M, NEW n \in Nat, NEW last \in Nat, n <= last,
           \A i \in 1 .. last : M[i] \in Seq(X)
    PROVE  /\ Len(Joined(M, n)) <= Len(Joined(M, last))
           /\ \A k \in 1 .. Len(Joined(M, n)) : Joined(M, last)[k] = Joined(M, n)[k]
<1> DEFINE Prefix(m) ==
             /\ Len(Joined(M, n)) <= Len(Joined(M, m))
             /\ \A k \in 1 .. Len(Joined(M, n)) : Joined(M, m)[k] = Joined(M, n)[k]
           bad == {m \in n .. last : ~Prefix(m)}
<1>0. \A m \in n .. last : Joined(M, m) \in Seq(X)
  <2> TAKE m \in n .. last
  <2>1. m \in Nat /\ \A i \in 1 .. m : M[i] \in Seq(X)
    OBVIOUS
  <2> QED BY <2>1, JoinedType
<1> SUFFICES ASSUME bad # {} PROVE FALSE
  OBVIOUS
<1>1. PICK m \in bad : \A k \in bad : m <= k
  <2>1. bad \subseteq Nat
    OBVIOUS
  <2> HIDE DEF bad
  <2> QED BY <2>1, LeastOf
<1>2. m # n
  <2>1. Joined(M, n) \in Seq(X)
    BY <1>0
  <2>2. Prefix(n)
    BY <2>1
  <2> QED BY <1>1, <2>2
<1>3. m \in n .. last /\ m - 1 \in n .. last /\ m - 1 \notin bad /\ m - 1 + 1 = m
  BY <1>1, <1>2
<1>4. Joined(M, m) = Joined(M, m - 1) \o M[m]
  <2>1. m - 1 \in Nat /\ \A i \in 1 .. (m - 1) + 1 : M[i] \in Seq(X)
    BY <1>3
  <2> HIDE DEF bad, Prefix
  <2> QED BY <1>3, <2>1, JoinedStep
<1>5. /\ Joined(M, m - 1) \in Seq(X) /\ M[m] \in Seq(X) /\ Joined(M, n) \in Seq(X)
      /\ Prefix(m - 1)
  BY <1>0, <1>3
<1>6. Prefix(m)
  <2> DEFINE old == Joined(M, m - 1)
             few == Joined(M, n)
  <2>1. /\ old \in Seq(X) /\ M[m] \in Seq(X) /\ few \in Seq(X)
        /\ Len(few) <= Len(old) /\ \A k \in 1 .. Len(few) : old[k] = few[k]
    BY <1>5
  <2> HIDE DEF old, few
  <2>2. /\ Len(few) <= Len(old \o M[m])
        /\ \A k \in 1 .. Len(few) : (old \o M[m])[k] = few[k]
    BY <2>1
  <2> QED BY <1>4, <2>2 DEF old, few
<1> QED BY <1>1, <1>6

-----------------------------------------------------------------------------
(* Types.                                                                  *)

LEMMA MeasurementsType ==
    ASSUME NEW s \in Sensor
    PROVE  Measurements(s) \in Seq({m \in AllMeasurements : m[1] = s})
<1> DEFINE Own == {m \in AllMeasurements : m[1] = s}
<1>1. Count[s] \in Nat
  BY SensorAssumption
<1>2. \A j \in 1 .. Count[s] : <<s, j>> \in Own
  BY DEF AllMeasurements
<1> HIDE DEF Own
<1>3. [j \in 1 .. Count[s] |-> <<s, j>>] \in Seq(Own)
  BY <1>1, <1>2
<1> QED BY <1>3 DEF Measurements, Own

\* sample_all() samples a first part of the sensors.
LEMMA SampledType ==
    ASSUME sensors \in Seq(Sensor)
    PROVE  SampledCount \in 0 .. Len(sensors)
<1> DEFINE sampled == {i \in 1 .. Len(sensors) : Reached(i) /\ Works(sensors[i])}
           n == Len(sensors)
<1>0. n \in Nat /\ sampled \subseteq 1 .. n
  OBVIOUS
<1> HIDE DEF sampled, n
<1>1. IsFiniteSet(1 .. n) /\ Cardinality(1 .. n) = n
  <2>1. 1 \in Int /\ n \in Int /\ (1 > n <=> n = 0) /\ n - 1 + 1 = n
    BY <1>0
  <2> QED BY <2>1, FS_Interval
<1>2. IsFiniteSet(sampled) /\ Cardinality(sampled) <= n
  BY <1>0, <1>1, FS_Subset
<1>3. Cardinality(sampled) \in Nat
  BY <1>2, FS_CardinalityType
<1> QED BY <1>0, <1>2, <1>3 DEF SampledCount, sampled, n

\* What it would take if every sensor worked, and had room.
Planned == FlattenSeq([i \in 1 .. Len(sensors) |-> Measurements(sensors[i])])

\* The measurements taken are a first part of those planned, and each is of a
\* sensor that was sampled.
LEMMA TakenFacts ==
    ASSUME sensors \in Seq(Sensor)
    PROVE  /\ Taken \in Seq({m \in AllMeasurements :
                                \E i \in 1 .. SampledCount : sensors[i] = m[1]})
           /\ Len(Taken) <= Len(Planned)
           /\ \A k \in 1 .. Len(Taken) : Planned[k] = Taken[k]
<1> DEFINE M == [i \in 1 .. Len(sensors) |-> Measurements(sensors[i])]
           OfSampled == {m \in AllMeasurements :
                            \E i \in 1 .. SampledCount : sensors[i] = m[1]}
<1>1. SampledCount \in Nat /\ SampledCount <= Len(sensors) /\ Len(sensors) \in Nat
  BY SampledType
<1>2. \A i \in 1 .. Len(sensors) : sensors[i] \in Sensor /\ M[i] = Measurements(sensors[i])
  OBVIOUS
<1>3. /\ [i \in 1 .. SampledCount |-> Measurements(sensors[i])] = [i \in 1 .. SampledCount |-> M[i]]
      /\ [i \in 1 .. Len(sensors) |-> Measurements(sensors[i])] = [i \in 1 .. Len(sensors) |-> M[i]]
  <2>1. \A i \in 1 .. SampledCount : i \in 1 .. Len(sensors)
    BY <1>1
  <2> HIDE DEF M
  <2> QED BY <1>2, <2>1
<1> HIDE DEF M
<1>4. Taken = Joined(M, SampledCount) /\ Planned = Joined(M, Len(sensors))
  BY <1>3 DEF Taken, Planned, Joined
<1>5. \A i \in 1 .. Len(sensors) : M[i] \in Seq(AllMeasurements)
  <2> TAKE i \in 1 .. Len(sensors)
  <2>1. M[i] \in Seq({m \in AllMeasurements : m[1] = sensors[i]})
    BY <1>2, MeasurementsType
  <2> QED BY <2>1
<1>6. \A i \in 1 .. SampledCount : M[i] \in Seq(OfSampled)
  <2> TAKE i \in 1 .. SampledCount
  <2>1. i \in 1 .. Len(sensors)
    BY <1>1
  <2>2. M[i] \in Seq({m \in AllMeasurements : m[1] = sensors[i]})
    BY <1>2, <2>1, MeasurementsType
  <2>3. {m \in AllMeasurements : m[1] = sensors[i]} \subseteq OfSampled
    OBVIOUS
  <2> HIDE DEF OfSampled
  <2> QED BY <2>2, <2>3
<1>7. Joined(M, SampledCount) \in Seq(OfSampled)
  <2> HIDE DEF OfSampled
  <2> QED BY <1>1, <1>6, JoinedType
<1>8. /\ Len(Joined(M, SampledCount)) <= Len(Joined(M, Len(sensors)))
      /\ \A k \in 1 .. Len(Joined(M, SampledCount)) :
            Joined(M, Len(sensors))[k] = Joined(M, SampledCount)[k]
  BY <1>1, <1>5, JoinedPrefix
<1> QED BY <1>4, <1>7, <1>8

LEMMA PlannedType ==
    ASSUME sensors \in Seq(Sensor)
    PROVE  Planned \in Seq(AllMeasurements)
<1> DEFINE M == [i \in 1 .. Len(sensors) |-> Measurements(sensors[i])]
<1>1. Len(sensors) \in Nat /\ [i \in 1 .. Len(sensors) |-> M[i]] = M
  OBVIOUS
<1>2. \A i \in 1 .. Len(sensors) : M[i] \in Seq(AllMeasurements)
  <2> TAKE i \in 1 .. Len(sensors)
  <2>1. M[i] \in Seq({m \in AllMeasurements : m[1] = sensors[i]})
    BY MeasurementsType
  <2> QED BY <2>1
<1> HIDE DEF M
<1>3. Joined(M, Len(sensors)) \in Seq(AllMeasurements)
  BY <1>1, <1>2, JoinedType
<1> QED BY <1>1, <1>3 DEF Planned, Joined, M

\* The batch: the measurements taken, as many as it has room for.
LEMMA BatchedFacts ==
    ASSUME sensors \in Seq(Sensor), age \in [AllMeasurements -> Ages], NEW partial,
           NEW new, new = Batched(Taken, Aged(partial))
    PROVE  /\ new \in Seq([m : AllMeasurements, age : Ages])
           /\ Len(new) <= MaxMeasurement /\ Len(new) <= Len(Taken)
           /\ \A k \in 1 .. Len(new) : new[k] = [m |-> Taken[k], age |-> "now"]
<1> DEFINE room == IF Len(Taken) < MaxMeasurement THEN Len(Taken) ELSE MaxMeasurement
           OfSampled == {m \in AllMeasurements :
                            \E i \in 1 .. SampledCount : sensors[i] = m[1]}
<1>1. Taken \in Seq(OfSampled)
  BY TakenFacts
<1>2. /\ room \in Nat /\ room <= MaxMeasurement /\ room <= Len(Taken)
      /\ \A k \in 1 .. room : k \in 1 .. Len(Taken)
  <2>1. Len(Taken) \in Nat /\ MaxMeasurement \in Nat
    BY <1>1, SensorAssumption
  <2> QED BY <2>1
<1>3. \A k \in 1 .. room : Taken[k] \in OfSampled
  <2> HIDE DEF OfSampled, room
  <2> QED BY <1>1, <1>2
<1>4. \A k \in 1 .. room : Taken[k] \in AllMeasurements /\ Aged(partial)[Taken[k]] = "now"
  <2> HIDE DEF room
  <2> QED BY <1>3 DEF Aged
<1>5. new = [k \in 1 .. room |-> [m |-> Taken[k], age |-> Aged(partial)[Taken[k]]]]
  BY DEF Batched
<1> HIDE DEF room
<1>6. \A k \in 1 .. room : new[k] = [m |-> Taken[k], age |-> "now"]
  BY <1>4, <1>5
<1>7. Len(new) = room
  BY <1>2, <1>5
<1>8. new \in Seq([m : AllMeasurements, age : Ages])
  <2>1. \A k \in 1 .. room : [m |-> Taken[k], age |-> Aged(partial)[Taken[k]]]
                                \in [m : AllMeasurements, age : Ages]
    BY <1>4 DEF Ages
  <2> QED BY <1>2, <1>5, <2>1
<1> QED BY <1>2, <1>6, <1>7, <1>8

LEMMA AgesType ==
    ASSUME age \in [AllMeasurements -> Ages]
    PROVE  /\ \A partial : Aged(partial) \in [AllMeasurements -> Ages]
           /\ \A s : AgedOne(s) \in [AllMeasurements -> Ages]
           /\ Later \in [AllMeasurements -> Ages]
  BY DEF Aged, AgedOne, Later, Ages

LEMMA DivNat ==
    ASSUME NEW a \in Nat
    PROVE  a \div 4095 \in Nat /\ a \div 100000 \in Nat
  OBVIOUS

LEMMA ModOnce ==
    ASSUME NEW a \in Nat, NEW m \in Nat, a < m
    PROVE  a % m = a
  OBVIOUS

LEMMA ModTwice ==
    ASSUME NEW a \in Nat, NEW m \in Nat, a < m
    PROVE  (a + m) % m = a
<1>1. a % m = a /\ m > 0
  BY ModOnce
<1> QED BY <1>1

LEMMA ReadingType ==
    ASSUME raw \in RawLevels
    PROVE  BatteryReading \in Nat
<1>1. raw \in Nat
  BY OrderAssumption
<1>2. raw * 600 * 6 \in Nat
  BY <1>1
<1>3. AdcMv(raw) \in Nat
  BY <1>2, DivNat DEF AdcMv, VrefMv, GainMultiplier, MaxAdc
<1>4. AdcMv(raw) * (100000 + 100000) \in Nat
  BY <1>3
<1>5. BatteryMv(raw) \in Nat
  BY <1>4, DivNat DEF BatteryMv, R1Ohm, R2Ohm
<1> QED BY <1>5 DEF BatteryReading, SampleOne

\* The minutes of a sleep for a reading.
Minutes(r) == IF r < CriticalMv THEN LowInterval ELSE SampleInterval

\* The seconds of a sleep keep to their width, and an offset costs one at most.
LEMMA SleepSecondsFacts ==
    ASSUME NEW r \in Nat, NEW offset \in UndefinedOffsets
    PROVE  /\ SleepSeconds(r, offset) \in 0 .. (SecMod - 1)
           /\ SleepSeconds(r, offset) + 1 >= 60 * Minutes(r)
<1> DEFINE sec == 60 * Minutes(r)
<1>1. sec \in Nat /\ sec > 0 /\ sec < SecMod /\ SecMod \in Nat
  BY SleepAssumption DEF Minutes
<1>2. SleepSeconds(r, offset) = (sec + offset) % SecMod
  <2>1. Minutes(r) \in Nat
    BY SleepAssumption DEF Minutes
  <2>2. Minutes(r) * 60 = sec
    BY <2>1
  <2> QED BY <2>2 DEF SleepSeconds, Minutes
<1> HIDE DEF sec
<1>3. CASE offset = 0
  <2>1. sec + 0 = sec /\ sec % SecMod = sec
    BY <1>1, ModOnce
  <2> QED BY <1>1, <1>2, <1>3, <2>1 DEF sec
<1>4. CASE offset = SecMod - 1
  <2>1. sec - 1 \in Nat /\ sec - 1 < SecMod /\ sec + (SecMod - 1) = (sec - 1) + SecMod
    BY <1>1
  <2>2. ((sec - 1) + SecMod) % SecMod = sec - 1
    BY <1>1, <2>1, ModTwice
  <2> QED BY <1>1, <1>2, <1>4, <2>1, <2>2 DEF sec
<1> QED BY <1>3, <1>4 DEF UndefinedOffsets

LEMMA SelectedType ==
    ASSUME NEW ready, NEW found
    PROVE  Selected(ready, found) \in Seq(Sensor)
<1> DEFINE M == [i \in 1 .. Len(Order) |->
                    IF Registers(Order[i], ready, found) THEN <<Order[i]>> ELSE <<>>]
<1>1. \A i \in 1 .. Len(Order) : M[i] \in Seq(Sensor)
  <2>1. \A i \in 1 .. Len(Order) : Order[i] \in Sensor
    BY OrderAssumption
  <2> QED BY <2>1
<1>2. Len(Order) \in Nat /\ [i \in 1 .. Len(Order) |-> M[i]] = M
  BY OrderAssumption
<1> HIDE DEF M
<1>3. Joined(M, Len(Order)) \in Seq(Sensor)
  BY <1>1, <1>2, JoinedType
<1> QED BY <1>2, <1>3 DEF Selected, Joined, M

LEMMA TypeInit == Init => TypeOK
<1> SUFFICES ASSUME Init PROVE TypeOK
  OBVIOUS
<1>1. sensors = <<>> /\ batch = <<>> /\ Len(sensors) = 0 /\ Len(batch) = 0
  BY DEF Init
<1>2. age \in [AllMeasurements -> Ages]
  BY DEF Init, Ages
<1> QED BY <1>1, <1>2, SensorAssumption, SleepAssumption DEF Init, TypeOK

LEMMA TypeStep == TypeOK /\ [Next]_vars => TypeOK'
<1> SUFFICES ASSUME TypeOK, [Next]_vars PROVE TypeOK'
  OBVIOUS
<1> USE DEF managerVars, sleepVars, worldVars
<1>1. CASE RegisterSensors
  <2>1. PICK ready \in SUBSET Sensor, found \in SUBSET AdcSensors :
           connected' = found /\ AddSensors(Selected(ready, found))
    BY <1>1 DEF RegisterSensors
  <2> DEFINE seq == Selected(ready, found)
             n == IF Len(seq) < MaxSensors THEN Len(seq) ELSE MaxSensors
  <2>2. seq \in Seq(Sensor)
    BY SelectedType
  <2>3. sensors' = SubSeq(seq, 1, n)
    BY <2>1 DEF AddSensors
  <2> HIDE DEF seq
  <2>4. sensors' \in Seq(Sensor) /\ Len(sensors') <= MaxSensors
    BY <2>2, <2>3, SensorAssumption
  <2> QED BY <1>1, <2>1, <2>4 DEF RegisterSensors, TypeOK
<1>2. CASE InitSensors
  <2>1. PICK broken : InitAll(broken)
    BY <1>2 DEF InitSensors
  <2>2. configured' \subseteq AdcSensors
    BY <2>1 DEF InitAll, TypeOK
  <2> QED BY <1>2, <2>2 DEF InitSensors, TypeOK
<1>3. CASE SampleSensors
  <2>1. PICK partial : SampleAll(partial)
    BY <1>3 DEF SampleSensors
  <2>2. age' = Aged(partial) /\ batch' = Batched(Taken, Aged(partial))
    BY <2>1 DEF SampleAll
  <2>3. age' \in [AllMeasurements -> Ages]
    BY <2>2, AgesType DEF TypeOK
  <2>4. batch' \in Seq([m : AllMeasurements, age : Ages]) /\ Len(batch') <= MaxMeasurement
    BY <2>2, BatchedFacts DEF TypeOK
  <2> QED BY <1>3, <2>3, <2>4 DEF SampleSensors, TypeOK
<1>4. CASE HandleSleep
  <2>1. age' \in [AllMeasurements -> Ages] /\ reading' \in Nat
    BY <1>4, AgesType, ReadingType DEF HandleSleep, TypeOK
  <2>2. /\ pc' \in {"asleep", "deep"} /\ meas' = meas
        /\ sleepS' \in 0 .. (SecMod - 1)
    <3>1. CASE SleepUnmeasured(BatteryReading)
      BY <3>1, SleepAssumption DEF SleepUnmeasured
    <3>2. CASE SleepMeasured(BatteryReading)
      BY <3>2, ReadingType, SleepSecondsFacts DEF SleepMeasured, TypeOK
    <3>3. CASE EnterDeepSleep(BatteryReading)
      BY <3>3 DEF EnterDeepSleep, TypeOK
    <3> QED BY <1>4, <3>1, <3>2, <3>3 DEF HandleSleep, Decide
  <2> QED BY <1>4, <2>1, <2>2 DEF HandleSleep, TypeOK
<1>5. CASE WakeUp
  <2>1. age' \in [AllMeasurements -> Ages]
    BY <1>5, AgesType DEF WakeUp, TypeOK
  <2> QED BY <1>5, <2>1, SleepAssumption DEF WakeUp, Wake, TypeOK
<1>6. CASE ReadAndDeepSleep
  <2>1. age' \in [AllMeasurements -> Ages] /\ meas' \in Nat
    BY <1>6, AgesType, ReadingType DEF ReadAndDeepSleep, DeepSleep, TypeOK
  <2> QED BY <1>6, <2>1 DEF ReadAndDeepSleep, DeepSleep, TypeOK
<1>7. CASE WakeFromDeepSleep
  <2>1. age' \in [AllMeasurements -> Ages]
    BY <1>7, AgesType DEF WakeFromDeepSleep, TypeOK
  <2> QED BY <1>7, <2>1 DEF WakeFromDeepSleep, DeepWake, TypeOK
<1>8. CASE WorldStep \/ UNCHANGED vars
  BY <1>8 DEF WorldStep, vars, TypeOK
<1> QED
  BY <1>1, <1>2, <1>3, <1>4, <1>5, <1>6, <1>7, <1>8 DEF Next, NodeStep

(***************************************************************************)
(* Type correctness of the measuring side: the batch never outgrows        *)
(* MAX_MEASUREMENT, nor the sensors MAX_SENSORS, nor the seconds of a sleep*)
(* their 32 bits (sample_manager.cpp:12-85, power_management.cpp:62-78).   *)
(***************************************************************************)
THEOREM TypeCorrect == Spec => []TypeOK
  BY TypeInit, TypeStep, PTL DEF Spec

-----------------------------------------------------------------------------
(* The batch.                                                              *)

LEMMA FreshStep == TypeOK /\ BatchFresh /\ [Next]_vars => BatchFresh'
<1> SUFFICES ASSUME TypeOK, BatchFresh, [Next]_vars PROVE BatchFresh'
  OBVIOUS
<1> USE DEF managerVars, sleepVars, worldVars
<1>1. CASE SampleSensors
  <2>1. PICK partial : SampleAll(partial)
    BY <1>1 DEF SampleSensors
  <2>2. batch' = Batched(Taken, Aged(partial)) /\ sensors' = sensors
    BY <1>1, <2>1 DEF SampleAll, SampleSensors
  <2>3. /\ batch' \in Seq([m : AllMeasurements, age : Ages]) /\ Len(batch') <= Len(Taken)
        /\ \A k \in 1 .. Len(batch') : batch'[k] = [m |-> Taken[k], age |-> "now"]
    BY <2>2, BatchedFacts DEF TypeOK
  <2>4. /\ Len(Taken) <= Len(Planned) /\ Len(Taken) \in Nat /\ Len(Planned) \in Nat
        /\ \A k \in 1 .. Len(Taken) : Planned[k] = Taken[k]
    BY TakenFacts, PlannedType DEF TypeOK
  <2>5. /\ Len(batch') <= Len(Planned)
        /\ \A k \in 1 .. Len(batch') : batch'[k] = [m |-> Planned[k], age |-> "now"]
    <3>1. \A k \in 1 .. Len(batch') : k \in 1 .. Len(Taken)
      BY <2>3, <2>4
    <3>2. Len(batch') \in Nat
      BY <2>3
    <3> QED BY <2>3, <2>4, <3>1, <3>2
  <2>6. Planned' = Planned
    BY <2>2 DEF Planned, Measurements
  <2> QED BY <2>5, <2>6 DEF BatchFresh, Planned
<1>2. ASSUME \/ RegisterSensors \/ InitSensors \/ HandleSleep \/ WakeUp
             \/ ReadAndDeepSleep \/ WakeFromDeepSleep
      PROVE  BatchFresh'
  <2>1. pc' # "sampled"
    BY <1>2
       DEF RegisterSensors, InitSensors, HandleSleep, Decide, SleepUnmeasured, SleepMeasured,
       EnterDeepSleep, WakeUp, Wake, ReadAndDeepSleep, DeepSleep, WakeFromDeepSleep, DeepWake
  <2> QED BY <2>1 DEF BatchFresh
<1>3. CASE WorldStep \/ UNCHANGED vars
  BY <1>3 DEF WorldStep, vars, BatchFresh, Measurements
<1> QED BY <1>1, <1>2, <1>3 DEF Next, NodeStep

(***************************************************************************)
(* The batch of a cycle holds measurements of this cycle only, each once,  *)
(* in the order of registration and with no gap, whichever sensors fail and*)
(* when (sample_manager.cpp:43-85).                                        *)
(***************************************************************************)
THEOREM FreshBatch == Spec => []BatchFresh
<1>1. Init => BatchFresh
  BY DEF Init, BatchFresh
<1> QED BY <1>1, FreshStep, TypeCorrect, PTL DEF Spec

-----------------------------------------------------------------------------
(* The sleep.                                                              *)

\* A deep sleep begun with a battery above the cutoff is the first one in a row,
\* and when it ends the loop does.
DeepInv == late = IF pc = "deepAsleep" /\ meas >= CutoffMv THEN 1 ELSE 0

LEMMA DeepStep == TypeOK /\ DeepInv /\ [Next]_vars => DeepInv'
<1> SUFFICES ASSUME TypeOK, DeepInv, [Next]_vars PROVE DeepInv'
  OBVIOUS
<1> USE DEF managerVars, sleepVars, worldVars
<1>1. ASSUME \/ RegisterSensors \/ InitSensors \/ SampleSensors \/ HandleSleep \/ WakeUp
      PROVE  DeepInv'
  <2>1. late' = late /\ pc # "deepAsleep" /\ pc' # "deepAsleep"
    BY <1>1
       DEF RegisterSensors, InitSensors, SampleSensors, HandleSleep, Decide, SleepUnmeasured,
       SleepMeasured, EnterDeepSleep, WakeUp, Wake
  <2> QED BY <2>1 DEF DeepInv
<1>2. CASE ReadAndDeepSleep
  <2>1. /\ pc = "deep" /\ pc' = "deepAsleep" /\ meas' = BatteryReading
        /\ late' = IF BatteryReading < CutoffMv THEN 0 ELSE IF late < 2 THEN late + 1 ELSE 2
    BY <1>2 DEF ReadAndDeepSleep, DeepSleep
  <2>2. late = 0 /\ BatteryReading \in Nat
    BY <2>1, ReadingType DEF DeepInv, TypeOK
  <2> QED BY <2>1, <2>2, SleepAssumption DEF DeepInv
<1>3. CASE WakeFromDeepSleep
  BY <1>3, SleepAssumption DEF WakeFromDeepSleep, DeepWake, DeepInv, TypeOK
<1>4. CASE WorldStep \/ UNCHANGED vars
  BY <1>4 DEF WorldStep, vars, DeepInv
<1> QED BY <1>1, <1>2, <1>3, <1>4 DEF Next, NodeStep

(***************************************************************************)
(* A recovered battery costs one deep sleep more and never two, however    *)
(* the battery and its sensor behave (power_management.cpp:43-59).         *)
(***************************************************************************)
THEOREM DeepSleepEnds == Spec => []OneSleepLate
<1>1. Init => DeepInv
  BY DEF Init, DeepInv
<1>2. DeepInv => OneSleepLate
  BY DEF DeepInv, OneSleepLate
<1> QED BY <1>1, <1>2, DeepStep, TypeCorrect, PTL DEF Spec

LEMMA LongStep == TypeOK /\ NeverSleepsShort /\ [Next]_vars => NeverSleepsShort'
<1> SUFFICES ASSUME TypeOK, NeverSleepsShort, [Next]_vars PROVE NeverSleepsShort'
  OBVIOUS
<1> USE DEF managerVars, sleepVars, worldVars
<1>1. CASE HandleSleep
  <2>1. reading' = BatteryReading /\ BatteryReading \in Nat
    BY <1>1, ReadingType DEF HandleSleep, TypeOK
  <2>2. CASE SleepUnmeasured(BatteryReading)
    BY <2>1, <2>2, SleepAssumption DEF SleepUnmeasured, NeverSleepsShort
  <2>3. CASE SleepMeasured(BatteryReading)
    <3>1. sleepS' + 1 >= 60 * Minutes(BatteryReading)
      BY <2>1, <2>3, SleepSecondsFacts DEF SleepMeasured
    <3>2. BatteryReading > 0
      BY <2>1, <2>3, SleepAssumption DEF SleepMeasured
    <3> QED BY <2>1, <3>1, <3>2 DEF NeverSleepsShort, Minutes
  <2>4. CASE EnterDeepSleep(BatteryReading)
    BY <2>4 DEF EnterDeepSleep, NeverSleepsShort
  <2> QED BY <1>1, <2>2, <2>3, <2>4 DEF HandleSleep, Decide
<1>2. ASSUME \/ RegisterSensors \/ InitSensors \/ SampleSensors \/ WakeUp
             \/ ReadAndDeepSleep \/ WakeFromDeepSleep
      PROVE  NeverSleepsShort'
  <2>1. pc' # "asleep"
    BY <1>2
       DEF RegisterSensors, InitSensors, SampleSensors, WakeUp, Wake, ReadAndDeepSleep,
       DeepSleep, WakeFromDeepSleep, DeepWake
  <2> QED BY <2>1 DEF NeverSleepsShort
<1>3. CASE WorldStep \/ UNCHANGED vars
  BY <1>3 DEF WorldStep, vars, NeverSleepsShort
<1> QED BY <1>1, <1>2, <1>3 DEF Next, NodeStep

(***************************************************************************)
(* With either of the two offsets the infinite TDMA window is converted to,*)
(* 0 and the largest value, the node sleeps no less than a second short of *)
(* the interval its battery calls for, for every interval and every width  *)
(* of the seconds that holds it (power_management.cpp:66-78).              *)
(***************************************************************************)
THEOREM SleepsLong == Spec => []NeverSleepsShort
<1>1. Init => NeverSleepsShort
  BY DEF Init, NeverSleepsShort
<1> QED BY <1>1, LongStep, TypeCorrect, PTL DEF Spec

-----------------------------------------------------------------------------
(* The calibration table of the soil sensor: seven entries 300 mV apart,   *)
(* six segments.                                                           *)

\* The table, entry by entry.
LEMMA LutEntries ==
    /\ Len(SoilLut) = 7
    /\ SoilLut[1] = [mv |-> 3000, moisture |-> 0] /\ SoilLut[2] = [mv |-> 2700, moisture |-> 10]
    /\ SoilLut[3] = [mv |-> 2400, moisture |-> 25] /\ SoilLut[4] = [mv |-> 2100, moisture |-> 45]
    /\ SoilLut[5] = [mv |-> 1800, moisture |-> 65] /\ SoilLut[6] = [mv |-> 1500, moisture |-> 85]
    /\ SoilLut[7] = [mv |-> 1200, moisture |-> 100]
  BY DEF SoilLut

\* The entries fall by 300 mV each.
LEMMA LutVoltage ==
    /\ \A i \in 1 .. 7 : SoilLut[i].mv = 3300 - 300 * i /\ SoilLut[i].moisture \in Nat
    /\ \A i \in 1 .. 6 : i + 1 \in 1 .. 7
<1>1. \A i \in 1 .. 7 : i = 1 \/ i = 2 \/ i = 3 \/ i = 4 \/ i = 5 \/ i = 6 \/ i = 7
  OBVIOUS
<1> QED BY <1>1, LutEntries

Holds(i, mv) == mv <= SoilLut[i].mv /\ mv >= SoilLut[i + 1].mv
First(i, mv) == Holds(i, mv) /\ \A j \in 1 .. (i - 1) : ~Holds(j, mv)

\* The first segment that holds a voltage is the only one that holds it below its
\* upper end.
LEMMA FirstSegment ==
    ASSUME NEW mv \in Nat, NEW k \in 1 .. 6, mv >= 3000 - 300 * k, mv < 3300 - 300 * k
    PROVE  (CHOOSE i \in 1 .. 6 : First(i, mv)) = k
<1>1. \A i \in 1 .. 6 : Holds(i, mv) <=> mv <= 3300 - 300 * i /\ mv >= 3000 - 300 * i
  <2> TAKE i \in 1 .. 6
  <2>1. SoilLut[i].mv = 3300 - 300 * i /\ SoilLut[i + 1].mv = 3300 - 300 * (i + 1)
    BY LutVoltage
  <2> QED BY <2>1 DEF Holds
<1>2. Holds(k, mv) /\ \A i \in 1 .. 6 : Holds(i, mv) => i = k \/ i = k + 1
  BY <1>1
<1>3. First(k, mv)
  BY <1>1, <1>2 DEF First
<1>4. ASSUME NEW i \in 1 .. 6, First(i, mv) PROVE i = k
  BY <1>1, <1>2, <1>4 DEF First
<1> QED BY <1>3, <1>4

\* The moisture of the point on segment k.
Moisture(k) == SoilLut[k].moisture
Rise(k) == Moisture(k + 1) - Moisture(k)
OnSegment(k, mv) == Moisture(k) + (Rise(k) * (3300 - 300 * k - mv)) \div 300

LEMMA MoistureRises ==
    /\ \A k \in 1 .. 7 : Moisture(k) \in Nat
    /\ \A k \in 1 .. 6 : Rise(k) \in 1 .. 20 /\ Moisture(k + 1) = Moisture(k) + Rise(k)
<1>1. \A i \in 1 .. 6 : i = 1 \/ i = 2 \/ i = 3 \/ i = 4 \/ i = 5 \/ i = 6
  OBVIOUS
<1>2. /\ Moisture(1) = 0 /\ Moisture(2) = 10 /\ Moisture(3) = 25 /\ Moisture(4) = 45
      /\ Moisture(5) = 65 /\ Moisture(6) = 85 /\ Moisture(7) = 100
  BY LutEntries DEF Moisture
<1>3. \A i \in 1 .. 7 : i \in 1 .. 6 \/ i = 7
  OBVIOUS
<1> QED BY <1>1, <1>2, <1>3 DEF Rise

LEMMA Whole ==
    ASSUME NEW a \in Nat
    PROVE  a \div 300 \in Nat /\ 300 * (a \div 300) <= a /\ a < 300 * (a \div 300) + 300
  OBVIOUS

LEMMA WholeGrows ==
    ASSUME NEW a \in Nat, NEW b \in Nat, a <= b
    PROVE  a \div 300 <= b \div 300
  OBVIOUS

LEMMA Segment ==
    ASSUME NEW mv \in Nat, NEW k \in 1 .. 6, mv >= 3000 - 300 * k, mv < 3300 - 300 * k
    PROVE  Interpolate(SoilLut[k], SoilLut[k + 1], mv) = OnSegment(k, mv)
<1>1. SoilLut[k].mv = 3300 - 300 * k /\ SoilLut[k + 1].mv = 3300 - 300 * (k + 1)
  BY LutVoltage
<1>2. (3300 - 300 * k) - (3300 - 300 * (k + 1)) = 300
  OBVIOUS
<1> QED BY <1>1, <1>2 DEF Interpolate, OnSegment, Rise, Moisture

LEMMA OnLower ==
    ASSUME NEW k \in 1 .. 6
    PROVE  /\ OnSegment(k, 3000 - 300 * k) = Moisture(k + 1)
           /\ OnSegment(k, 3300 - 300 * k) = Moisture(k)
<1>1. PICK d \in 1 .. 20 : d = Rise(k)
  BY MoistureRises
<1>2. (d * 300) \div 300 = d /\ (d * 0) \div 300 = 0
  BY <1>1
<1>3. 3300 - 300 * k - (3000 - 300 * k) = 300 /\ 3300 - 300 * k - (3300 - 300 * k) = 0
  OBVIOUS
<1>4. Moisture(k) \in Nat /\ Moisture(k + 1) = Moisture(k) + d
  BY <1>1, MoistureRises
<1> QED BY <1>1, <1>2, <1>3, <1>4 DEF OnSegment

\* The calibration, segment by segment and beyond the table.
LEMMA SoilPercentIs ==
    ASSUME NEW mv \in Nat
    PROVE  /\ mv >= 3000 => SoilPercent(mv) = 0
           /\ mv <= 1200 => SoilPercent(mv) = 100
           /\ \A k \in 1 .. 6 : mv \in 3000 - 300 * k .. 3300 - 300 * k =>
                                  SoilPercent(mv) = OnSegment(k, mv)
<1>1. /\ SoilLut[1].mv = 3000 /\ SoilLut[1].moisture = 0
      /\ SoilLut[7].mv = 1200 /\ SoilLut[7].moisture = 100 /\ Len(SoilLut) = 7
  BY LutEntries
<1>2. mv >= 3000 => SoilPercent(mv) = 0
  BY <1>1 DEF SoilPercent
<1>3. mv <= 1200 => SoilPercent(mv) = 100
  BY <1>1 DEF SoilPercent
<1>4. ASSUME NEW k \in 1 .. 6, mv >= 3000 - 300 * k, mv < 3300 - 300 * k
      PROVE  SoilPercent(mv) = OnSegment(k, mv)
  <2>1. CASE mv = 1200
    <3>1. k = 6 /\ 3000 - 300 * 6 = 1200 /\ 6 + 1 = 7
      BY <1>4, <2>1
    <3>2. OnSegment(k, mv) = Moisture(7)
      BY <2>1, <3>1, OnLower
    <3> QED BY <1>1, <1>3, <2>1, <3>2 DEF Moisture
  <2>2. CASE mv # 1200
    <3>1. mv < 3000 /\ mv > 1200 /\ 7 - 1 = 6
      BY <1>4, <2>2
    <3>2. (CHOOSE i \in 1 .. 6 : First(i, mv)) = k
      BY <1>4, FirstSegment
    <3>3. SoilPercent(mv) = Interpolate(SoilLut[k], SoilLut[k + 1], mv)
      <4>1. ~(mv >= SoilLut[1].mv) /\ ~(mv <= SoilLut[Len(SoilLut)].mv) /\ Len(SoilLut) - 1 = 6
        BY <1>1, <3>1
      <4>2. (CHOOSE i \in 1 .. (Len(SoilLut) - 1) : First(i, mv)) = k
        BY <3>2, <4>1
      <4> QED BY <4>1, <4>2, Zenon DEF SoilPercent, First, Holds
    <3> QED BY <1>4, <3>3, Segment
  <2> QED BY <2>1, <2>2
<1>5. ASSUME NEW k \in 1 .. 6, mv = 3300 - 300 * k
      PROVE  SoilPercent(mv) = OnSegment(k, mv)
  <2>1. OnSegment(k, mv) = Moisture(k)
    BY <1>5, OnLower
  <2>2. CASE k = 1
    BY <1>1, <1>2, <1>5, <2>1, <2>2 DEF Moisture
  <2>3. CASE k # 1
    <3>1. k - 1 \in 1 .. 6 /\ (k - 1) + 1 = k /\ mv = 3000 - 300 * (k - 1)
      BY <1>5, <2>3
    <3>2. OnSegment(k - 1, mv) = Moisture(k)
      BY <3>1, OnLower
    <3> QED BY <1>4, <2>1, <3>1, <3>2
  <2> QED BY <2>2, <2>3
<1>6. \A k \in 1 .. 6 : mv \in 3000 - 300 * k .. 3300 - 300 * k =>
         (mv >= 3000 - 300 * k /\ mv < 3300 - 300 * k) \/ mv = 3300 - 300 * k
  OBVIOUS
<1> QED BY <1>2, <1>3, <1>4, <1>5, <1>6

\* A higher voltage of the same segment reads no wetter.
LEMMA SegmentFalls ==
    ASSUME NEW k \in 1 .. 6, NEW mv \in Nat, mv < 3300 - 300 * k
    PROVE  OnSegment(k, mv + 1) <= OnSegment(k, mv)
<1>1. PICK d \in 1 .. 20 : d = Rise(k)
  BY MoistureRises
<1> DEFINE low == d * (3300 - 300 * k - (mv + 1))
           high == d * (3300 - 300 * k - mv)
<1>2. \A x \in Nat : d * x \in Nat
  OBVIOUS
<1>3. 3300 - 300 * k - (mv + 1) \in Nat /\ 3300 - 300 * k - mv \in Nat
  OBVIOUS
<1>4. low \in Nat /\ high \in Nat
  BY <1>2, <1>3
<1>5. high = low + d
  OBVIOUS
<1>6. Moisture(k) \in Nat
  BY MoistureRises
<1> HIDE DEF low, high
<1>7. low <= high
  BY <1>4, <1>5
<1>8. low \div 300 <= high \div 300 /\ low \div 300 \in Nat /\ high \div 300 \in Nat
  BY <1>4, <1>7, WholeGrows, Whole
<1> QED BY <1>1, <1>6, <1>8 DEF OnSegment, low, high

LEMMA SoilFalls ==
    ASSUME NEW mv \in Nat
    PROVE  SoilPercent(mv + 1) <= SoilPercent(mv)
<1>1. CASE mv >= 3000
  BY <1>1, SoilPercentIs
<1>2. CASE mv + 1 <= 1200
  BY <1>2, SoilPercentIs
<1>3. CASE mv >= 1200 /\ mv < 3000
  <2>1. \E k \in 1 .. 6 : mv >= 3000 - 300 * k /\ mv < 3300 - 300 * k
    BY <1>3
  <2>2. PICK k \in 1 .. 6 : mv >= 3000 - 300 * k /\ mv < 3300 - 300 * k
    BY <2>1
  <2>3. /\ mv \in 3000 - 300 * k .. 3300 - 300 * k
        /\ mv + 1 \in 3000 - 300 * k .. 3300 - 300 * k /\ mv + 1 \in Nat
    BY <2>2
  <2>4. SoilPercent(mv) = OnSegment(k, mv) /\ SoilPercent(mv + 1) = OnSegment(k, mv + 1)
    BY <2>3, SoilPercentIs
  <2> QED BY <2>2, <2>4, SegmentFalls
<1> QED BY <1>1, <1>2, <1>3

\* The value is the whole part of the point on the line.
LEMMA SoilOnLine ==
    ASSUME NEW k \in 1 .. 6, NEW mv \in SoilLut[k + 1].mv .. SoilLut[k].mv
    PROVE  OnLine(SoilLut[k], SoilLut[k + 1], mv)
<1>1. /\ SoilLut[k].mv = 3300 - 300 * k /\ SoilLut[k + 1].mv = 3000 - 300 * k
      /\ SoilLut[k].mv - SoilLut[k + 1].mv = 300
  <2>1. SoilLut[k].mv = 3300 - 300 * k /\ SoilLut[k + 1].mv = 3300 - 300 * (k + 1)
    BY LutVoltage
  <2> QED BY <2>1
<1>2. mv \in Nat /\ mv \in 3000 - 300 * k .. 3300 - 300 * k
  BY <1>1
<1>3. SoilPercent(mv) = Moisture(k) + (Rise(k) * (3300 - 300 * k - mv)) \div 300
  BY <1>2, SoilPercentIs DEF OnSegment
<1> DEFINE a == Rise(k) * (3300 - 300 * k - mv)
<1>4. a \in Nat
  <2>1. Rise(k) \in Nat /\ 3300 - 300 * k - mv \in Nat
    BY <1>2, MoistureRises
  <2> QED BY <2>1
<1>5. (SoilLut[k + 1].moisture - SoilLut[k].moisture) * (SoilLut[k].mv - mv) = a
  BY <1>1 DEF Rise, Moisture
<1>6. Moisture(k) \in Nat /\ Moisture(k) = SoilLut[k].moisture
  BY MoistureRises DEF Moisture
<1>7. SoilPercent(mv) = Moisture(k) + a \div 300
  BY <1>3
<1> HIDE DEF a
<1>8. a \div 300 \in Nat /\ 300 * (a \div 300) <= a /\ a < 300 * (a \div 300) + 300
  BY <1>4, Whole
<1>9. (SoilPercent(mv) - SoilLut[k].moisture) * 300 = 300 * (a \div 300)
  BY <1>6, <1>7, <1>8
<1> QED BY <1>1, <1>4, <1>5, <1>8, <1>9 DEF OnLine

LEMMA SoilCurveHolds == SoilCurve
<1> DEFINE Falls == \A mv \in 0 .. 3600 : SoilPercent(mv + 1) <= SoilPercent(mv)
           Lines == \A i \in 1 .. 6 : \A mv \in SoilLut[i + 1].mv .. SoilLut[i].mv :
                       OnLine(SoilLut[i], SoilLut[i + 1], mv)
<1> SUFFICES ASSUME pc = "boot" PROVE Falls /\ Lines
  BY Zenon DEF SoilCurve
<1>1. Falls
  BY SoilFalls
<1>2. Lines
  BY SoilOnLine
<1> HIDE DEF Falls, Lines
<1> QED BY <1>1, <1>2

(***************************************************************************)
(* The calibration of the soil sensor falls with the voltage and follows   *)
(* the line between two entries, rounded down, on each segment and where   *)
(* two of them meet (soil_capacitive_adapter.hpp:94-124).                  *)
(***************************************************************************)
THEOREM SoilCalibrated == Spec => []SoilCurve
  BY SoilCurveHolds, PTL
===============================================================================
