---------------------------- MODULE MCSensingCycle ---------------------------
(* SensingCycle on a small instance: three of the six adapters, one of each  *)
(* kind, and a batch they can overfill.                                      *)
EXTENDS SensingCycle

CONSTANTS soil3in1, soil, battery

MCSensor == {soil3in1, soil, battery}
MCOrder == <<soil3in1, soil, battery>>
MCCount == [s \in MCSensor |-> IF s = soil3in1 THEN 2 ELSE 1]
MCAdc == {soil, battery}
MCStepped == {soil3in1}

\* 2598, 2600, 2998 and 3000 mV: the two sides of both thresholds.
MCLevels == {1478, 1479, 1706, 1707}

\* No battery: 350 mV.
MCNoBattery == {200}
=============================================================================
