--------------------------- MODULE SecurityCounter ---------------------------
(***************************************************************************)
(* The frame counter arithmetic of loragro::Auth.  A node and its gateway  *)
(* count frames in 32 bits; a frame carries the low 8 bits only and the    *)
(* receiver reconstructs the rest from a counter of its own                *)
(* (common/src/lora_auth.cpp, reconstruct_counter).                        *)
(***************************************************************************)
EXTENDS Integers

CONSTANTS
    LowMod,     \* values of the counter byte on the wire: 256 in the code
    WrapBand,   \* low values taken for a wrapped counter: 32 in the code
    CtrMod      \* values of a full counter: 2^32 in the code

ASSUME CounterAssumption ==
    /\ LowMod \in Nat /\ WrapBand \in Nat /\ CtrMod \in Nat
    /\ 0 < WrapBand /\ 2 * WrapBand < LowMod
    /\ LowMod < CtrMod /\ CtrMod % LowMod = 0

Counter == 0 .. (CtrMod - 1)
LowByte == 0 .. (LowMod - 1)

\* The byte that goes on the wire: counter & 0xFF.
Low(c) == c % LowMod

\* uint32_t subtraction and increment, which wrap.
Minus(a, b) == (a - b) % CtrMod
Succ(c) == (c + 1) % CtrMod

\* Mutants of Wrapped: the band is one value too wide; every lower byte wrapped.
Wrapped_WideBand(low, full) == low <= WrapBand /\ Low(full) >= LowMod - WrapBand
Wrapped_AnyLower(low, full) == low < Low(full)

\* A low byte that was sent after the byte wrapped, seen from "full".
Wrapped(low, full) == low < WrapBand /\ Low(full) >= LowMod - WrapBand

\* Mutant of Reconstruct: a higher byte is taken for one of the block before.
Reconstruct_BlockBefore(low, full) ==
    full - Low(full) + low - (IF low > Low(full) THEN LowMod ELSE 0)

\* reconstruct_counter: the upper bits of "full", the byte from the wire.
Reconstruct(low, full) ==
    (full - Low(full) + low + (IF Wrapped(low, full) THEN LowMod ELSE 0)) % CtrMod

(***************************************************************************)
(* What the reconstruction is good for: the counters it returns exactly.   *)
(* Seen from "full" they are the counters of its own block of LowMod, or,  *)
(* when "full" is within WrapBand of the end of its block, the counters of *)
(* that block from WrapBand on and the first WrapBand of the next one.     *)
(***************************************************************************)
InWindow(c, full) ==
    LET base == full - Low(full)
        skip == IF Low(full) >= LowMod - WrapBand THEN WrapBand ELSE 0
    IN  base + skip <= c /\ c < base + skip + LowMod
=============================================================================
