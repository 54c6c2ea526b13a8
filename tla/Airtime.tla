------------------------------- MODULE Airtime -------------------------------
(***************************************************************************)
(* How long a LoRa packet is on the air: the formula of                    *)
(* Interface::calculate_airtime_ms (common/src/lora_interface.cpp) and of  *)
(* the simulated radio (common/drivers/lora/sx1262_fake.cpp), which are    *)
(* the same, at 125 kHz, coding rate 4/5 and a preamble of 8 symbols.      *)
(*                                                                         *)
(* The code computes in floats and truncates to milliseconds; here it is   *)
(* whole microseconds, 2^sf * 8 to a symbol.                               *)
(***************************************************************************)
EXTENDS Integers

SymbolUs(sf) == 2 ^ sf * 8
LowDataRate(sf) == IF sf >= 11 THEN 1 ELSE 0

\* tmp, the bits of the payload over the bits of a block of five symbols, is
\* clamped at 0; ceilf() rounds it up.
PayloadBlocks(sf, len) ==
    LET bits  == 8 * len - 4 * sf + 28 + 16
        block == 4 * (sf - 2 * LowDataRate(sf))
    IN  IF bits < 0 THEN 0 ELSE (bits + block - 1) \div block

PayloadSymbols(sf, len) == 8 + 5 * PayloadBlocks(sf, len)

\* The preamble is 12.25 symbols.
AirtimeMs(sf, len) ==
    ((49 * SymbolUs(sf)) \div 4 + PayloadSymbols(sf, len) * SymbolUs(sf)) \div 1000

\* air_time_margin_factor is 1.4.
WithMargin(ms) == (ms * 14) \div 10
=============================================================================
