------------------------------ MODULE PowerRail ------------------------------
(***************************************************************************)
(* loragro::PowerRail3V3 (common/src/power_rail_3v3.cpp): the rail that    *)
(* feeds the sensors.  Zephyr's regulator counts its users; the class keeps*)
(* a flag of its own.  Whether a regulator call works is an argument.      *)
(***************************************************************************)
EXTENDS Integers

VARIABLES
    powered,    \* powered_
    users       \* the regulator's count of enables; the rail is on above 0

railVars == <<powered, users>>

RailReset == powered' = FALSE /\ users' = 0

PowerOn(works) ==
    IF ~powered /\ works
    THEN powered' = TRUE /\ users' = users + 1
    ELSE UNCHANGED railVars

\* Mutants of PowerOff: a rail that is off is disabled once more; the flag is
\* cleared whatever the regulator says.
PowerOff_NoGuard(works) ==
    IF works
    THEN powered' = FALSE /\ users' = users - 1
    ELSE UNCHANGED railVars

PowerOff_ClearsFlag(works) ==
    IF powered
    THEN powered' = FALSE /\ users' = IF works THEN users - 1 ELSE users
    ELSE UNCHANGED railVars

PowerOff(works) ==
    IF powered /\ works
    THEN powered' = FALSE /\ users' = users - 1
    ELSE UNCHANGED railVars

\* powerOff() returns an error.
OffFails(works) == powered /\ ~works
=============================================================================
