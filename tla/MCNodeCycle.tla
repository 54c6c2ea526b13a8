----------------------------- MODULE MCNodeCycle -----------------------------
(* NodeCycle on small instances.                                           *)
EXTENDS NodeCycle

\* CONFIG frames of one command: set an id, set the interval.
Body(op, enc, arg) == [count |-> 1, version |-> ProtocolVersion,
                       cmds |-> <<[op |-> op, enc |-> enc, arg |-> arg]>>, tail |-> 0]
SetIdBodies == {Body(0, 1, i) : i \in Ids}
MixedBodies == SetIdBodies \cup {Body(1, 0, 30), Body(3, 2, 0)}

\* The node sleeps on after MaxCycles, or main() has returned.
Rests ==
    /\ pc = "halted" \/ (pc = "sleep" /\ cycle >= MaxCycles)
    /\ UNCHANGED vars

MCSteadySpec == Init /\ [][SteadyNext \/ Rests]_vars
MCFairSpec == MCSteadySpec /\ WF_vars(NodeStep)
MCSpec == Init /\ [][Next \/ Rests]_vars
=============================================================================
