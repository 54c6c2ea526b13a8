---------------------------- MODULE CounterWindow ----------------------------
(***************************************************************************)
(* Two stations that count their own frames: the node, whose counter is    *)
(* Auth::next_tx_counter_, and the gateway, whose frames the node receives.*)
(* Whenever a gateway frame arrives the node reconstructs its counter from *)
(* the low byte and from ITS OWN transmit counter (lora_auth.cpp:98, 141). *)
(* This module explores how far the two counters may drift apart before    *)
(* that goes wrong, at the widths of the code.                             *)
(***************************************************************************)
EXTENDS SecurityCounter

CONSTANTS MaxCount      \* bound on both counters

ASSUME WindowAssumption == MaxCount \in Nat \ {0} /\ MaxCount + LowMod < CtrMod

VARIABLES
    nodeTx,     \* the node's next transmit counter
    gwCtr,      \* counter of the gateway frame in the air
    seen        \* the counter the node reconstructs for it

windowVars == <<nodeTx, gwCtr, seen>>

WindowInit ==
    /\ nodeTx = 1
    /\ gwCtr = 1
    /\ seen = Reconstruct(Low(gwCtr), nodeTx)

\* The node signs a frame.
NodeSends ==
    /\ nodeTx < MaxCount
    /\ nodeTx' = Succ(nodeTx)
    /\ seen' = Reconstruct(Low(gwCtr), nodeTx')
    /\ UNCHANGED gwCtr

\* The gateway signs a frame, which the node receives.
GatewaySends ==
    /\ gwCtr < MaxCount
    /\ gwCtr' = Succ(gwCtr)
    /\ seen' = Reconstruct(Low(gwCtr'), nodeTx)
    /\ UNCHANGED nodeTx

\* A cold boot starts the node's counter from 1 again (lora_auth.cpp:14).
NodeBoots ==
    /\ nodeTx' = 1
    /\ seen' = Reconstruct(Low(gwCtr), nodeTx')
    /\ UNCHANGED gwCtr

WindowNext == NodeSends \/ GatewaySends \/ NodeBoots
WindowSpec == WindowInit /\ [][WindowNext]_windowVars

WindowTypeOK == nodeTx \in Counter /\ gwCtr \in Counter /\ seen \in Counter

(***************************************************************************)
(* The node recovers the counter a gateway frame was signed with exactly   *)
(* when that counter lies in the window around the node's own transmit     *)
(* counter, and in no other case (lora_auth.cpp, reconstruct_counter as    *)
(* called by verify_frame).                                                *)
(***************************************************************************)
ExactInWindow == (seen = gwCtr) <=> InWindow(gwCtr, nodeTx)

(***************************************************************************)
(* An ACK echoes the counter of the last frame, next_tx_counter_ - 1, and  *)
(* verify_ack() reconstructs it from its byte (lora_auth.cpp:138-147).  It *)
(* is recovered for every last frame but one in LowMod, whose counter is   *)
(* the last of its block: no ACK of that frame can be recognised.          *)
(***************************************************************************)
OnlyBlockEndLost ==
    Reconstruct(Low(nodeTx - 1), nodeTx) = nodeTx - 1 <=> Low(nodeTx - 1) # LowMod - 1
=============================================================================
