--------------------------- MODULE ConfirmedUplink ---------------------------
(***************************************************************************)
(* What a caller of Interface::send_confirmed() may rely on: one frame is  *)
(* with it at a time, the frame may reach the gateway any number of times  *)
(* while it is, success is reported only of a frame that has, and every    *)
(* call returns.  Counters, keys, ACKs and attempts are how it is done     *)
(* (common/src/lora_interface.cpp:65-98), which NodeCycle shows.           *)
(***************************************************************************)
EXTENDS Naturals

CONSTANTS
    Frame,      \* the frames a caller may hand over
    NoFrame     \* none of them

VARIABLES
    pending,    \* the frame that is being sent, or NoFrame
    delivered,  \* the frames that reached the gateway
    outcome     \* what the last call returned, "none" before it returns

uplinkVars == <<pending, delivered, outcome>>

Init == pending = NoFrame /\ delivered = {} /\ outcome = "none"

\* The caller hands over a frame.
Submit ==
    /\ pending = NoFrame
    /\ pending' \in Frame
    /\ outcome' = "none"
    /\ UNCHANGED delivered

\* The pending frame reaches the gateway, for the first time or once more.
Deliver ==
    /\ pending # NoFrame
    /\ delivered' = delivered \cup {pending}
    /\ UNCHANGED <<pending, outcome>>

\* A frame is reported acknowledged.
ReportOk ==
    /\ pending # NoFrame /\ pending \in delivered
    /\ pending' = NoFrame /\ outcome' = "ok"
    /\ UNCHANGED delivered

\* The call fails, which says nothing of the frame.
ReportFailure ==
    /\ pending # NoFrame
    /\ pending' = NoFrame /\ outcome' \in {"timeout", "error"}
    /\ UNCHANGED delivered

\* A broadcast is sent and reported in one, and nobody knows who got it.
ReportBroadcast ==
    /\ pending # NoFrame
    /\ pending' = NoFrame /\ outcome' = "sent"
    /\ delivered' \in {delivered, delivered \cup {pending}}

\* The caller turns to something else.
Forget ==
    /\ pending = NoFrame
    /\ outcome' = "none"
    /\ UNCHANGED <<pending, delivered>>

Next ==
    \/ Submit \/ Deliver \/ ReportOk \/ ReportFailure \/ ReportBroadcast \/ Forget

Safe == Init /\ [][Next]_uplinkVars

\* Every call returns.
Returns == pending # NoFrame ~> pending = NoFrame

Spec == Safe /\ Returns
=============================================================================
