------------------------------ MODULE AuthHistory ----------------------------
(***************************************************************************)
(* Auth as the firmware drives it: keys derived at the start of a cycle,   *)
(* frames signed and downlinks verified in any order, the id changed under *)
(* it by the protocol handler, time passing, resets.  Downlink frames are  *)
(* whatever a holder of a device key may have signed, received any number  *)
(* of times and in any order.  Two history variables record what was signed*)
(* and what was accepted.                                                  *)
(***************************************************************************)
EXTENDS LoraAuth, FiniteSets

CONSTANTS
    Ids,            \* combined ids in use
    DownCtrs,       \* counters a gateway signs downlink frames with
    MaxNow          \* bound on the uptime

ASSUME HistoryAssumption ==
    /\ 0 \notin Ids /\ Ids \subseteq Nat /\ Ids # {}
    /\ DownCtrs \subseteq Counter
    /\ MaxNow \in Nat

VARIABLES
    signed,         \* tags of the frames signed since the last reset
    accepted        \* the frames verify_frame() accepted since the last
                    \* reset, under every key: tag, time of the last
                    \* acceptance, and whether init_key() has kept its key
                    \* ever since

vars == <<config, now, authVars, signed, accepted>>

Keys == {DeviceKey(i) : i \in Ids \cup {0}}
AuthConfig == [id : Ids, txSec : Counter, rxSec : Counter]
Tags == [key : Keys, ctr : Counter]
Acceptances == [tag : Tags, at : 0 .. MaxNow, kept : BOOLEAN]
Downlinks == {Tag(DeviceKey(i), c) : i \in Ids, c \in DownCtrs}

\* Power-on: the constructor, then App::init() loads a configuration.
Init ==
    /\ config \in [id : Ids, txSec : {1}, rxSec : {0}]
    /\ now = 0
    /\ key = DeviceKey(0) /\ lastDerivedId = 0
    /\ nextTx = 1 /\ lastRx = 0 /\ lastRxTime = 0
    /\ signed = {} /\ accepted = {}

\* init_key(); a key derived anew is remembered in every acceptance.
StartCycle ==
    /\ InitKey
    /\ accepted' = IF config.id = lastDerivedId THEN accepted
                   ELSE {[a EXCEPT !.kept = FALSE] : a \in accepted}
    /\ UNCHANGED <<now, signed>>

\* The node signs only after the cycle's init_key().
SignFrame ==
    /\ lastDerivedId # 0
    /\ Sign
    /\ signed' = signed \cup {SignedTag}
    /\ UNCHANGED <<now, accepted>>

Receive(tag) ==
    /\ lastDerivedId # 0
    /\ VerifyFrame(Low(tag.ctr), tag)
    /\ accepted' = IF Verifies(Low(tag.ctr), tag)
                   THEN {a \in accepted : a.tag # tag}
                          \cup {[tag |-> tag, at |-> now, kept |-> TRUE]}
                   ELSE accepted
    /\ UNCHANGED <<now, signed>>

\* SET_COMBINED_ID, executed on the shared configuration.
SetId(i) ==
    /\ config' = [config EXCEPT !.id = i]
    /\ UNCHANGED <<now, authVars, signed, accepted>>

TimePasses ==
    /\ now < MaxNow
    /\ now' = now + 1
    /\ UNCHANGED <<config, authVars, signed, accepted>>

\* The uptime starts again; the configuration is loaded as it was saved.
PowerLoss ==
    /\ AuthReset
    /\ now' = 0
    /\ signed' = {} /\ accepted' = {}
    /\ UNCHANGED config

Next ==
    \/ StartCycle
    \/ SignFrame
    \/ \E tag \in Downlinks : Receive(tag)
    \/ \E i \in Ids : SetId(i)
    \/ TimePasses
    \/ PowerLoss

Spec == Init /\ [][Next]_vars

TypeOK ==
    /\ config \in AuthConfig
    /\ now \in 0 .. MaxNow
    /\ key \in Keys
    /\ lastDerivedId \in Ids \cup {0}
    /\ nextTx \in 1 .. MaxCtr
    /\ lastRx \in Counter
    /\ lastRxTime \in 0 .. MaxNow
    /\ signed \subseteq Tags
    /\ accepted \subseteq Acceptances

(***************************************************************************)
(* No two frames of one power-on are signed with the same key and counter: *)
(* changing the id back and forth returns to an earlier key, so init_key() *)
(* must not restart the transmit counter as it restarts the receive counter*)
(* (lora_auth.cpp:17-32, the assignment commented out at line 26).         *)
(***************************************************************************)
NoTagReuse == [][SignFrame => SignedTag \notin signed]_vars

(***************************************************************************)
(* A downlink frame that was accepted is refused from then on, until more  *)
(* than RESET_TIMEOUT_SEC has passed, init_key() has derived a key again or*)
(* the node was reset: neither a frame received since nor the              *)
(* reconstruction from a moving transmit counter opens another way for a   *)
(* replay (lora_auth.cpp:80-135).  The second way is real: a key derived   *)
(* anew starts with a receive counter of 0 (lora_auth.cpp:28), so an id    *)
(* left and taken up again makes the frames of its first time acceptable   *)
(* once more, within the timeout; Docs/architecture.md:347 promises full   *)
(* replay protection.                                                      *)
(***************************************************************************)
ReplayRefused ==
    \A a \in accepted :
        a.kept /\ now - a.at <= ResetTimeout => ~Verifies(Low(a.tag.ctr), a.tag)

(***************************************************************************)
(* The counters of the frames accepted since the receive counter was last  *)
(* 0 only grow: of the frames accepted since the key was derived, the      *)
(* newest within the timeout carries the largest counter.                  *)
(***************************************************************************)
NewestIsLargest ==
    \A a, b \in accepted :
        a.kept /\ b.kept /\ a.at < b.at /\ b.at - a.at <= ResetTimeout
            => a.tag.ctr < b.tag.ctr

(***************************************************************************)
(* Docs/lora_protocol.md:43: after a power loss the node resumes from the  *)
(* last saved threshold value.  In the first cycle after a reset the node  *)
(* goes on from the stored transmit counter or a later one.                *)
(***************************************************************************)
ResumesFromStored ==
    [][StartCycle /\ lastDerivedId = 0 => nextTx' >= config.txSec]_vars
=============================================================================
