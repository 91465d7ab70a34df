------------------------------ MODULE Consent ------------------------------
(***************************************************************************)
(* What the platform promises a viewer about the actions of the agent      *)
(* (policy.py, ConfirmDialog): an action changes or sends data only after  *)
(* the viewer approved this very call on screen, and at most once; a call  *)
(* that was declined, timed out or was interrupted while the viewer was    *)
(* asked never acts any more.                                              *)
(***************************************************************************)
CONSTANT Calls      \* the calls of operate_* tools

VARIABLE consent

States == {"free",          \* not asked about, has not acted
           "asked",         \* the viewer is being asked
           "approved",      \* the viewer has approved
           "harmless",      \* has acted, on something that needs no approval
           "consented",     \* has acted on something that needs approval
           "closed"}        \* ended without acting

Init == consent = [c \in Calls |-> "free"]

Goes(c, from, to) ==
    /\ consent[c] \in from
    /\ consent' = [consent EXCEPT ![c] = to]

Ask(c) == Goes(c, {"free"}, "asked")
Approve(c) == Goes(c, {"asked"}, "approved")
ActHarmlessly(c) == Goes(c, {"free", "approved"}, "harmless")
ActWithConsent(c) == Goes(c, {"approved"}, "consented")
Close(c) == Goes(c, {"free", "asked", "approved"}, "closed")

Next ==
    \E c \in Calls :
        Ask(c) \/ Approve(c) \/ ActHarmlessly(c) \/ ActWithConsent(c) \/ Close(c)

Spec == Init /\ [][Next]_consent
=============================================================================
