------------------------------- MODULE Picture -------------------------------
(***************************************************************************)
(* What a screen share promises: it shows paints of the page, each at most *)
(* once after the page painted it, and never goes back to an earlier one.  *)
(* Paints are numbered.                                                    *)
(***************************************************************************)
EXTENDS Naturals

VARIABLES
    painted,    \* the page's last paint
    shown       \* the paint that the track shows, 0 before the first

Init == painted = 0 /\ shown = 0

\* The page repaints.
Paint == painted' = painted + 1 /\ UNCHANGED shown

\* The track takes up a newer paint; it may skip some.
Show == shown < shown' /\ shown' \in 1..painted /\ UNCHANGED painted

Next == Paint \/ Show

Spec == Init /\ [][Next]_<<painted, shown>>
=============================================================================
