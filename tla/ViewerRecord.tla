----------------------------- MODULE ViewerRecord -----------------------------
(***************************************************************************)
(* What the api promises of a viewer's reports about one session: at most  *)
(* MaxClicks clicks and MaxEdits changes of the feedback are recorded, one *)
(* after the other, and each is announced in the outbox as it is recorded. *)
(***************************************************************************)
EXTENDS Naturals, Sequences

CONSTANTS
    Answers,    \* what a viewer's feedback may say
    MaxClicks,
    MaxEdits

VARIABLES
    clicks,     \* recorded clicks
    feedback,   \* the recorded feedback, "none" before the first
    edits,      \* its changes
    outbox      \* the announcements

record == <<clicks, feedback, edits, outbox>>

Init ==
    /\ clicks = 0
    /\ feedback = "none"
    /\ edits = 0
    /\ outbox = <<>>

Click ==
    /\ clicks < MaxClicks
    /\ clicks' = clicks + 1
    /\ outbox' = Append(outbox, "click")
    /\ UNCHANGED <<feedback, edits>>

\* The first feedback, or another than the one before.
Rate(a) ==
    /\ a # feedback
    /\ IF feedback = "none"
       THEN edits' = 0
       ELSE edits < MaxEdits /\ edits' = edits + 1
    /\ feedback' = a
    /\ outbox' = Append(outbox, a)
    /\ UNCHANGED clicks

Next == Click \/ \E a \in Answers : Rate(a)

Spec == Init /\ [][Next]_record
=============================================================================
