------------------------------ MODULE Lifecycle ------------------------------
(***************************************************************************)
(* What the record of a session promises its readers (the Client API, and  *)
(* whatever relays the outbox): a call that is recorded as ended was live  *)
(* before; one that never got up is recorded as failed; a recorded end is  *)
(* final; and every change is announced exactly once, in its order.        *)
(***************************************************************************)
EXTENDS Sequences

VARIABLES
    status,     \* sessions.status
    events      \* the session's outbox rows, oldest first

record == <<status, events>>

Init == status = "created" /\ events = <<"created">>

Becomes(from, to, topic) ==
    /\ status \in from
    /\ status' = to
    /\ events' = Append(events, topic)

Start == Becomes({"created"}, "live", "started")
End == Becomes({"live"}, "ended", "ended")
Fail == Becomes({"created", "live"}, "failed", "ended")

Next == Start \/ End \/ Fail

Spec == Init /\ [][Next]_record
=============================================================================
