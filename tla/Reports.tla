------------------------------- MODULE Reports -------------------------------
(***************************************************************************)
(* A viewer's reports about one session: clicks on a call to action and    *)
(* feedback (report_event of routers/public.py, sent by Player.tsx), each  *)
(* a request with a transaction of several statements.  The database is    *)
(* external: a transaction reads what was committed before each statement  *)
(* (read committed), its writes show once it commits, and the lock of the  *)
(* session's row is its owner's until the transaction ends.                *)
(*                                                                         *)
(* The receipt in the header is taken to be good.                          *)
(***************************************************************************)
EXTENDS Naturals, Sequences

CONSTANTS
    Req,        \* the requests
    Answers,    \* what a viewer's feedback may say
    MaxClicks,  \* MAX_EVENTS_PER_SESSION
    MaxEdits,   \* MAX_FEEDBACK_EDITS
    NoOne       \* no owner of the lock

ASSUME ReportsAssumption ==
    /\ NoOne \notin Req
    /\ MaxClicks \in Nat
    /\ MaxEdits \in Nat
    /\ Answers \cap {"none", "click", "unknown"} = {}

VARIABLES
    session,    \* sessions.started_at: not set, within receipt_ttl_s, or older
    lock,       \* the request that holds the lock of the session's row
    clicks,     \* committed rows of type cta.clicked
    feedback,   \* the committed feedback, "none" without a row
    edits,      \* payload.edits of that row
    outbox,     \* committed outbox rows
    body,       \* the request's event: "click", a click that names no call to
                \* action ("unknown"), or the answer of a feedback
    pc,         \* where the request is
    saw         \* the feedback and its edits that its transaction read

record == <<clicks, feedback, edits, outbox>>
requestVars == <<body, pc, saw>>
vars == <<session, lock, record, requestVars>>

Bodies == {"click", "unknown"} \cup Answers
Seen == [feedback : Answers \cup {"none"}, edits : 0..MaxEdits]
Now == [feedback |-> feedback, edits |-> edits]

TypeOK ==
    /\ session \in {"created", "started", "expired"}
    /\ lock \in Req \cup {NoOne}
    /\ clicks \in 0..MaxClicks
    /\ Now \in Seen
    /\ outbox \in Seq({"click"} \cup Answers)
    /\ body \in [Req -> Bodies]
    /\ pc \in [Req -> {"new", "locking", "locked", "writing", "done", "refused"}]
    /\ saw \in [Req -> Seen]

Init ==
    /\ session = "created"
    /\ lock = NoOne
    /\ clicks = 0
    /\ feedback = "none"
    /\ edits = 0
    /\ outbox = <<>>
    /\ body = [r \in Req |-> "unknown"]
    /\ pc = [r \in Req |-> "new"]
    /\ saw = [r \in Req |-> Now]

-----------------------------------------------------------------------------
(* The session, elsewhere. *)

\* started(): an UPDATE of the row, that waits for its lock.
AgentStarts ==
    /\ session = "created"
    /\ lock = NoOne
    /\ session' = "started"
    /\ UNCHANGED <<lock, record, requestVars>>

\* receipt_ttl_s after the start.
Expires ==
    /\ session = "started"
    /\ session' = "expired"
    /\ UNCHANGED <<lock, record, requestVars>>

-----------------------------------------------------------------------------
(* report_event. *)

\* The receipt and the session's tenant are looked up before the transaction.
Arrives(r, b) ==
    /\ pc[r] = "new"
    /\ pc' = [pc EXCEPT ![r] = "locking"]
    /\ body' = [body EXCEPT ![r] = b]
    /\ UNCHANGED <<session, lock, record, saw>>

\* The transaction ends, which frees the row, and the request is answered with
\* 204 (done) or an error (refused).
Answer(r, how) ==
    /\ pc' = [pc EXCEPT ![r] = how]
    /\ lock' = NoOne
    /\ UNCHANGED <<body, saw>>

\* 409 before the call started, 410 long after it, 422 for an unknown call to action.
Unfit(r) == session # "started" \/ body[r] = "unknown"

\* Mutant: SELECT without FOR UPDATE.
LocksMutant(r) ==
    /\ pc[r] = "locking"
    /\ IF Unfit(r)
       THEN Answer(r, "refused")
       ELSE /\ pc' = [pc EXCEPT ![r] = "locked"]
            /\ UNCHANGED <<lock, body, saw>>
    /\ UNCHANGED <<session, record>>

\* SELECT ... FOR UPDATE has the row, and the checks on it.
Locks(r) ==
    /\ pc[r] = "locking"
    /\ lock = NoOne
    /\ IF Unfit(r)
       THEN Answer(r, "refused")
       ELSE /\ lock' = r
            /\ pc' = [pc EXCEPT ![r] = "locked"]
            /\ UNCHANGED <<body, saw>>
    /\ UNCHANGED <<session, record>>

\* Mutant: off by one.
FullMutant(r) == IF body[r] = "click" THEN clicks > MaxClicks
                 ELSE feedback # "none" /\ edits > MaxEdits

\* Whether one more click, or another answer, is too many.
Full(r) == IF body[r] = "click" THEN clicks >= MaxClicks
           ELSE feedback # "none" /\ edits + 1 > MaxEdits

\* Mutant: the caller returns within the transaction, and leaves it open.
ReadsMutant(r) ==
    /\ pc[r] = "locked"
    /\ IF Full(r) \/ feedback = body[r]
       THEN /\ pc' = [pc EXCEPT ![r] = "done"]
            /\ UNCHANGED <<lock, body, saw>>
       ELSE /\ pc' = [pc EXCEPT ![r] = "writing"]
            /\ saw' = [saw EXCEPT ![r] = Now]
            /\ UNCHANGED <<lock, body>>
    /\ UNCHANGED <<session, record>>

\* The stored feedback or the number of clicks is read: too many are refused, and
\* the same answer again needs nothing.
Reads(r) ==
    /\ pc[r] = "locked"
    /\ IF Full(r)
       THEN Answer(r, "refused")
       ELSE IF feedback = body[r]
       THEN Answer(r, "done")
       ELSE /\ pc' = [pc EXCEPT ![r] = "writing"]
            /\ saw' = [saw EXCEPT ![r] = Now]
            /\ UNCHANGED <<lock, body>>
    /\ UNCHANGED <<session, record>>

\* The row of session_events and that of the outbox are written and committed.
Commits(r) ==
    /\ pc[r] = "writing"
    /\ IF body[r] = "click"
       THEN clicks' = clicks + 1 /\ UNCHANGED <<feedback, edits>>
       ELSE /\ feedback' = body[r]
            /\ edits' = IF saw[r].feedback = "none" THEN 0 ELSE saw[r].edits + 1
            /\ UNCHANGED clicks
    /\ outbox' = Append(outbox, body[r])
    /\ Answer(r, "done")
    /\ UNCHANGED session

\* A statement fails: nothing is stored.
Aborts(r) ==
    /\ pc[r] \in {"locked", "writing"}
    /\ Answer(r, "refused")
    /\ UNCHANGED <<session, record>>

-----------------------------------------------------------------------------

Handles(r) == Locks(r) \/ Reads(r) \/ Commits(r) \/ Aborts(r)

Next ==
    \/ AgentStarts \/ Expires
    \/ \E r \in Req :
          \/ \E b \in Bodies : Arrives(r, b)
          \/ Handles(r)

Spec == Init /\ [][Next]_vars

\* Statements return or fail, and the row's lock goes to one of those who wait.
Fairness == \A r \in Req : WF_vars(Handles(r))

FairSpec == Spec /\ Fairness

-----------------------------------------------------------------------------
(* Properties. *)

\* "Locking the session row serializes this session's reports, so the caps below
\* hold under concurrent requests.": requests that overlap at every statement, and
\* may fail at each, record what they would one after the other; what is announced
\* is what is stored.
Promise == INSTANCE ViewerRecord
KeepsRecord == Promise!Spec

\* All reports that were sent get answered, whatever becomes of those before them in
\* the queue for the row: each way out of the transaction frees it.
ReportsEnd == []<>(\A r \in Req : pc[r] \in {"new", "done", "refused"})
=============================================================================
