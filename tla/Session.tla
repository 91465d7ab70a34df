------------------------------- MODULE Session -------------------------------
(***************************************************************************)
(* The life of one session: the agent's job (worker.py, entrypoint and     *)
(* finalize; Transcript; the cost ticker), the HTTP requests by which it   *)
(* reports to the api (clients.py), and the transactions the api runs for  *)
(* them (routers/internal.py).                                             *)
(*                                                                         *)
(* A request may be delivered late, also after its client gave up on it,   *)
(* or never, and its reply may be lost.  The process may crash.  LiveKit   *)
(* (external) dispatches a job when a room is created and runs the         *)
(* shutdown callback, finalize, at any moment after it is registered, also *)
(* while entrypoint is at an await.  Lines and usage are counted, not      *)
(* spelled out: a line is its seq.                                         *)
(***************************************************************************)
EXTENDS Naturals, FiniteSets, Sequences

CONSTANTS
    MaxJobs,    \* bound: jobs dispatched for the session's room
    MaxLines,   \* bound: transcript lines, of all jobs
    MaxUsage    \* bound: units of model usage

ASSUME SessionAssumption ==
    /\ MaxJobs \in Nat
    /\ MaxLines \in Nat
    /\ MaxUsage \in Nat

VARIABLES
    \* the database
    status,     \* sessions.status
    events,     \* the session's outbox rows
    stored,     \* transcript_messages: the job whose line has this seq, or 0
    billed,     \* units in cost_ledger
    \* the network
    net,        \* requests that may still reach the api
    replies,    \* requests whose 204 may still reach the agent
    \* the agent's process
    job,        \* the number of this job, 0 before the first
    pc,         \* where entrypoint is
    fin,        \* where finalize is
    reason,     \* end_reason
    seq,        \* Transcript._seq
    said,       \* lines so far, of all jobs
    buf,        \* Transcript._buf
    spawned,    \* whether a spawned flush has yet to begin
    flights,    \* batches a flush awaits the reply for, and who flushes
    unreported, \* usage not yet taken
    ticking,    \* the cost request the ticker awaits
    last,       \* the requests finalize awaits
    used        \* units used so far, by all jobs

dbVars == <<status, events, stored, billed>>
netVars == <<net, replies>>
lineVars == <<seq, said, buf, spawned, flights>>
costVars == <<unreported, ticking, used>>
agentVars == <<job, pc, fin, reason>>
vars == <<dbVars, netVars, agentVars, lineVars, costVars, last>>

Jobs == 1..MaxJobs
Seqs == 0..(MaxLines - 1)

\* end_reason: to the api, all that is not an error is one ("agent_ended" and
\* "max_duration" too).
Reasons == {"error", "viewer_left"}

\* The requests, all of one shape.  Two posts of the same batch are one request:
\* the api applies them at most once.  `upto` tells cost requests apart.
Request == [kind : {"started", "lines", "cost", "ended"}, job : Jobs,
            lines : SUBSET Seqs, qty : Nat, upto : Nat, reason : Reasons]

Started(j) == [kind |-> "started", job |-> j, lines |-> {}, qty |-> 0,
               upto |-> 0, reason |-> "error"]
Lines(j, batch) == [Started(j) EXCEPT !.kind = "lines", !.lines = batch]
Cost(j, n, total) ==
    [Started(j) EXCEPT !.kind = "cost", !.qty = n, !.upto = total]
EndedAs(j, why) == [Started(j) EXCEPT !.kind = "ended", !.reason = why]

\* "off": no process; "loading": api.context(); "opening": from the operator's
\* start to session.start; "starting": api.started(); "live": the call;
\* "closing": the goodbye; "returned": entrypoint has returned or raised.
PcStates == {"off", "loading", "opening", "starting", "live", "closing",
             "returned"}

TypeOK ==
    /\ status \in {"created", "live", "ended", "failed"}
    /\ events \in Seq({"created", "started", "ended"})
    /\ stored \in [Seqs -> 0..MaxJobs]
    /\ billed \in Nat
    /\ net \in SUBSET Request
    /\ replies \in SUBSET Request
    /\ job \in 0..MaxJobs
    /\ pc \in PcStates
    /\ fin \in {"no", "flushing", "posting", "stopped"}
    /\ reason \in Reasons
    /\ said \in 0..MaxLines
    /\ seq \in 0..said
    /\ buf \in SUBSET Seqs
    /\ spawned \in BOOLEAN
    /\ flights \in SUBSET [lines : SUBSET Seqs, by : {"spawn", "finalize"}]
    /\ unreported \in Nat
    /\ ticking \in SUBSET Request
    /\ last \in SUBSET Request
    /\ used \in 0..MaxUsage
    /\ pc # "off" => job # 0

\* What a process starts with, and what is left when there is none.
Blank ==
    /\ fin' = "no"
    /\ reason' = "error"
    /\ seq' = 0
    /\ buf' = {}
    /\ spawned' = FALSE
    /\ flights' = {}
    /\ unreported' = 0
    /\ ticking' = {}
    /\ last' = {}

\* start_session has just committed.
Init ==
    /\ status = "created"
    /\ events = <<"created">>
    /\ stored = [i \in Seqs |-> 0]
    /\ billed = 0
    /\ net = {}
    /\ replies = {}
    /\ job = 0
    /\ pc = "off"
    /\ fin = "no"
    /\ reason = "error"
    /\ seq = 0
    /\ said = 0
    /\ buf = {}
    /\ spawned = FALSE
    /\ flights = {}
    /\ unreported = 0
    /\ ticking = {}
    /\ last = {}
    /\ used = 0

-----------------------------------------------------------------------------
(* The api: one transaction per request. *)

\* Mutant: the status is not part of the WHERE clause.
MarkStartedMutant ==
    /\ status' = "live"
    /\ events' = Append(events, "started")
    /\ UNCHANGED <<stored, billed>>

\* POST /started.
MarkStarted ==
    /\ IF status = "created"
       THEN /\ status' = "live"
            /\ events' = Append(events, "started")
       ELSE UNCHANGED <<status, events>>
    /\ UNCHANGED <<stored, billed>>

\* Mutant: the reason is written to the status column.
MarkEndedMutant(why) ==
    /\ IF status \in {"created", "live"}
       THEN /\ status' = why
            /\ events' = Append(events, "ended")
       ELSE UNCHANGED <<status, events>>
    /\ UNCHANGED <<stored, billed>>

\* POST /ended.
MarkEnded(why) ==
    /\ IF status \in {"created", "live"}
       THEN /\ status' = IF why = "error" THEN "failed" ELSE "ended"
            /\ events' = Append(events, "ended")
       ELSE UNCHANGED <<status, events>>
    /\ UNCHANGED <<stored, billed>>

\* POST /transcript: on conflict do nothing.
AppendTranscript(j, batch) ==
    /\ stored' = [i \in Seqs |->
                    IF i \in batch /\ stored[i] = 0 THEN j ELSE stored[i]]
    /\ UNCHANGED <<status, events, billed>>

\* POST /cost: every row is a new one.
AppendCost(n) ==
    /\ billed' = billed + n
    /\ UNCHANGED <<status, events, stored>>

Applied(m) ==
    CASE m.kind = "started" -> MarkStarted
      [] m.kind = "ended" -> MarkEnded(m.reason)
      [] m.kind = "lines" -> AppendTranscript(m.job, m.lines)
      [] m.kind = "cost" -> AppendCost(m.qty)

\* The requests the agent's process awaits the reply of.
Awaited ==
    (IF pc = "starting" THEN {Started(job)} ELSE {})
        \cup {Lines(job, f.lines) : f \in flights} \cup ticking \cup last

Deliver(m) ==
    /\ m \in net
    /\ Applied(m)
    /\ net' = net \ {m}
    /\ replies' = replies \cup ({m} \cap Awaited)
    /\ UNCHANGED <<agentVars, lineVars, costVars, last>>

\* A request is sent.
Post(requests) ==
    /\ net' = net \cup requests
    /\ UNCHANGED replies

\* A reply is read.
Answered(m) ==
    /\ m \in replies
    /\ replies' = replies \ {m}
    /\ UNCHANGED net

\* The client gives up on a request (timeout, network, an error status).  The
\* api may yet get it.
GivenUp(m) ==
    /\ replies' = replies \ {m}
    /\ UNCHANGED net

-----------------------------------------------------------------------------
(* entrypoint. *)

\* A room is created, with the agent in its configuration: a job begins.
Dispatch ==
    /\ pc = "off"
    /\ job < MaxJobs
    /\ job' = job + 1
    /\ pc' = "loading"
    /\ UNCHANGED <<fin, reason, lineVars, costVars, last, dbVars, netVars>>

\* api.context() raised: finalize is not registered yet.
ContextFails ==
    /\ pc = "loading"
    /\ pc' = "off"
    /\ Blank
    /\ UNCHANGED <<job, used, said, dbVars, netVars>>

EntryGoes(from, to) ==
    /\ pc = from
    /\ pc' = to
    /\ UNCHANGED <<job, fin>>

ContextLoaded ==
    /\ EntryGoes("loading", "opening")
    /\ UNCHANGED <<reason, lineVars, costVars, last, dbVars, netVars>>

\* The sandbox, the room or the voice session did not start.
OpeningFails ==
    /\ EntryGoes("opening", "returned")
    /\ UNCHANGED <<reason, lineVars, costVars, last, dbVars, netVars>>

Opened ==
    /\ EntryGoes("opening", "starting")
    /\ Post({Started(job)})
    /\ UNCHANGED <<reason, lineVars, costVars, last, dbVars>>

StartedReturns ==
    /\ EntryGoes("starting", "live")
    /\ Answered(Started(job))
    /\ reason' = "viewer_left"
    /\ UNCHANGED <<lineVars, costVars, last, dbVars>>

StartedRaises ==
    /\ EntryGoes("starting", "returned")
    /\ GivenUp(Started(job))
    /\ UNCHANGED <<reason, lineVars, costVars, last, dbVars>>

\* asyncio.wait: the agent ended the call, the viewer left, or time is up.
CallEnds ==
    /\ EntryGoes("live", "closing")
    /\ reason' = "viewer_left"
    /\ UNCHANGED <<lineVars, costVars, last, dbVars, netVars>>

\* The goodbye is over; the finally clause cancels the ticker.
EntryReturns ==
    /\ EntryGoes("closing", "returned")
    /\ ticking' = {}
    /\ UNCHANGED <<reason, lineVars, unreported, used, last, dbVars, netVars>>

-----------------------------------------------------------------------------
(* The transcript. *)

\* The voice session runs until the process ends.
Talking == pc \in {"starting", "live", "closing", "returned"}

\* conversation_item_added: buffer the line and spawn a flush.
Says ==
    /\ Talking
    /\ said < MaxLines
    /\ said' = said + 1
    /\ seq' = seq + 1
    /\ buf' = buf \cup {seq}
    /\ spawned' = TRUE
    /\ UNCHANGED <<flights, agentVars, costVars, last, dbVars, netVars>>

\* flush takes the buffer and posts it, if there is anything to post.
Flush(by) ==
    IF buf = {}
    THEN UNCHANGED <<buf, flights, netVars>>
    ELSE /\ Post({Lines(job, buf)})
         /\ flights' = flights \cup {[lines |-> buf, by |-> by]}
         /\ buf' = {}

FlushBegins ==
    /\ spawned
    /\ spawned' = FALSE
    /\ Flush("spawn")
    /\ UNCHANGED <<seq, said, agentVars, costVars, last, dbVars>>

FlushReturns(f) ==
    /\ f \in flights
    /\ Answered(Lines(job, f.lines))
    /\ flights' = flights \ {f}
    /\ UNCHANGED <<seq, said, buf, spawned, agentVars, costVars, last, dbVars>>

\* Mutant: a batch that could not be sent is dropped.
FlushRaisesMutant(f) ==
    /\ f \in flights
    /\ GivenUp(Lines(job, f.lines))
    /\ flights' = flights \ {f}
    /\ UNCHANGED <<seq, said, buf, spawned, agentVars, costVars, last, dbVars>>

\* The batch goes back into the buffer, for the next flush.
FlushRaises(f) ==
    /\ f \in flights
    /\ GivenUp(Lines(job, f.lines))
    /\ flights' = flights \ {f}
    /\ buf' = buf \cup f.lines
    /\ UNCHANGED <<seq, said, spawned, agentVars, costVars, last, dbVars>>

-----------------------------------------------------------------------------
(* Usage. *)

\* The brain makes a request.
Uses ==
    /\ Talking
    /\ used < MaxUsage
    /\ used' = used + 1
    /\ unreported' = unreported + 1
    /\ UNCHANGED <<ticking, agentVars, lineVars, last, dbVars, netVars>>

\* cost_ticker, each 30 s while the call is up: take_usage and report it.
TickerPosts ==
    /\ pc \in {"live", "closing"}
    /\ ticking = {}
    /\ unreported > 0
    /\ ticking' = {Cost(job, unreported, used)}
    /\ Post(ticking')
    /\ unreported' = 0
    /\ UNCHANGED <<used, agentVars, lineVars, last, dbVars>>

TickerReturns ==
    /\ \E m \in ticking : Answered(m)
    /\ ticking' = {}
    /\ UNCHANGED <<unreported, used, agentVars, lineVars, last, dbVars>>

\* Mutant: usage that could not be reported is reported again later.
TickerRaisesMutant ==
    /\ \E m \in ticking : GivenUp(m) /\ unreported' = unreported + m.qty
    /\ ticking' = {}
    /\ UNCHANGED <<used, agentVars, lineVars, last, dbVars>>

\* The report failed: a warning, and this usage is not reported again.
TickerRaises ==
    /\ \E m \in ticking : GivenUp(m)
    /\ ticking' = {}
    /\ UNCHANGED <<unreported, used, agentVars, lineVars, last, dbVars>>

-----------------------------------------------------------------------------
(* finalize, the shutdown callback. *)

\* After the flush: report the remaining usage and the end.
PostLast ==
    LET rows == IF unreported = 0 THEN {} ELSE {Cost(job, unreported, used)}
    IN  /\ fin' = "posting"
        /\ last' = rows \cup {EndedAs(job, reason)}
        /\ Post(last')
        /\ unreported' = 0
        /\ UNCHANGED <<ticking, used>>

\* The job is shut down: entrypoint asked for it or raised, the room is gone, or
\* the worker is stopped.
FinalizeBegins ==
    /\ pc \notin {"off", "loading"}
    /\ fin = "no"
    /\ IF buf = {}
       THEN /\ PostLast
            /\ UNCHANGED <<buf, flights>>
       ELSE /\ fin' = "flushing"
            /\ Flush("finalize")
            /\ UNCHANGED <<costVars, last>>
    /\ UNCHANGED <<job, pc, reason, seq, said, spawned, dbVars>>

\* Its own flush is over.  One that a line spawned may still be in flight.
FinalizePosts ==
    /\ fin = "flushing"
    /\ \A f \in flights : f.by # "finalize"
    /\ PostLast
    /\ UNCHANGED <<job, pc, reason, lineVars, dbVars>>

LastReturns(m) ==
    /\ m \in last
    /\ Answered(m)
    /\ last' = last \ {m}
    /\ UNCHANGED <<agentVars, lineVars, costVars, dbVars>>

\* gather(return_exceptions=True): a warning.
LastRaises(m) ==
    /\ m \in last
    /\ GivenUp(m)
    /\ last' = last \ {m}
    /\ UNCHANGED <<agentVars, lineVars, costVars, dbVars>>

\* Mutant: the operator's client has no timeout, and its answer need not come.
StopEndsMutant == FALSE /\ UNCHANGED vars

\* gather waits for operator.stop() too: it has been answered, has raised or has
\* timed out, or there was no sandbox to stop.  Nothing depends on when, among
\* the requests to the api: it is taken for the last.
StopEnds ==
    /\ fin = "posting"
    /\ last = {}
    /\ fin' = "stopped"
    /\ UNCHANGED <<job, pc, reason, lineVars, costVars, last, dbVars, netVars>>

\* The clients are closed and the process ends, whatever else it was at.
Exits ==
    /\ fin = "stopped"
    /\ pc' = "off"
    /\ Blank
    /\ replies' = {}
    /\ UNCHANGED <<job, used, said, net, dbVars>>

\* The process or its machine dies.
Crash ==
    /\ pc # "off"
    /\ pc' = "off"
    /\ Blank
    /\ replies' = {}
    /\ UNCHANGED <<job, used, said, net, dbVars>>

-----------------------------------------------------------------------------

Entry ==
    \/ ContextFails \/ ContextLoaded \/ OpeningFails \/ Opened
    \/ StartedReturns \/ StartedRaises \/ CallEnds \/ EntryReturns

Flushing == FlushBegins \/ \E f \in flights : FlushReturns(f) \/ FlushRaises(f)

Ticker == TickerPosts \/ TickerReturns \/ TickerRaises

Finalize ==
    \/ FinalizeBegins \/ FinalizePosts \/ StopEnds \/ Exits
    \/ \E m \in last : LastReturns(m) \/ LastRaises(m)

Next ==
    \/ \E m \in net : Deliver(m)
    \/ Dispatch
    \/ Entry
    \/ Says \/ Uses
    \/ Flushing \/ Ticker
    \/ Finalize
    \/ Crash

Spec == Init /\ [][Next]_vars

\* Every await of the job ends: the clients have timeouts, the call has
\* max_duration, and LiveKit shuts a job down whose entrypoint is over.  The
\* network owes nothing.
Fairness ==
    /\ WF_vars(Entry)
    /\ WF_vars(Flushing)
    /\ WF_vars(pc = "returned" /\ Finalize)

FairSpec == Spec /\ Fairness

-----------------------------------------------------------------------------
(* Properties. *)

\* The record of the session keeps the promise of Lifecycle although /ended takes
\* a session from created to ended: only a job whose call was up reports another
\* reason than an error, however late requests arrive, whatever replies are
\* lost, and though a second job may run.
Promise == INSTANCE Lifecycle
KeepsLifecycle == Promise!Spec

\* An earlier job of the session has stored a line under this number: a job counts
\* from 0 again, and ON CONFLICT DO NOTHING keeps the line that came first.
Taken(i) == stored[i] \in 1..(job - 1)

\* While the job runs, each line of its conversation is buffered, on its way, or
\* stored as this job's, also when flushes overlap and fail in any order, when a
\* flush that failed for the agent did reach the api, and while lines of an
\* earlier job still arrive.  Only a line whose number is taken may be dropped.
NoLineLost ==
    \A i \in Seqs : i < seq =>
        \/ i \in buf
        \/ \E f \in flights : i \in f.lines
        \/ stored[i] = job
        \/ Taken(i)

\* The ledger never shows more than was used: a report that may have arrived is
\* not sent again.
NeverOverbilled == billed <= used

\* A job ends, whatever the network does: again and again there is none.
JobEnds == []<>(pc = "off")
=============================================================================
