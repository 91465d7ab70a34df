------------------------------ MODULE Operator ------------------------------
(***************************************************************************)
(* The operator service: the HTTP API that starts, reaps and stops browser *)
(* sandboxes (services/operator, app.py) and the session agent's client of *)
(* it (services/session-agent, clients.py).                                *)
(*                                                                         *)
(* A sandbox is named by the request that asks for it, so `Sbx` is both    *)
(* the set of start requests and the set of sandboxes they may become.     *)
(* The service is one asyncio event loop: an action is what the code does  *)
(* between two awaits.  Time is two sets: `idle`, the sandboxes whose      *)
(* `last_used` is more than idle_timeout_s ago, and `old`, those past      *)
(* max_lifetime_s.                                                         *)
(***************************************************************************)
EXTENDS Naturals, FiniteSets

CONSTANTS
    Sbx,            \* start requests, and the sandboxes they become
    MaxSandboxes,   \* settings.max_sandboxes
    BusyRetries,    \* OperatorClient.start's busy_retries
    UnguardedRaises \* whether the steps the code does not guard may raise: the
                    \* closes, and those between the launch and the stream

ASSUME OperatorAssumption ==
    /\ IsFiniteSet(Sbx)
    /\ MaxSandboxes \in Nat
    /\ BusyRetries \in Nat
    /\ UnguardedRaises \in BOOLEAN

VARIABLES
    client,     \* the agent: what it knows of the sandbox it asked for
    tries,      \* 503 answers the agent has retried so far
    req,        \* where the start handler of this request is
    browser,    \* the browser (or context) of the sandbox
    sandboxes,  \* the registry: the keys of the dict `sandboxes`
    starting,   \* the counter `starting`
    closers,    \* the tasks that are awaiting a close of this sandbox
    idle, old,  \* what the clock says of each registered sandbox
    reaper,     \* whether the reaper task still runs
    scan        \* the entries of its copied list it has yet to reap

clientVars == <<client, tries>>
reaperVars == <<reaper, scan>>
clockVars  == <<idle, old>>
vars == <<client, tries, req, browser, sandboxes, starting, closers,
          idle, old, reaper, scan>>

\* What the agent holds: nothing yet, a request under way, a 503 to wait
\* out, a sandbox id, or nothing any more.
ClientStates == {"new", "asking", "waiting", "holds", "gone"}

\* "launching": chromium.launch; "opening": Sandbox._start (context, routes,
\* first page) and ScreenStreamer.start; "aborting": the close of a failed
\* start; "answering": registered, awaiting the page's title.
ReqStates == {"none", "launching", "opening", "aborting", "answering",
              "done", "failed"}

\* The requests between `starting += 1` and `starting -= 1`.
InStart == {"launching", "opening", "aborting"}

\* The tasks that close a sandbox: a DELETE, the reaper, a failed start.
Closer == {"stop", "reaper", "abort"}

TypeOK ==
    /\ client \in [Sbx -> ClientStates]
    /\ tries \in [Sbx -> 0..BusyRetries]
    /\ req \in [Sbx -> ReqStates]
    /\ browser \in [Sbx -> {"none", "live", "closed"}]
    /\ sandboxes \in SUBSET Sbx
    /\ starting \in Nat
    /\ closers \in [Sbx -> SUBSET Closer]
    /\ idle \in SUBSET Sbx
    /\ old \in SUBSET Sbx
    /\ reaper \in {"running", "dead"}
    /\ scan \in SUBSET Sbx

Init ==
    /\ client = [s \in Sbx |-> "new"]
    /\ tries = [s \in Sbx |-> 0]
    /\ req = [s \in Sbx |-> "none"]
    /\ browser = [s \in Sbx |-> "none"]
    /\ sandboxes = {}
    /\ starting = 0
    /\ closers = [s \in Sbx |-> {}]
    /\ idle = {}
    /\ old = {}
    /\ reaper = "running"
    /\ scan = {}

\* Mutant: the requests still starting are not counted.
AtCapacityMutant == Cardinality(sandboxes) >= MaxSandboxes

-----------------------------------------------------------------------------
(* POST /v1/sandboxes, and the client that calls it. *)

AtCapacity == Cardinality(sandboxes) + starting >= MaxSandboxes

\* The handler admits the request and begins the launch; the client's retry
\* loop is over.
StartAdmit(s) ==
    /\ client[s] \in {"new", "waiting"}
    /\ ~AtCapacity
    /\ client' = [client EXCEPT ![s] = "asking"]
    /\ starting' = starting + 1
    /\ req' = [req EXCEPT ![s] = "launching"]
    /\ tries' = [tries EXCEPT ![s] = 0]
    /\ UNCHANGED <<browser, sandboxes, closers, clockVars, reaperVars>>

\* 503 with Retry-After: the client waits and asks again, busy_retries times,
\* then lets the last answer fail the session.
StartRefused(s) ==
    /\ client[s] \in {"new", "waiting"}
    /\ AtCapacity
    /\ IF tries[s] < BusyRetries
       THEN /\ tries' = [tries EXCEPT ![s] = @ + 1]
            /\ client' = [client EXCEPT ![s] = "waiting"]
       ELSE /\ client' = [client EXCEPT ![s] = "gone"]
            /\ tries' = [tries EXCEPT ![s] = 0]
    /\ UNCHANGED <<req, browser, sandboxes, starting, closers, clockVars,
                   reaperVars>>

-----------------------------------------------------------------------------
(* The start handler, between its awaits. *)

\* chromium.launch returned: the process (or the shared browser) is up.
Launched(s) ==
    /\ req[s] = "launching"
    /\ req' = [req EXCEPT ![s] = "opening"]
    /\ browser' = [browser EXCEPT ![s] = "live"]
    /\ UNCHANGED <<clientVars, sandboxes, starting, closers, clockVars,
                   reaperVars>>

\* Mutant: a launch that raises does not give its place back.
LaunchFailedMutant(s) ==
    /\ req[s] = "launching"
    /\ req' = [req EXCEPT ![s] = "failed"]
    /\ UNCHANGED <<clientVars, browser, sandboxes, starting, closers, clockVars,
                   reaperVars>>

\* Mutant: the decrement is in the except clause and in the finally clause.
LaunchFailedTwiceMutant(s) ==
    /\ req[s] = "launching"
    /\ req' = [req EXCEPT ![s] = "failed"]
    /\ starting' = starting - 2
    /\ UNCHANGED <<clientVars, browser, sandboxes, closers, clockVars,
                   reaperVars>>

\* chromium.launch raised: there is nothing to close yet.
LaunchFailed(s) ==
    /\ req[s] = "launching"
    /\ req' = [req EXCEPT ![s] = "failed"]
    /\ starting' = starting - 1
    /\ UNCHANGED <<clientVars, browser, sandboxes, closers, clockVars,
                   reaperVars>>

\* Mutant: a failed stream start does not close the sandbox.
StartFailedMutant(s) ==
    /\ req[s] = "opening"
    /\ req' = [req EXCEPT ![s] = "failed"]
    /\ starting' = starting - 1
    /\ UNCHANGED <<clientVars, browser, sandboxes, closers, clockVars,
                   reaperVars>>

\* Sandbox._start or ScreenStreamer.start raised: close the sandbox, re-raise.
StartFailed(s) ==
    /\ req[s] = "opening"
    /\ req' = [req EXCEPT ![s] = "aborting"]
    /\ closers' = [closers EXCEPT ![s] = @ \cup {"abort"}]
    /\ UNCHANGED <<clientVars, browser, sandboxes, starting, clockVars,
                   reaperVars>>

\* The ScreenStreamer constructor or sandbox_token raised, after the launch and
\* before the inner try: the counter drops and nobody closes the browser.
OpeningRaises(s) ==
    /\ UnguardedRaises
    /\ req[s] = "opening"
    /\ req' = [req EXCEPT ![s] = "failed"]
    /\ starting' = starting - 1
    /\ UNCHANGED <<clientVars, browser, sandboxes, closers, clockVars,
                   reaperVars>>

\* The page is open and the stream is up (or none was asked for): the entry is
\* registered.
Registered(s) ==
    /\ req[s] = "opening"
    /\ req' = [req EXCEPT ![s] = "answering"]
    /\ sandboxes' = sandboxes \cup {s}
    /\ starting' = starting - 1
    /\ UNCHANGED <<clientVars, browser, closers, clockVars, reaperVars>>

\* page.title() returned and the 201 is sent; it reaches a client that still
\* waits.
Answered(s) ==
    /\ req[s] = "answering"
    /\ req' = [req EXCEPT ![s] = "done"]
    /\ client' = [client EXCEPT ![s] = IF @ = "asking" THEN "holds" ELSE @]
    /\ UNCHANGED <<tries, browser, sandboxes, starting, closers, clockVars,
                   reaperVars>>

\* page.title() raised after the registration: a 500 for a running sandbox.
AnswerFailed(s) ==
    /\ req[s] = "answering"
    /\ req' = [req EXCEPT ![s] = "failed"]
    /\ UNCHANGED <<clientVars, browser, sandboxes, starting, closers,
                   clockVars, reaperVars>>

\* Mutant: the agent waits for an answer for ever.
ClientGoneMutant(s) ==
    /\ client[s] \in {"waiting", "holds"}
    /\ client' = [client EXCEPT ![s] = "gone"]
    /\ UNCHANGED <<tries, req, browser, sandboxes, starting, closers,
                   clockVars, reaperVars>>

\* The agent learns of a failed start, its 30 s timeout fires, or its process
\* dies: whatever the handler still does, nobody will use the answer.
ClientGone(s) ==
    /\ client[s] \in {"asking", "waiting", "holds"}
    /\ client' = [client EXCEPT ![s] = "gone"]
    /\ UNCHANGED <<tries, req, browser, sandboxes, starting, closers,
                   clockVars, reaperVars>>

-----------------------------------------------------------------------------
(* Using and stopping a sandbox. *)

\* Mutant: a use does not touch `last_used` until the tool is done.
UseMutant(s) ==
    /\ client[s] = "holds"
    /\ s \in sandboxes
    /\ idle' = idle \ {s}
    /\ UNCHANGED <<clientVars, req, browser, sandboxes, starting, closers,
                   old, reaperVars>>

\* A tool or an element-at call: the lookup, then `last_used = now`, which is
\* later than the `now` of a reaper scan under way.
Use(s) ==
    /\ client[s] = "holds"
    /\ s \in sandboxes
    /\ idle' = idle \ {s}
    /\ scan' = IF s \in old THEN scan ELSE scan \ {s}
    /\ UNCHANGED <<clientVars, req, browser, sandboxes, starting, closers,
                   old, reaper>>

\* The entry leaves the registry (dict.pop) and task c awaits its close.
Pop(s, c) ==
    /\ sandboxes' = sandboxes \ {s}
    /\ idle' = idle \ {s}
    /\ old' = old \ {s}
    /\ closers' = [closers EXCEPT ![s] = @ \cup {c}]

\* DELETE: an id that was already popped is a no-op.
Stop(s) ==
    /\ client[s] = "holds"
    /\ client' = [client EXCEPT ![s] = "gone"]
    /\ IF s \in sandboxes
       THEN Pop(s, "stop")
       ELSE UNCHANGED <<sandboxes, clockVars, closers>>
    /\ UNCHANGED <<tries, req, browser, starting, reaperVars>>

\* The close that task c awaited came back.  A failed start's close is the
\* last thing its handler does before the counter drops and the error is sent.
Ended(s, c) ==
    /\ closers' = [closers EXCEPT ![s] = @ \ {c}]
    /\ IF c = "abort"
       THEN /\ req' = [req EXCEPT ![s] = "failed"]
            /\ starting' = starting - 1
       ELSE UNCHANGED <<req, starting>>

\* _Entry.close (or Sandbox.close) completes.
CloseReturns(s, c) ==
    /\ c \in closers[s]
    /\ browser' = [browser EXCEPT ![s] = "closed"]
    /\ Ended(s, c)
    /\ UNCHANGED <<clientVars, sandboxes, clockVars, reaperVars>>

\* _Entry.close raises: streamer.stop() failed and the sandbox is left alone,
\* or the context failed to close and the browser was closed all the same.
\* Raised inside the reaper, it ends the reaper task.
CloseRaises(s, c) ==
    /\ UnguardedRaises
    /\ c \in closers[s]
    /\ \/ browser' = [browser EXCEPT ![s] = "closed"]
       \/ UNCHANGED browser
    /\ Ended(s, c)
    /\ IF c = "reaper"
       THEN /\ reaper' = "dead"
            /\ scan' = {}
       ELSE UNCHANGED reaperVars
    /\ UNCHANGED <<clientVars, sandboxes, clockVars>>

-----------------------------------------------------------------------------
(* The clock and the reaper. *)

\* idle_timeout_s passes without a use (of interest until it is over-age).
BecomesIdle(s) ==
    /\ s \in sandboxes \ (idle \cup old)
    /\ idle' = idle \cup {s}
    /\ UNCHANGED <<clientVars, req, browser, sandboxes, starting, closers,
                   old, reaperVars>>

\* max_lifetime_s has passed since the launch.
BecomesOld(s) ==
    /\ s \in sandboxes \ old
    /\ old' = old \cup {s}
    /\ idle' = idle \ {s}
    /\ UNCHANGED <<clientVars, req, browser, sandboxes, starting, closers,
                   reaperVars>>

\* The reaper awaits a close.
Reaping == \E s \in Sbx : "reaper" \in closers[s]

\* 15 s are over: read the clock once and copy the registry's items.  Of the
\* copy only the entries overdue now can be found overdue against this `now`.
ReaperWakes ==
    /\ reaper = "running"
    /\ scan = {}
    /\ ~Reaping
    /\ idle \cup old # {}
    /\ scan' = idle \cup old
    /\ UNCHANGED <<clientVars, req, browser, sandboxes, starting, closers,
                   clockVars, reaper>>

\* Mutant: the reaper pops the entry and forgets to close it.
ReaperReapsMutant(s) ==
    /\ ~Reaping
    /\ s \in scan
    /\ scan' = scan \ {s}
    /\ sandboxes' = sandboxes \ {s}
    /\ idle' = idle \ {s}
    /\ old' = old \ {s}
    /\ UNCHANGED <<clientVars, req, browser, starting, closers, reaper>>

\* The loop reaches an overdue entry: pop it and await its close, also when a
\* DELETE popped it while the reaper awaited an earlier close.
ReaperReaps(s) ==
    /\ ~Reaping
    /\ s \in scan
    /\ scan' = scan \ {s}
    /\ Pop(s, "reaper")
    /\ UNCHANGED <<clientVars, req, browser, starting, reaper>>

-----------------------------------------------------------------------------

Handler(s) ==
    \/ Launched(s) \/ LaunchFailed(s) \/ StartFailed(s) \/ OpeningRaises(s)
    \/ Registered(s) \/ Answered(s) \/ AnswerFailed(s)

Client(s) ==
    \/ StartAdmit(s) \/ StartRefused(s) \/ ClientGone(s) \/ Use(s) \/ Stop(s)

Close(s) == \E c \in Closer : CloseReturns(s, c) \/ CloseRaises(s, c)

Clock(s) == BecomesIdle(s) \/ BecomesOld(s)

Reaper == ReaperWakes \/ \E s \in Sbx : ReaperReaps(s)

Next ==
    \/ \E s \in Sbx : Client(s) \/ Handler(s) \/ Close(s) \/ Clock(s)
    \/ Reaper

Spec == Init /\ [][Next]_vars

\* What the event loop and the agent's client owe a request: its handler and
\* its closes return (every Playwright call has a timeout), a 503 is retried,
\* and an answer that does not come times out.
Served(s) ==
    \/ Handler(s)
    \/ Close(s)
    \/ StartAdmit(s) \/ StartRefused(s)
    \/ client[s] = "asking" /\ ClientGone(s)

\* Besides, time passes and the reaper wakes up.
Fairness ==
    /\ WF_vars(Reaper)
    /\ \A s \in Sbx : WF_vars(Served(s)) /\ WF_vars(Clock(s))

FairSpec == Spec /\ Fairness

-----------------------------------------------------------------------------
(* Properties. *)

\* Registered and starting sandboxes together never exceed max_sandboxes,
\* however many start requests overlap: the check and `starting += 1` are one
\* step of the event loop, and every exit of the handler gives its slot back.
CapacityHeld == Cardinality(sandboxes) + starting <= MaxSandboxes

\* The counter is the number of start handlers under way: no failure path
\* loses or doubles the decrement, so capacity neither leaks nor inflates.
StartingCounted == starting = Cardinality({s \in Sbx : req[s] \in InStart})

\* Every live browser has an owner that will close it: its start handler, the
\* registry, or a task already awaiting its close (stated for a service whose
\* unguarded steps do not raise).
NoOrphanBrowser ==
    \A s \in Sbx : browser[s] = "live" =>
        \/ req[s] = "opening"
        \/ s \in sandboxes
        \/ closers[s] # {}

\* A registered sandbox leaves the registry only by its owner's DELETE or
\* because it is overdue now; a use between the reaper's snapshot and its
\* visit saves the sandbox.
OnlyOverdueReaped ==
    [][\A s \in sandboxes \ sandboxes' :
          \/ client[s] = "holds" /\ client'[s] = "gone"
          \/ s \in idle \cup old]_vars

\* An agent that asks gets a sandbox or gives up, however full the service is
\* and even when the reaper has died: the 503 retries are bounded.
StartSettles ==
    \A s \in Sbx : client[s] \in {"asking", "waiting"}
                      ~> client[s] \in {"holds", "gone"}

\* A sandbox nobody will stop (its agent gave up, crashed, or never got the
\* id) is eventually reaped and its browser closed.
AbandonedIsClosed ==
    \A s \in Sbx : (browser[s] = "live" /\ client[s] = "gone")
                      ~> browser[s] = "closed"

\* "Idle or over-age sandboxes are reaped."  The code's reaper task ends with
\* the first close that raises.
OverdueIsReaped ==
    \A s \in Sbx : (s \in sandboxes /\ s \in old) ~> s \notin sandboxes

=============================================================================
