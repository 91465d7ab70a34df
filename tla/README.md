# ultrademo: a TLA+ model of the live demo call

ultrademo runs live product demos. A viewer opens a link, a voice agent joins
the call, and the agent drives the real product in a browser that both of them
see. This directory holds the TLA+ modules that model the parts of the system
with protocol state, the TLC configurations that check them on small instances,
and TLAPS proofs of the most important invariants for every instance.

- [The system](#the-system): components, state, interactions, what is hard
- [Modules](#modules): which module models which code, and how
- [Runs](#runs): what is checked, the bounds, the fairness
- [Where code and comments disagree](#where-code-and-comments-disagree)
- [Proofs](#proofs): what is proved, and by which invariants
- [Not modelled](#not-modelled), [Plan](#plan)

Run from this directory:

    tlc -workers 2 -config MCOperator.cfg MCOperator
    tlapm OperatorProofs.tla

## The system

| part | code | state | operations |
|---|---|---|---|
| api | `services/api` | rows of a call: `sessions`, `transcript_messages`, `cost_ledger`, `session_events`, `outbox` | start a session; internal reports started, transcript, actions, cost, ended; a viewer's clicks and feedback |
| client api | `deps.py`, `security.py`, `routers/client.py`, `pagination.py` | an in-process cache of API keys; cursors that the caller keeps | authenticate a key, page through the list of sessions |
| agent worker | `services/session-agent`, `worker.py`, `clients.py` | one job per call: where `entrypoint` is, `end_reason`, the transcript buffer, usage, the HTTP clients | load the context, start the screen and the voice, report, end, `finalize` |
| brain | `brain.py` | the message history, the tool calls of a turn, notes, usage not yet reported | `respond`, one generator per turn; `_run_tool`; `note` |
| pacing, pointing | `pacing.py`, `pointer.py` | the viewer's state, when they last pointed | a wrap-up note, a nudge for a quiet viewer, "what is this?" |
| operator | `services/operator`, `app.py` | the table of sandboxes, the count of starts under way, the reaper | start, run a tool, element-at, stop, reap |
| sandbox | `sandbox.py`, `policy.py` | a browser page, the elements of the last snapshot, a lock | `execute` of an operate tool: gate, act, settle, snapshot; `element_at` |
| streamer | `streamer.py` | the newest frame, the event that wakes the pump, the last frame sent | start, stop, take a frame, pump, keepalive, acknowledge |
| player | `apps/web`, `session.ts`, `transcript.ts` | a snapshot of the call, timers, the open confirm request, the lines of the transcript | connect, follow the agent, ask the viewer, fold text streams into lines, chat, end, dispose |
| protocol | `packages/protocol` | none | message and tool schemas |

How they interact:

- The player creates a session at the **api** (HTTP) and joins a LiveKit room.
  The room's configuration makes LiveKit dispatch a job to a **worker**.
- The worker reads the session from the api, asks the **operator** for a sandbox
  (HTTP), and reports to the api by HTTP posts that may fail, time out after
  they arrived, or arrive after the worker gave them up.
- The **brain** is a generator that the voice layer cancels whenever the viewer
  interrupts. It calls the operator by HTTP and the player by an RPC in the room
  (the confirm request), and sends events to the player on the data channel.
- The operator's **sandbox** streams into the same room, through its **streamer**:
  Chrome sends a frame per repaint, the viewer sees what is captured while they
  are subscribed. The page belongs to the product and changes by itself.
- The **player** hears of participants, data, RPCs and the room's end as events
  of one JavaScript loop, and of nothing if the agent just disappears. What was
  said comes as text streams, whose order and segment ids the voice layer chooses.
- The player reports clicks and feedback to the **api** by HTTP; a customer's
  backend reads sessions there, several requests at a time under one key.

What is hard here, and what has to be right:

| part | hard behaviour | properties |
|---|---|---|
| operator | starts overlap for seconds; every await may fail; the client may be gone; the reaper works on a copy of the table | capacity held, counter exact, no browser without owner, only overdue sandboxes reaped, requests settle, abandoned sandboxes are closed |
| brain | cancellation at every await and yield, hooks that raise, tool rounds that run out | the history stays acceptable, a closed turn has spoken, no request after the end, turns end |
| pacing, pointing | a timer, a silence and a click during a turn that may be cut; a queue of three notes | a note is kept until told or pushed out, and told by any turn that is asked for |
| sandbox and confirm protocol | interruption while the operator acts; superseded, late and timed out approvals; a page that changes between snapshot, gate, approval and click | act at most once, and with consent; what is known as blocked is left alone; calls settle; dialogs close |
| session record | late, lost and repeated reports, crashes, a second job, shutdown at any await | lifecycle and announcements, no lost line, no double billing, the job ends |
| viewer reports | requests that overlap at every statement of their transactions, any of which may fail; caps counted in one statement and used in another | the record and its announcements are those of one report after the other; all get answered |
| client api | a key revoked between lookup and cache; sessions committed in another order than they were begun, between two pages | revocation takes effect in time; a walk misses and repeats nothing |
| streamer | frames that come faster than they may be sent, a keepalive between the awaits of the pump, subscribers who come after the last repaint, a page that stops painting | the track never goes back; the last paint is shown |
| captions | streams of both sides interleave, under segment ids that outlive a turn, from an agent not yet announced, broken off by a leaver | what was said before an answer stays above it |
| player | the end of a call from five sources, reconnects, timers, requests that supersede one another | one request, none after the end, an end is final, no endless wait |

`PROJECT.json` lists every hazard at its line, with the properties that would
catch it.

## Modules

An action is what the code does between two awaits: each service is one event
loop. Names follow the source.

### Operator (`Operator.tla`)

`app.py` of the operator and the `start`, `run` and `stop` of the agent's
`OperatorClient`. A sandbox is named by the request that asks for it, so `Sbx` is
the set of requests and of what they may become.

- `sandboxes`, `starting`: the table and the counter of `create_app`.
- `req`: where the handler of `POST /v1/sandboxes` is; `browser`: the browser it
  launched; `closers`: the tasks that await its close (a DELETE, the reaper, the
  failed start).
- `reaper`, `scan`: the reaper's task and the rest of the copied list it walks.
- `idle`, `old`: the clock, as the sets of sandboxes past each limit. `Use` takes
  a sandbox out of `idle`, as `last_used` does.
- `client`, `tries`: what the agent knows, and its retries of a 503.

`StartAdmit` is the check and the increment, one step since nothing is awaited
between them. `LaunchFailed`, `StartFailed` and `Registered` are the ways out of
the `try`, each with the decrement of the `finally`. `ReaperReaps` judges an
entry when its turn comes. With `UnguardedRaises`, what the code does not guard may
raise. A close: the reaper's task then ends, and a close whose stream raised leaves
the browser running. The set-up of the stream, between the launch and the inner
`try` (`OpeningRaises`): the handler ends, and nobody closes the browser.

### Brain (`Brain.tla`)

One conversation. `pc` is the await or yield a turn is at, `calls` and `answered`
the tool calls of the last answer and how many have results, `messages` the
history, where a message is its role, the ids it uses and the ids it answers.
`StreamCut` and `ToolsCut` are the two `except` clauses for a cancellation;
`HookRaises` is an exception that neither clause catches, which is recorded in
`faulted`. `AnyStop` lets the model stop for a reason the code does not list.
That the API accepts a history (`Accepted`) is external: each message with tool
uses is followed by one with exactly their results.

### Pacing (`Pacing.tla`)

What makes the brain take a turn, over `Brain`: the viewer's words, the platform
(`pacing.py`) and a click on the screen (`pointer.py`), with the wiring of
`entrypoint`. Notes are numbered as they are written: `notes` is the queue, `said`
those in the history. `replies` are the turns asked of the voice session, with
the viewer's words or without; `TurnBegins` and `TurnEmpty` are the two ways out
of the head of `respond`. `TurnSteps` is the rest of a turn, any action of `Brain`.
A click has two steps, the note and, after the interrupt, the question (`Asks`),
which may find that the interrupt threw away the turns asked for before it.
`AgentIdle` is any value between turns: the voice session may still be playing.

### Screen and Consent (`Screen.tla`, `Consent.tla`)

`Consent` is the abstract promise: per call, an action that needs approval
happens only after this call was approved, an action happens at most once, and a
call that ended without acting never acts. `Screen` is the protocol that keeps
it: the sandbox behind its lock (`Begins`, `Refused`, `Looks`, `GateBlocks`,
`GateAsks`, `GatePasses`, `Ungated`, `Acts`, `Settles`, `Fails`), the policy
(`Classify`), the brain's side of a call (`BrainCalls`, `Abandon`,
`AnswerArrives`, `RpcFails`) and the dialog (`DialogOpens`, `PlayerNotLive`,
`ViewerAnswers`, `DialogTimesOut`).

An element is a node with an accessible name. Playwright gives a node a new ref
once its name has changed, so a ref is the pair of both, and `elements` is the
name of each node in the last snapshot. `Abandon` is the interruption: the brain
goes on, the operator finishes what it began. The call's record holds what the
dialog showed (`shown`) and what the operator let through (`seen`), so that
properties can compare them. Patterns are sets of names. `Point` stands for
`element_at`, which takes a snapshot in between.

### Session and Lifecycle (`Session.tla`, `Lifecycle.tla`)

`Lifecycle` is the abstract record of a session: created, live, ended or failed,
with one outbox row per change. `Session` is a job of the worker (`entrypoint`,
`finalize`, `Transcript`, `cost_ticker`), the requests by which it reports, and
the api's transactions.

- `net` holds the requests that may still arrive, `replies` the answers that may
  still be read. `GivenUp` leaves the request in `net`: a timeout says nothing
  about the server.
- `FinalizeBegins` may come at any await of `entrypoint` after the callback is
  registered, since LiveKit decides when to shut a job down. `Crash` may come at
  any time; `Dispatch` may then begin another job with a blank state.
- `finalize` waits for its reports and for `operator.stop()` (`StopEnds`), in the order
  the network chooses; nothing depends on when the operator answers, so it is taken
  for the last to do so.
- Lines are their seq, and usage is counted. `stored` remembers which job's line
  a row is, as the second job numbers its lines from 0 again; `Taken` are the numbers
  an earlier job has used, whose lines `ON CONFLICT DO NOTHING` drops. `said` counts
  the lines of all jobs, for their bound.

### Player (`Player.tla`)

`DemoSession` of `session.ts`: `start()` and its awaits (`step`), the room as the
page sees it (`room`, `known`), `agentIdentity`, the timers (`joinTimer`,
`grace`), and the confirm request (`open`, `resolver`, `confirm`). Absences of
the agent are numbered, so that the timers of `onParticipantLeft` can be told
apart. What arrives before `connect()` resolves is handled before it resolves.

### Captions (`Captions.tla`)

The transcript of the call, over `Player`: `onTranscription`, `speakerOf`,
`sendChat` (`session.ts`) and `upsertLine` (`transcript.ts`). `streams` are the
text streams in their order of arrival: `waiting` for the agent to be announced
(`AgentAnnounced`, or `WaitEnds` after 3 s), `reading`, `done`. `lines` is
`snap.lines`, with a line's id as its segment and its turn in the segment.

- `Upsert` is the case distinction of `upsertLine` over the last line of the segment
  (`LastLine`): `Answered` is its scan for the other side below, `Updated` the line made
  longer or final, `Turn` a line that is new.
- A text is known by its utterance. `continues` compares words: texts of one
  utterance continue each other, those of two do not.
- The viewer's streams come one after the other, under one segment id until one
  of them is final, as the voice layer publishes them (external).
- The steps of `Player` are `CallGoesOn`; `ViewGoes` is `dispose`, and takes the
  lines along.

### Streamer and Picture (`Streamer.tla`, `Picture.tla`)

`Picture` promises that the track shows paints of the page and never goes back.
`Streamer` is `ScreenStreamer`: `OnFrame` (`_on_frame`), `Ack`, the pump
(`PumpWakes`, `PumpSlept`, `Decoded`, `DecodeRaises`, `CaptureRaises`), `Resends`
(`_resend_last`), and `start` and `stop` with their awaits (`life`). A frame is the number of the
paint it shows. `since` is the time since the last send, against `1/MAX_FPS` and
the 2 s of the keepalive. Chrome (external) sends a frame of the page as it is
while fewer than `MaxUnacked` wait for their acknowledgement.

### Reports and ViewerRecord (`Reports.tla`, `ViewerRecord.tla`)

`ViewerRecord` is the promise: clicks up to a cap, changes of the feedback up to
another, each recorded and announced in one step. `Reports` is `report_event`, one
request per member of `Req`, statement by statement: `Locks` is `SELECT ... FOR
UPDATE` with the checks on the row, `Reads` the count or the stored feedback,
`Commits` the two inserts, `Aborts` a statement that fails. `lock` is Postgres' row
lock. Read committed is modelled as it is: what a statement sees is what others
committed before it.

### Client (`Client.tla`)

Callers with one API key (`get_principal`, `KeyCache`) that page through
`list_sessions`. `cached` is the entry's expiry; between the lookup (`LooksUp`) and
`cache.put` (`Puts`) lie awaits, for a time of at most `Window`. That is an assumption
about the database: no timeout of `deps.py` or `db.py` bounds them. A row bears the
time its transaction began (`Creates`) and is visible once it is committed
(`CreateCommits`). `Lists` is one page: rows after the cursor, newest first (`Ordered`), one
more than the limit to tell whether there is a next page. The filters of the query
are left out: a session whose `started_at` is set between two pages may move into
or out of what a filter selects, as the caller asked for.

### Other modules

`MC*.tla` instantiate a module for TLC, with the model values of its `.cfg`.
`*Proofs.tla` extend a module with its theorems; `BrainProofs` has those of `Pacing` too,
`PlayerProofs` those of `Captions`. A definition called `...Mutant`
is a plausible wrong version of the definition that follows it; no behaviour
specification uses it, and `PROJECT.json` says which property it would break.

## Runs

| run | module, cfg | bounds | checks |
|---|---|---|---|
| opSafe | `MCOperator` | 3 requests, 2 places, 1 retry, unguarded steps may raise | `TypeOK`, `CapacityHeld`, `StartingCounted`, `OnlyOverdueReaped` |
| opLive | `MCOperatorLive` | 3 requests, 1 place, 1 retry, unguarded steps return | `NoOrphanBrowser`, `StartSettles`, `AbandonedIsClosed` |
| brain | `MCBrain` | 2 turns, 2 rounds, 2 calls an answer, any stop reason | `TypeOK`, `HistoryRepaired`, `ClosedTurnSpeaks`, `NoRequestAfterEnd`, `TurnEnds` |
| pacing | `MCPacing` | 2 turns, 1 round, 1 call an answer, 2 pointer calls | `PacedTypeOK`, `NoteKept`, `NotesTold` |
| screen | `MCScreen` | 2 calls, 1 node, 2 names, 1 change of the page, 7 kinds of tools | `TypeOK`, `KnownBlockedStays`, `KeepsPromise`, `CallsSettle`, `DialogsClose` |
| session | `MCSession` | 2 jobs, 2 lines over both, 1 unit of usage | `TypeOK`, `NoLineLost`, `NeverOverbilled`, `KeepsLifecycle`, `JobEnds` |
| player | `MCPlayer` | 2 absences, 2 confirm requests | `TypeOK`, `OneRequest`, `NothingAskedAfterEnd`, `EndIsFinal`, `NoEndlessWait` |
| captions | `MCCaptions` | 1 absence, 3 streams, 2 lines | `TurnsStand` |
| streamer | `MCStreamer` | 4 paints, 2 frames unacknowledged, 2 subscriptions | `TypeOK`, `KeepsPicture`, `LastPaintShown` |
| reports | `MCReports` | 4 requests, 2 clicks, 1 edit, 2 answers | `TypeOK`, `KeepsRecord`, `ReportsEnd` |
| client | `MCClient` | 2 callers, 3 sessions, pages of 1, key cached for 1, lookups of at most 1, time up to 4 | `TypeOK`, `WalkComplete`, `RevocationHolds` |
| opReaper | `MCOperatorReaper` | small | `OverdueIsReaped`, violated: next section |

Why these bounds are enough to be of interest:

- *Operator.* Three requests at two places give a refusal next to two starts, and
  a reaper that walks a list whose other entry is deleted or used meanwhile.
  With one place, two retry against one that holds or leaks it.
- *Brain.* Two calls in an answer give every mix of answered and open calls at a
  cut; two rounds give a round after tools and the exhausted rounds; a second
  turn meets the history of a cut first one.
- *Pacing.* A nudge, the wrap-up and two pointer calls are four notes, one more than
  the queue holds; two asked turns give one that finds its notes taken.
- *Screen.* The second call meets what an interrupted first one left: the lock,
  an open dialog, an answer under way. The name `pay` matches the patterns of
  all three lists, `save` only those of confirm. One change of the page and a
  snapshot for the pointer at any time are what it takes to make a ref stale, or to
  know its element by a new name while a call waits for its approval.
- *Session.* Two jobs let a late request of the first arrive in the second, and
  with it every order of started and ended. Two lines, each of any job, give two
  flushes in flight at a time, which fail, return and reach the api in any order,
  and a line of the second job whose number is taken. A unit of usage whose report is lost, late or
  reported again by `finalize` is the least that could be billed twice. That no
  line is lost and no usage billed twice is proved for any number.
- *Player.* A second absence meets the timer of the first, a second request the
  first one's dialog.
- *Captions.* Three streams are the viewer's words, the agent's answer, and more
  words under the viewer's first segment id; with two lines the first of them falls
  off. Confirm requests have no part in the transcript and are left out. The
  absence lets a stream wait, or break.
- *Streamer.* Four paints fill every place a frame can be in (shown, decoded,
  waiting, on its way) with a different one. The second subscription comes after
  the first has seen the last paint.
- *Reports.* Four requests overlap with at most two clicks and one edit, so each cap
  is met by requests that wait for the row together; of two answers either is
  given again or changed.
- *Client.* Three sessions are the least in which one is committed between two pages
  and another has the same time. Two callers refresh and use each other's entry;
  the clock runs past a revocation, the lookup before it and its entry's end.
  The callers are symmetric, and the run has no liveness property.

Fairness, by module, and what justifies it:

- *Operator*: handlers and closes return (every Playwright call has a timeout), a
  503 is retried and a silent answer times out in the client, the reaper wakes
  every 15 s, and time passes. The client is not fair otherwise: it may vanish.
- *Brain*: each await of a turn ends, by the timeouts of the model client, of the
  operator client and of the confirm RPC. Publishing an event or an attribute
  (`action_started`, `HookDone`) has no timeout in this code: that it returns or raises
  is assumed of LiveKit's client. Cancellation is never fair.
- *Pacing*: in addition, turns that were asked for are run, an interrupt and the
  timer end, and a viewer stops speaking. A viewer who does not speak is away
  after a while, also one who made noises before (strong fairness).
- *Screen*: the operator goes on with a call it has begun and the lock is first
  come first served; the RPC and the dialog have timers. Neither the viewer nor
  the network owe an answer.
- *Session*: the awaits of `entrypoint`, of flushes and of `finalize` end by the
  clients' timeouts (the operator's too, for `StopEnds`) and `max_duration`, and LiveKit shuts down a job whose
  `entrypoint` is over. Delivery is not fair: a request may never arrive.
- *Player*: `connect()` settles and timers fire. Nothing else is owed.
- *Streamer*: Chrome casts while it may, frames arrive, the tasks of the loop and the
  decoding thread run, and time passes. Nobody owes a start, a stop or a repaint.
- *Reports*: a statement returns or fails, and the row's lock goes to one of those who
  wait for it. No request has to be sent.
- *Captions* and *Client* have safety properties only.

`CHECK_DEADLOCK FALSE` is set everywhere: calls, turns and jobs are bounded, and
a call that is over is over.

## Where code and comments disagree

| run | what the repository says | what the code does |
|---|---|---|
| opReaper | "Idle or over-age sandboxes are reaped." (`app.py:9`) | a close that raises ends the reaper's task for good (`app.py:97`) |

The others are behaviours of the models, each in the module named, and no property
is stated that forbids them:

- "Every tool_use needs a tool_result or the next request is rejected."
  (`brain.py:255`): only a cancellation is repaired; a hook that raises leaves the
  use open (`brain.py:254`; `HookRaises` in `Brain`).
- "Time is running out: the agent is told to wrap up before the session limit, so
  the call ends with a recap and a call to action instead of the worker's fixed
  goodbye." (`pacing.py:4`): a timer that fires while the agent is busy only queues
  the note (`pacing.py:58`); with a viewer who is away and stays so, no turn takes it
  (`Pacing`).
- "How long the agent may be missing (a reconnect) before the call counts as over."
  (`session.ts:140`): timers of absences that are over still run, and end the call
  early in a later one (`session.ts:409`; `GraceEnds` in `Player`).
- "Every operate_* call on an element is classified before it runs" (`policy.py:3`):
  `operate_select` is not gated (`sandbox.py:455`; `Ungated` in `Screen`).
- "blocked: never executed" (`policy.py:6`): what is judged is the name in the last
  snapshot, or of what has the focus. Between the gate and the act the page may
  rename the element, while the mouse glides to it (`sandbox.py:438-441`), or move the
  focus (`sandbox.py:369-379`), to what a blocked pattern matches (`PageChanges` before
  `Acts` in `Screen`). `KnownBlockedStays` says what does hold: the sandbox never acts on
  a ref whose element its own last snapshot knows by a blocked name.
- "or a key press while a button is focused: the cases that can change or send data"
  (`policy.py:55`): of the keys that activate a button only Enter counts
  (`sandbox.py:376`); Space on a focused button is checked for blocked names and not
  for confirmation (`Submits` in `Screen`, tool `space`).
- "confirm: executed only after the viewer approves on screen" (`policy.py:7`):
  `operate_press`, run again after an approval, acts on what has the focus by then
  (`sandbox.py:369`; `Focused` in `Screen`).
- "Revocation therefore takes effect within `api_key_cache_ttl_s`" (`security.py:5`):
  counted from the revocation, a lookup just before it puts its entry into the cache
  later by the length of the awaits between (`deps.py`). `RevocationHolds` in
  `Client` is stated with that window.

Of the captions, two behaviours that nothing in the repository speaks of: the words of
an agent who is not announced yet wait for the announcement, so they may land
below later words of the viewer; and they are dropped if it takes longer than
`ANNOUNCE_WAIT_MS`, also while `connect()` itself still runs.

The other properties are stated next to these exceptions and say so:
`KnownBlockedStays` is about gated calls on a ref, `HistoryRepaired` about turns without
a fault, `NoLineLost` about lines whose number no earlier job has used, `EndIsFinal` about the time after `connect()` resolved (`start()` sets the
phase to live again whatever was handled before, `session.ts:263`), and
`NoOrphanBrowser` about a service whose closes and stream set-ups do not raise.
`DialogsClose` says that the player's own timer ends a dialog nobody answers or waits for;
that an approval which comes too late does nothing is `KeepsPromise`.

## Proofs

Every theorem below holds for every value of the constants that satisfies the
module's `ASSUME`: finiteness of the set of requests, natural bounds, patterns
that are sets of names. TLC evaluates the assumptions in every run.

| module | theorem | says |
|---|---|---|
| `OperatorProofs` | `TypeCorrect`, `CapacityCorrect`, `CounterCorrect`, `NoOrphan`, `OverdueOnly` | `Spec => []TypeOK`, `[]CapacityHeld`, `[]StartingCounted`; `[]NoOrphanBrowser` if unguarded steps do not raise; `OnlyOverdueReaped` |
| `BrainProofs` | `TypeCorrect`, `HistoryCorrect`, `ClosedCorrect`, `EndAsksNothing` | `[]TypeOK`, `[]HistoryRepaired`, `[]ClosedTurnSpeaks`, `NoRequestAfterEnd` |
| | `PacedTypeCorrect`, `NotesKept`, `ImplementsBrain`, `PacedHistoryCorrect` | `[]PacedTypeOK`, `[]NoteKept`; `Pacing` implements `Brain`, hence `[]HistoryRepaired` |
| `ScreenProofs` | `TypeCorrect`, `BlockedCorrect`, `ImplementsConsent` | `[]TypeOK`, `KnownBlockedStays`; `Screen` implements `Consent` |
| `SessionProofs` | `TypeCorrect`, `LinesKept`, `ImplementsLifecycle`, `BilledOnce` | `[]TypeOK`, `[]NoLineLost`; `Session` implements `Lifecycle`; `[]NeverOverbilled` |
| `PlayerProofs` | `TypeCorrect`, `OneRequestOpen`, `EndAnswers`, `EndStays` | `[]TypeOK`, `[]OneRequest`, `[]NothingAskedAfterEnd`, `EndIsFinal` |
| | `ImplementsPlayer`, `CallWithCaptions`, `CaptionsInvariance`, `TurnsCorrect` | `Captions` implements `Player`, with the properties above; `TurnsStand` |
| `StreamerProofs` | `TypeCorrect`, `ImplementsPicture` | `[]TypeOK`; `Streamer` implements `Picture` |
| `ReportsProofs` | `TypeCorrect`, `ImplementsViewerRecord` | `[]TypeOK`; `Reports` implements `ViewerRecord` |
| `ClientProofs` | `TypeCorrect`, `RevocationCorrect`, `WalkCorrect` | `[]TypeOK`, `RevocationHolds`, `[]WalkComplete` |

With these, every safety property that a run checks is proved: the invariants, the
action properties and the refinements.

The inductive invariant is called `IInv` where a module has one (`CaptionIInv` for
`Captions`; `Session` adds `Billing`, `Client` has `Base`, `Granted` and `Walks`). Each
proof has the facts `Init => IInv` and `IInv /\ [Next]_vars => IInv'`, the latter with a
step per action, and PTL combines them.

- *Operator.* `CapacityHeld` alone is not inductive: a failed start would decrement
  a counter that no start contributed to. The strengthening adds that `starting`
  is the number of handlers in the `try`, and where a request may stand relative
  to the table and its closers. `OnlyOverdueReaped` needs of the copied list that what
  the reaper will find overdue in it is so still, or has left the table, and that
  nothing in it is registered a second time.
- *Brain.* That the history is acceptable after a cut needs to know, at each
  await, that the last message uses exactly the ids of `calls` and that all before
  it are answered. A turn that faulted is exempt, as in the property.
- *Pacing.* Every step is one of `Brain` or leaves its variables alone, so what is
  proved of `Brain` carries over. `NoteKept` is inductive with the bound of the
  queue: a note that falls out is older than three.
- *Screen.* The refinement needs the relation of a call's phase, its verdict and
  its history: who holds the lock has not acted yet or settles, `confirmed` is only
  set where the verdict is approved, and what was let through as `confirm` was
  confirmed. The abstract state is a function of the call's record (`Consenting`).
  `KnownBlockedStays` rests on an invariant of its own (`KnownInv`): what the gate let
  through stays unblocked in `elements` until the call acts, since every snapshot, also
  that of the pointer, waits for the lock the call holds (`SnapshotsWait`).
- *Session.* `/ended` takes a session from created to ended, which `Lifecycle`
  forbids. It implements `Lifecycle` all the same, because a report of another
  reason than an error can only come from a job that had the reply to its
  started: the invariant says so of every request in `net`, of every job, and of
  the reason the running job holds.
  `NoLineLost` needs two invariants: each line is buffered, in flight or its number is in
  the table (`Kept`), and a row or a request of a job is of one that has been
  dispatched (`Numbered`), so that a row of another job is an earlier one's.
  The ledger is a sum, and what matters is which units it stands for. `Billing` claims that
  there is a set of units (`Ledger`), as many as are billed, none of them in a request
  that may still arrive and none unreported; each request stands for the units
  `upto - qty + 1` to `upto` (`Units`), and no two for the same. So a request that arrives adds
  units that are new, and the sum never exceeds what was used; no sum over the requests
  in flight is needed.
- *Client.* An entry of the cache goes back to a lookup that was made before the revocation
  and within `Window` (`Granted`). A walk has, in order, every row it expected that is
  not older than its cursor, and rows that are committed keep their places (`Walks`). `Ordered`
  chooses the rows in order, so the proof shows that such an order exists
  (`OrderExists`): else there were a smallest set without one, whose oldest row
  could be put at the end of an order of the others.
- *Player.* `OneRequest` and `NothingAskedAfterEnd` need each other: the end of a
  call declines only the request of the resolver.
- *Captions.* A finished line at the end of its segment may be updated by the code, and an
  answer may stand below it, so its words stand only if no stream brings it others. `Finished`
  says why none does: one stream of the segment was final, which ends the viewer's segment
  id, or was the agent's or a chat message, which have ids of their own, or the
  viewer heard has left the room. `StreamsInv` adds that of a segment's streams at most one goes
  on, `TurnOrder` that turns are below each other, so that a line is found again when
  others fall off the top. `UpsertFolds` says once what `upsertLine` does to the lines;
  the rest of the proof uses only that (`Folded`).
- *Streamer.* Frames keep their order: the last frame kept for the keepalive is older
  than what is decoded, that is older than what waits, and that than what is on its
  way; and it is not older than what is shown, or the keepalive could go back.
- *Reports.* A request between the checks and its end owns the row, so what it read is
  still what is stored, there was room for it and it was news. That makes its one
  committing step a step of `ViewerRecord`, and every other a stutter.

Only model-checked:

- all liveness (`StartSettles`, `AbandonedIsClosed`, `TurnEnds`, `NotesTold`,
  `CallsSettle`, `DialogsClose`, `JobEnds`, `NoEndlessWait`, `LastPaintShown`,
  `ReportsEnd`), since TLAPS does not handle fairness and ENABLED here.

Induction over data is avoided rather than used: where a set of numbers or of
rows has a last element, or an order, the proof takes the least counterexample
(`LeastNatural`, from the well-foundedness of the naturals). That is how
`SelectLastInSeq` is known to find the last line of a segment (`LastLineIs`). The operators of
TLC that sort (`SetToSortSeq`) are beyond the provers, so `Client` states what order its
page has instead of sorting it.

## Not modelled

- The operator's shutdown (`lifespan`): it ends the process and with it every action, and
  the browsers end with Playwright's driver whether or not their closes return.
- `POST /actions`: one transaction that inserts, sent once and not retried; what is lost
  is lost, by intent. `GET /context`, single reads, context links, demos: one statement
  or one insert each, with nothing kept between requests.
- The sandbox's route guard and popups, overlays, mouse movement, and the parsing
  of snapshots: they keep no protocol state, except that a popup navigates.
- `publish_overlay`; tracks, overlays, calls to action and pointing in the player; the
  rendering of its components.
- Publishing of events and attributes, beyond where it can raise in a turn.
- Hashing, receipts, tokens, row level security, migrations, prompts, pricing,
  settings: stateless, or run once under a lock.
- `streamer.start` that raises leaves the room to the process, as the operator closes
  only the browser then; `Streamer` ends there.
- LiveKit, Playwright, Chromium, the model API and Postgres are external: they are
  modelled by how this code uses them.

## Plan

Done, in this order: (1) `Operator`, (2) `Brain`, (3) `Screen` over `Consent`,
(4) `Session` over `Lifecycle`, (5) `Player`, (6) `Pacing` over `Brain`,
(7) `Reports` over `ViewerRecord`, (8) `Client`, (9) `Streamer` over `Picture` and
`Captions` over `Player`; each with its runs and its proofs.

To come, where it is worth it:

10. Overlays and calls to action in the player: an event that arrives before the
    picture it was drawn for.
11. The player's reports over `Reports`: a click whose request outlives the page.
