-------------------------------- MODULE Player --------------------------------
(***************************************************************************)
(* The player's side of a call (apps/web, session.ts): DemoSession, driven *)
(* by the LiveKit room (external), by timers and by the viewer.  The page  *)
(* is one JavaScript event loop: an action is what runs between two awaits *)
(* or in one event handler.                                                *)
(*                                                                         *)
(* The room tells of an agent that comes and goes: by itself, or because   *)
(* the viewer's connection is re-established, which announces everyone as  *)
(* gone and then as joined again.  What arrives before connect() resolves  *)
(* is handled before it resolves.  Absences of the agent are numbered.     *)
(***************************************************************************)
EXTENDS Naturals

CONSTANTS
    MaxAbsences,    \* bound: times the agent is announced as gone
    MaxRequests     \* bound: confirm requests of the agent

ASSUME PlayerAssumption == MaxAbsences \in Nat /\ MaxRequests \in Nat

VARIABLES
    phase,          \* snap.phase
    step,           \* where start() is
    room,           \* whether room.connect() is pending, done, or undone
    known,          \* whether room.remoteParticipants has the agent
    agentIdentity,  \* whether it is set
    absences,       \* times the agent was announced as gone
    grace,          \* running timers of onParticipantLeft, by absence
    joinTimer,      \* whether the timer of start() runs
    asked,          \* confirm requests so far
    open,           \* requests whose promise is not resolved; each has a timer
    resolver,       \* the request that confirmResolver settles, 0 for null
    confirm,        \* the request snap.confirm shows, 0 for null
    disposed,
    endReason       \* snap.endReason, of interest: why the call ended

callVars == <<phase, endReason>>
confirmVars == <<open, resolver, confirm>>
roomVars == <<room, known, absences>>
timerVars == <<grace, joinTimer>>
vars == <<callVars, confirmVars, roomVars, timerVars, step, agentIdentity,
          asked, disposed>>

Final == {"ended", "failed"}

TypeOK ==
    /\ phase \in {"connecting", "waiting_agent", "live"} \cup Final
    /\ step \in {"connect", "audio", "mic", "returned"}
    /\ room \in {"connecting", "aborted", "joined", "left"}
    /\ known \in BOOLEAN
    /\ agentIdentity \in BOOLEAN
    /\ absences \in 0..MaxAbsences
    /\ grace \in SUBSET (1..MaxAbsences)
    /\ joinTimer \in BOOLEAN
    /\ asked \in 0..MaxRequests
    /\ open \in SUBSET (1..MaxRequests)
    /\ resolver \in 0..MaxRequests
    /\ confirm \in 0..MaxRequests
    /\ disposed \in BOOLEAN
    /\ endReason \in {"none", "agent_left", "status", "closed", "viewer_ended"}

\* start() has been called and awaits room.connect().
Init ==
    /\ phase = "connecting"
    /\ step = "connect"
    /\ room = "connecting"
    /\ known = FALSE
    /\ agentIdentity = FALSE
    /\ absences = 0
    /\ grace = {}
    /\ joinTimer = FALSE
    /\ asked = 0
    /\ open = {}
    /\ resolver = 0
    /\ confirm = 0
    /\ disposed = FALSE
    /\ endReason = "none"

-----------------------------------------------------------------------------
(* Helpers of DemoSession.  After dispose(), set() does nothing. *)

\* confirmResolver?.(false): the request it stands for is declined.
DeclineOpen ==
    /\ open' = open \ {resolver}
    /\ confirm' = IF ~disposed /\ confirm = resolver THEN 0 ELSE confirm
    /\ resolver' = 0

\* Mutant: the request on screen is left to its timer.
FinishMutant(why) ==
    /\ IF disposed \/ phase \in Final
       THEN UNCHANGED callVars
       ELSE phase' = "ended" /\ endReason' = why
    /\ UNCHANGED confirmVars

\* Mutant: the last event decides why the call ended.
FinishAgainMutant(why) ==
    /\ DeclineOpen
    /\ IF disposed
       THEN UNCHANGED callVars
       ELSE phase' = "ended" /\ endReason' = why

\* finish(): a call that is over stays as it is.
Finish(why) ==
    IF phase \in Final
    THEN UNCHANGED <<callVars, confirmVars>>
    ELSE /\ DeclineOpen
         /\ IF disposed
            THEN UNCHANGED callVars
            ELSE phase' = "ended" /\ endReason' = why

\* Mutant: the error becomes the phase.
FailMutant ==
    IF phase \in Final
    THEN UNCHANGED <<callVars, confirmVars>>
    ELSE /\ DeclineOpen
         /\ phase' = IF disposed THEN phase ELSE "error"
         /\ UNCHANGED endReason

\* fail(): the same for a call that did not come up.
Fail ==
    IF phase \in Final
    THEN UNCHANGED <<callVars, confirmVars>>
    ELSE /\ DeclineOpen
         /\ phase' = IF disposed THEN phase ELSE "failed"
         /\ UNCHANGED endReason

\* onParticipant for the agent: the first one is adopted and makes the call live.
OnAgent ==
    /\ agentIdentity' = TRUE
    /\ phase' = IF ~disposed /\ ~agentIdentity /\ phase = "waiting_agent"
                THEN "live" ELSE phase
    /\ UNCHANGED endReason

-----------------------------------------------------------------------------
(* start(). *)

\* connect() resolved: take up an agent that is there, or wait for one.
ConnectReturns ==
    /\ step = "connect"
    /\ room = "connecting"
    /\ room' = "joined"
    /\ step' = "audio"
    /\ agentIdentity' = (agentIdentity \/ known)
    /\ joinTimer' = ~agentIdentity'
    /\ phase' = IF disposed THEN phase
                ELSE IF agentIdentity' THEN "live" ELSE "waiting_agent"
    /\ UNCHANGED <<endReason, confirmVars, known, absences, grace, asked,
                   disposed>>

\* connect() rejected: by itself, or because the viewer left.
ConnectFails ==
    /\ step = "connect"
    /\ room \in {"connecting", "aborted"}
    /\ room' = "left"
    /\ known' = FALSE
    /\ step' = "returned"
    /\ Fail
    /\ UNCHANGED <<absences, timerVars, agentIdentity, asked, disposed>>

\* startAudio, then setMic; neither looks at whether the call goes on.
StartGoesOn ==
    /\ \/ step = "audio" /\ step' = "mic"
       \/ step = "mic" /\ step' = "returned"
    /\ UNCHANGED <<callVars, confirmVars, roomVars, timerVars, agentIdentity,
                   asked, disposed>>

\* agentJoinTimeoutMs are over.
JoinTimesOut ==
    /\ joinTimer
    /\ joinTimer' = FALSE
    /\ IF ~agentIdentity /\ phase = "waiting_agent"
       THEN Fail /\ room' = "left" /\ known' = FALSE
       ELSE UNCHANGED <<callVars, confirmVars, room, known>>
    /\ UNCHANGED <<absences, grace, step, agentIdentity, asked, disposed>>

-----------------------------------------------------------------------------
(* Room events. *)

\* Whether the page still listens to the room.
Listening == ~disposed /\ room \in {"connecting", "joined"}

\* The agent joins.  While connecting, the room may know it before it announces it.
AgentJoins ==
    /\ Listening
    /\ ~known
    /\ known' = TRUE
    /\ \/ OnAgent
       \/ room = "connecting" /\ UNCHANGED <<callVars, agentIdentity>>
    /\ UNCHANGED <<confirmVars, room, absences, timerVars, step, asked, disposed>>

\* Mutant: only session.status and the room's end count.
AgentLeavesMutant ==
    /\ Listening
    /\ known
    /\ absences < MaxAbsences
    /\ known' = FALSE
    /\ absences' = absences + 1
    /\ UNCHANGED <<callVars, confirmVars, room, timerVars, step,
                   agentIdentity, asked, disposed>>

\* onParticipantLeft: wait before the call counts as over.
AgentLeaves ==
    /\ Listening
    /\ known
    /\ absences < MaxAbsences
    /\ known' = FALSE
    /\ absences' = absences + 1
    /\ grace' = IF agentIdentity THEN grace \cup {absences'} ELSE grace
    /\ UNCHANGED <<callVars, confirmVars, room, joinTimer, step,
                   agentIdentity, asked, disposed>>

\* A timer of onParticipantLeft fires; they all take AGENT_GONE_GRACE_MS.
GraceEnds(k) ==
    /\ k \in grace
    /\ \A n \in grace : k <= n
    /\ grace' = grace \ {k}
    /\ IF agentIdentity /\ ~known
       THEN Finish("agent_left")
       ELSE UNCHANGED <<callVars, confirmVars>>
    /\ UNCHANGED <<roomVars, joinTimer, step, agentIdentity, asked, disposed>>

\* Data or a transcription of the agent: adopt it if it was not announced yet.
AgentSpeaks ==
    /\ Listening
    /\ known
    /\ OnAgent
    /\ UNCHANGED <<confirmVars, roomVars, timerVars, step, asked, disposed>>

\* session.status: the agent ended the call.
AgentEnds ==
    /\ Listening
    /\ known
    /\ agentIdentity' = TRUE
    /\ Finish("status")
    /\ UNCHANGED <<roomVars, timerVars, step, asked, disposed>>

\* onDisconnected: the room is deleted or the connection lost.
Disconnects ==
    /\ ~disposed
    /\ room = "joined"
    /\ room' = "left"
    /\ known' = FALSE
    /\ IF phase \in {"live", "waiting_agent"}
       THEN Finish("closed")
       ELSE UNCHANGED <<callVars, confirmVars>>
    /\ UNCHANGED <<absences, timerVars, step, agentIdentity, asked, disposed>>

-----------------------------------------------------------------------------
(* onConfirm. *)

\* Mutant: a newer request just takes the screen.
AskMutant ==
    /\ Listening
    /\ known /\ agentIdentity
    /\ asked < MaxRequests
    /\ asked' = asked + 1
    /\ IF phase = "live"
       THEN open' = open \cup {asked'} /\ resolver' = asked' /\ confirm' = asked'
       ELSE UNCHANGED confirmVars
    /\ UNCHANGED <<callVars, roomVars, timerVars, step, agentIdentity, disposed>>

\* The agent asks for an approval: declined at once unless the call is live; a
\* newer request supersedes an unanswered one.
Ask ==
    /\ Listening
    /\ known /\ agentIdentity
    /\ asked < MaxRequests
    /\ asked' = asked + 1
    /\ IF phase = "live"
       THEN /\ open' = (open \ {resolver}) \cup {asked'}
            /\ resolver' = asked'
            /\ confirm' = asked'
       ELSE UNCHANGED confirmVars
    /\ UNCHANGED <<callVars, roomVars, timerVars, step, agentIdentity, disposed>>

\* settle(), called by the viewer's answer or by the request's own timer.
Settle(r) ==
    /\ open' = open \ {r}
    /\ resolver' = IF resolver = r THEN 0 ELSE resolver
    /\ confirm' = IF ~disposed /\ confirm = r THEN 0 ELSE confirm
    /\ UNCHANGED <<callVars, roomVars, timerVars, step, agentIdentity, asked,
                   disposed>>

\* answerConfirm.
Answer == resolver # 0 /\ Settle(resolver)

ConfirmTimesOut(r) == r \in open /\ Settle(r)

-----------------------------------------------------------------------------
(* The viewer. *)

\* end(): finish, then leave the room; a pending connect() is aborted.
ViewerEnds ==
    /\ Listening
    /\ Finish("viewer_ended")
    /\ room' = IF room = "connecting" THEN "aborted" ELSE "left"
    /\ known' = FALSE
    /\ UNCHANGED <<absences, timerVars, step, agentIdentity, asked, disposed>>

\* dispose(), when the call's view goes away: all timers are cleared.
Dispose ==
    /\ ~disposed
    /\ DeclineOpen
    /\ grace' = {}
    /\ joinTimer' = FALSE
    /\ room' = IF room \in {"connecting", "aborted"} THEN "aborted" ELSE "left"
    /\ known' = FALSE
    /\ disposed' = TRUE
    /\ UNCHANGED <<callVars, absences, step, agentIdentity, asked>>

-----------------------------------------------------------------------------

Next ==
    \/ ConnectReturns \/ ConnectFails \/ StartGoesOn \/ JoinTimesOut
    \/ AgentJoins \/ AgentLeaves \/ AgentSpeaks \/ AgentEnds \/ Disconnects
    \/ \E k \in grace : GraceEnds(k)
    \/ Ask \/ Answer
    \/ \E r \in open : ConfirmTimesOut(r)
    \/ ViewerEnds \/ Dispose

Spec == Init /\ [][Next]_vars

\* connect() resolves or rejects, and timers fire.
Fairness ==
    /\ WF_vars(ConnectReturns \/ ConnectFails)
    /\ WF_vars(JoinTimesOut)
    /\ WF_vars(\E k \in grace : GraceEnds(k))
    /\ WF_vars(\E r \in open : ConfirmTimesOut(r))

FairSpec == Spec /\ Fairness

-----------------------------------------------------------------------------
(* Properties. *)

\* Each open request is the one that the viewer's next answer goes to, and the
\* one on screen: a superseded request does not linger with a prompt or an
\* answer of its own.
OneRequest ==
    /\ open \subseteq {resolver} \ {0}
    /\ resolver \in open \cup {0}
    /\ ~disposed => confirm = resolver

\* A call that is over, or whose view is gone, asks the viewer nothing: the agent
\* had its answer.
NothingAskedAfterEnd == phase \in Final \/ disposed => open = {}

\* Once connect() has resolved, a call that ended or failed stays so: events and
\* timers that come late neither revive it nor change why it ended.  (A call that
\* the agent ends before connect() resolves is set to live again by start().)
EndIsFinal ==
    [][step # "connect" /\ phase \in Final => UNCHANGED callVars]_vars

\* A viewer without an agent does not wait for ever, neither for its first arrival
\* nor for its return, unless connect() revived a call that had ended: see
\* EndIsFinal.
NoEndlessWait ==
    endReason = "none" /\ ~known /\ ~disposed
        ~> known \/ phase \in Final \/ disposed
=============================================================================
