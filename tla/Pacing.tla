------------------------------- MODULE Pacing -------------------------------
(***************************************************************************)
(* What makes the brain take a turn (services/session-agent): the viewer's *)
(* words, a click on the shared screen (pointer.py), and the platform, when *)
(* the viewer is quiet or the time runs out (pacing.py).  The platform and *)
(* the pointer write notes, which ride with the next turn (Brain.note).    *)
(*                                                                         *)
(* The voice session (external) runs the turns it was asked for one after  *)
(* the other and tells what the viewer does: speaking, listening, or, after *)
(* silence on both sides, away until they speak.  It interrupts a turn as  *)
(* it likes: Brain's StreamCut and ToolsCut.  Notes are numbered in the    *)
(* order of their writing.                                                 *)
(***************************************************************************)
EXTENDS Brain

CONSTANT MaxPoints  \* bound: pointer calls of the viewer

ASSUME PacingAssumption == MaxPoints \in Nat

VARIABLES
    notes,      \* self._notes, the numbers of the queued notes
    written,    \* notes written so far
    said,       \* the notes that are in the history
    wrapUp,     \* the number of the wrap-up note, 0 before it is written
    timer,      \* whether wrap_up_timer still sleeps
    userState,  \* what the voice session says of the viewer
    replies,    \* the turns asked for: with the viewer's words, or without
    asking,     \* clicks whose handler awaits the interrupt of the agent
    points      \* pointer calls so far

noteVars == <<notes, written, said, wrapUp>>
voiceVars == <<timer, userState, replies>>
pointerVars == <<asking, points>>
pacedVars == <<vars, noteVars, voiceVars, pointerVars>>

PacedTypeOK ==
    /\ TypeOK
    /\ written \in Nat
    /\ notes \in SUBSET (1..written)
    /\ \A n \in notes : n + 3 > written
    /\ said \in SUBSET (1..written)
    /\ wrapUp \in 0..written
    /\ timer \in {"sleeping", "over"}
    /\ userState \in {"listening", "speaking", "away"}
    /\ replies \in Seq({"words", "none"})
    /\ asking \in 0..points
    /\ points \in 0..MaxPoints

\* entrypoint has asked for the greeting and started the timer, which returns at
\* once if there is nothing to wrap up.
PacedInit ==
    /\ Init
    /\ notes = {}
    /\ written = 0
    /\ said = {}
    /\ wrapUp = 0
    /\ timer \in {"sleeping", "over"}
    /\ userState = "listening"
    /\ replies = <<"none">>
    /\ asking = 0
    /\ points = 0

-----------------------------------------------------------------------------
(* Notes and turns. *)

\* Mutant: no note is ever dropped.
NoteKeepsMutant ==
    /\ written' = written + 1
    /\ notes' = notes \cup {written'}

\* Mutant: one note less.
NoteMutant ==
    /\ written' = written + 1
    /\ notes' = {n \in notes : n >= written} \cup {written'}

\* Brain.note: only the latest three are kept.
Note ==
    /\ written' = written + 1
    /\ notes' = {n \in notes : n >= written - 1} \cup {written'}

\* Mutant: without words of the viewer, there is nothing to respond to.
TurnBeginsMutant ==
    /\ replies # <<>>
    /\ Head(replies) = "words" \/ messages = <<>>
    /\ Respond
    /\ replies' = Tail(replies)
    /\ said' = said \cup notes
    /\ notes' = {}
    /\ UNCHANGED <<written, wrapUp, timer, userState, pointerVars>>

\* llm_node looks for words in the last message of the chat: after a turn that was
\* cut before it spoke, the words it should have answered are still there.
WordsMayBeThere == Head(replies) = "words" \/ lastTurn \notin {"none", "closed"}

\* A turn that has been asked for begins: it takes the notes.
TurnBegins ==
    /\ replies # <<>>
    /\ WordsMayBeThere \/ notes # {} \/ messages = <<>>
    /\ Respond
    /\ replies' = Tail(replies)
    /\ said' = said \cup notes
    /\ notes' = {}
    /\ UNCHANGED <<written, wrapUp, timer, userState, pointerVars>>

\* Another turn took the notes: nothing new to respond to.
TurnEmpty ==
    /\ replies # <<>>
    /\ pc = "idle"
    /\ Head(replies) = "none" /\ notes = {} /\ messages # <<>>
    /\ replies' = Tail(replies)
    /\ UNCHANGED <<vars, noteVars, timer, userState, pointerVars>>

\* The turn goes on, or is interrupted.
TurnSteps ==
    /\ Streaming \/ Tools
    /\ UNCHANGED <<noteVars, voiceVars, pointerVars>>

-----------------------------------------------------------------------------
(* The viewer. *)

\* Bound: turns of the conversation.
MayAsk == turns + Len(replies) < MaxTurns

ViewerSpeaks ==
    /\ userState # "speaking"
    /\ userState' = "speaking"
    /\ UNCHANGED <<vars, noteVars, timer, replies, pointerVars>>

\* What was heard may have been words, or just noise.
ViewerStops ==
    /\ userState = "speaking"
    /\ userState' = "listening"
    /\ \/ MayAsk /\ replies' = Append(replies, "words")
       \/ UNCHANGED replies
    /\ UNCHANGED <<vars, noteVars, timer, pointerVars>>

\* A typed message: the viewer may be away all the while.
ViewerWrites ==
    /\ MayAsk
    /\ replies' = Append(replies, "words")
    /\ UNCHANGED <<vars, noteVars, timer, userState, pointerVars>>

\* session.agent_state: never "listening" while a turn runs, but perhaps not yet
\* after it, since what the agent said is still played.
AgentIdle == IF pc = "idle" THEN BOOLEAN ELSE {FALSE}

\* user_state_changed("away"): check in once, unless the agent is busy.
ViewerAway ==
    /\ userState = "listening"
    /\ pc = "idle"
    /\ MayAsk
    /\ userState' = "away"
    /\ \E idle \in AgentIdle :
          IF ended \/ ~idle
          THEN UNCHANGED <<notes, written, replies>>
          ELSE Note /\ replies' = Append(replies, "none")
    /\ UNCHANGED <<vars, said, wrapUp, timer, pointerVars>>

\* wrap_up_timer wakes up.
WrapUp ==
    /\ timer = "sleeping"
    /\ timer' = "over"
    /\ IF ended
       THEN UNCHANGED <<noteVars, replies>>
       ELSE /\ Note
            /\ wrapUp' = written'
            /\ UNCHANGED said
            /\ \E idle \in AgentIdle :
                  replies' = IF idle /\ userState # "speaking"
                             THEN Append(replies, "none") ELSE replies
    /\ UNCHANGED <<vars, userState, pointerVars>>

-----------------------------------------------------------------------------
(* Pointer.handle. *)

\* A call that is well formed and not too fast; the operator has said what is
\* there: a note, and for a click a question.  Without an element or an answer,
\* nothing happens, and what was read before that await is only the clock.
PointsAt ==
    /\ points < MaxPoints
    /\ points' = points + 1
    /\ Note
    /\ asking' \in {asking, asking + 1}
    /\ UNCHANGED <<vars, said, wrapUp, voiceVars>>

\* ask: the interrupt is over, and with it the turns that were asked for before,
\* or the agent could not be interrupted.
Asks ==
    /\ asking > 0
    /\ asking' = asking - 1
    /\ replies' \in {Append(replies, "words"), <<"words">>}
    /\ UNCHANGED <<vars, noteVars, timer, userState, points>>

-----------------------------------------------------------------------------

Turn == TurnBegins \/ TurnEmpty

Viewer == ViewerSpeaks \/ ViewerStops \/ ViewerWrites \/ ViewerAway

Pointer == PointsAt \/ Asks

PacedNext == Turn \/ TurnSteps \/ Viewer \/ WrapUp \/ Pointer

PacedSpec == PacedInit /\ [][PacedNext]_pacedVars

\* The awaits of a turn end (see Brain), turns that were asked for are run, a
\* viewer stops speaking and is away after a long silence, the timer ends.
PacedFairness ==
    /\ WF_pacedVars(TurnGoesOn /\ UNCHANGED <<noteVars, voiceVars, pointerVars>>)
    /\ WF_pacedVars(Turn)
    /\ WF_pacedVars(ViewerStops)
    /\ SF_pacedVars(ViewerAway)
    /\ WF_pacedVars(WrapUp)
    /\ WF_pacedVars(Asks)

PacedFairSpec == PacedSpec /\ PacedFairness

-----------------------------------------------------------------------------
(* Properties. *)

\* A note is queued until it is in the history, whatever is cut or interrupted,
\* or three newer ones were written.
NoteKept ==
    \A n \in 1..written : n \in notes \/ n \in said \/ n + 3 <= written

\* What the notes need to reach the model is a turn, whoever asks for it: also one
\* that brings no words, or that another one overtakes by an interruption.
NotesTold ==
    notes # {} /\ replies # <<>> ~> notes = {} \/ turns = MaxTurns
=============================================================================
