-------------------------------- MODULE Brain --------------------------------
(***************************************************************************)
(* The session agent's brain (services/session-agent, brain.py): one       *)
(* conversation with the model, answered turn by turn.  A turn is a run of *)
(* the generator Brain.respond: request, stream, run the requested tools,  *)
(* append their results, request again.                                    *)
(*                                                                         *)
(* The voice layer may cancel the generator at every await and yield, an   *)
(* effect on the outside (a hook) may raise, and the model may stop for    *)
(* any reason.  What the model API demands of the history is external:     *)
(* every message with tool calls must be followed by one that answers      *)
(* exactly these calls.  Texts are abstracted away; a message is its role, *)
(* the tool calls it makes and the tool calls it answers.                  *)
(***************************************************************************)
EXTENDS Naturals, Sequences

CONSTANTS
    MaxToolRounds,  \* config.max_tool_rounds
    MaxCalls,       \* bound: tool calls in one model response
    MaxTurns,       \* bound: turns in the conversation
    AnyStop         \* whether the model may stop for a reason not in the code

ASSUME BrainAssumption ==
    /\ MaxToolRounds \in Nat \ {0}
    /\ MaxCalls \in Nat
    /\ MaxTurns \in Nat
    /\ AnyStop \in BOOLEAN

VARIABLES
    messages,   \* self.messages
    pc,         \* the await or yield the turn is at; "idle" between turns
    round,      \* the iteration of the for loop
    calls,      \* the tool calls of the last response, in order
    answered,   \* how many of them have a result
    ended,      \* self.ended
    turns,      \* turns begun
    lastTurn,   \* how the last turn ended
    faulted     \* whether a turn ended with its tool calls unanswered

vars == <<messages, pc, round, calls, answered, ended, turns, lastTurn, faulted>>
localVars == <<round, calls, answered>>     \* the locals of respond()

Message == [role : {"user", "assistant"}, uses : SUBSET Nat, results : SUBSET Nat]

\* Where a cancellation can land while tools run.
ToolAwaits == {"flush", "starting", "operating", "confirming", "rerunning",
               "finishing", "publishing"}

PcStates == {"idle", "streaming", "next"} \cup ToolAwaits

TypeOK ==
    /\ messages \in Seq(Message)
    /\ pc \in PcStates
    /\ round \in 0..MaxToolRounds
    /\ calls \in Seq(Nat)
    /\ answered \in 0..Len(calls)
    /\ ended \in BOOLEAN
    /\ turns \in 0..MaxTurns
    /\ lastTurn \in {"none", "closed", "cut", "error", "goodbye", "fault"}
    /\ faulted \in BOOLEAN

Init ==
    /\ messages = <<>>
    /\ pc = "idle"
    /\ round = 0
    /\ calls = <<>>
    /\ answered = 0
    /\ ended = FALSE
    /\ turns = 0
    /\ lastTurn = "none"
    /\ faulted = FALSE

Said == [role |-> "assistant", uses |-> {}, results |-> {}]
Heard == [role |-> "user", uses |-> {}, results |-> {}]
Calling(ids) == [role |-> "assistant", uses |-> ids, results |-> {}]
Answering(ids) == [role |-> "user", uses |-> {}, results |-> ids]

Ids(s) == {s[i] : i \in 1..Len(s)}

\* respond() returns or raises: its locals are gone.
EndTurn(how) ==
    /\ pc' = "idle"
    /\ lastTurn' = how
    /\ faulted' = (faulted \/ how = "fault")
    /\ round' = 0
    /\ calls' = <<>>
    /\ answered' = 0

\* An iteration of the for loop begins with a request to the model.
Request(n) ==
    /\ pc' = "streaming"
    /\ round' = n
    /\ calls' = <<>>
    /\ answered' = 0

-----------------------------------------------------------------------------
(* The request. *)

\* respond() begins: the queued notes and the viewer's words (or the kickoff)
\* become one user message.  Nothing stops a turn after session_end.
Respond ==
    /\ pc = "idle"
    /\ turns < MaxTurns
    /\ turns' = turns + 1
    /\ messages' = Append(messages, Heard)
    /\ Request(1)
    /\ UNCHANGED <<ended, lastTurn, faulted>>

\* The stream is cut by the viewer, or fails with an APIError: keep what was
\* spoken so far, if anything was.
StreamCut ==
    /\ pc = "streaming"
    /\ messages' \in {messages, Append(messages, Said)}
    /\ \E how \in {"cut", "error"} : EndTurn(how)
    /\ UNCHANGED <<ended, turns>>

\* Any answer without tool calls to run: the model is done, refuses, or was
\* truncated (the tool calls of a truncated answer are dropped).
Answered ==
    /\ pc = "streaming"
    /\ messages' = Append(messages, Said)
    /\ EndTurn("closed")
    /\ UNCHANGED <<ended, turns>>

\* The for loop goes round again, or is exhausted: a last line closes the turn.
NextRound(history) ==
    IF round < MaxToolRounds
    THEN /\ messages' = history
         /\ Request(round + 1)
         /\ UNCHANGED <<lastTurn, faulted>>
    ELSE /\ messages' = Append(history, Said)
         /\ EndTurn("closed")

\* stop_reason pause_turn: ask the model to go on.
Paused ==
    /\ pc = "streaming"
    /\ NextRound(Append(messages, Said))
    /\ UNCHANGED <<ended, turns>>

\* The identifiers of n new tool calls: never used before in this conversation.
NewCalls(n) == [i \in 1..n |-> Len(messages) * (MaxCalls + 1) + i]

\* A stop reason the code does not list (a stop sequence, the context window
\* exceeded) on an answer with tool calls: they enter the history, the turn
\* returns.
UnlistedStop ==
    /\ pc = "streaming"
    /\ AnyStop
    /\ \E n \in 1..MaxCalls :
          messages' = Append(messages, Calling(Ids(NewCalls(n))))
    /\ EndTurn("fault")
    /\ UNCHANGED <<ended, turns>>

\* stop_reason tool_use.  The FLUSH is yielded before the first tool runs.
ToolUse ==
    /\ pc = "streaming"
    /\ \E n \in 1..MaxCalls :
          /\ calls' = NewCalls(n)
          /\ messages' = Append(messages, Calling(Ids(NewCalls(n))))
    /\ answered' = 0
    /\ pc' = "flush"
    /\ UNCHANGED <<round, ended, turns, lastTurn, faulted>>

-----------------------------------------------------------------------------
(* The tools, one after the other (_run_tool). *)

Goes(from, to) ==
    /\ pc = from
    /\ pc' = to
    /\ UNCHANGED <<messages, localVars, ended, turns, lastTurn, faulted>>

\* Mutant: an invalid call is answered twice.
ResultMutant ==
    /\ answered' = answered + 2
    /\ pc' = "next"

\* The current call has its result.
Result ==
    /\ answered' = answered + 1
    /\ pc' = "next"

Flushed == Goes("flush", "next")

\* Input that does not fit the tool's schema, or no such tool.
InvalidCall ==
    /\ pc = "next"
    /\ answered < Len(calls)
    /\ Result
    /\ UNCHANGED <<messages, round, calls, ended, turns, lastTurn, faulted>>

\* session_end: hooks.end only sets an event.
EndCall ==
    /\ pc = "next"
    /\ answered < Len(calls)
    /\ ended' = TRUE
    /\ Result
    /\ UNCHANGED <<messages, round, calls, turns, lastTurn, faulted>>

\* ui_show_cta and session_handoff publish an event.
ShowCall == answered < Len(calls) /\ Goes("next", "publishing")

\* An operate_* tool: tell the player first.
OperateCall == answered < Len(calls) /\ Goes("next", "starting")

ActionStarted == Goes("starting", "operating")

\* The operator answers, fails or times out: all but one of these are the
\* result; needs_confirmation asks the viewer.
OperatorAnswers == Goes("operating", "finishing") \/ Goes("operating", "confirming")

\* Mutant: the confirmation has no timeout, and the viewer does not answer.
ConfirmAnswersMutant == FALSE /\ Goes("confirming", "finishing")

\* hooks.confirm returns whether the viewer approved; it never raises, and a
\* viewer who does not answer in time declines.
ConfirmAnswers == Goes("confirming", "rerunning") \/ Goes("confirming", "finishing")

RerunAnswers == Goes("rerunning", "finishing")

\* action_finished (or the publish of show_cta, handoff) is done.
HookDone ==
    /\ pc \in {"finishing", "publishing"}
    /\ Result
    /\ UNCHANGED <<messages, round, calls, ended, turns, lastTurn, faulted>>

\* A hook raises (the room is gone, publish_data fails): no except clause of
\* respond() covers it, and the results are not appended.
HookRaises ==
    /\ pc \in {"starting", "finishing", "publishing"}
    /\ EndTurn("fault")
    /\ UNCHANGED <<messages, ended, turns>>

\* Mutant: only the calls that have run get a result.
ToolsCutMutant ==
    /\ pc \in ToolAwaits
    /\ messages' = Append(messages, Answering(Ids(SubSeq(calls, 1, answered))))
    /\ EndTurn("cut")
    /\ UNCHANGED <<ended, turns>>

\* The viewer interrupts while tools run: the calls without a result get the
\* INTERRUPTED one.
ToolsCut ==
    /\ pc \in ToolAwaits
    /\ messages' = Append(messages, Answering(Ids(calls)))
    /\ EndTurn("cut")
    /\ UNCHANGED <<ended, turns>>

\* Mutant: the session's end is not looked at between rounds.
ToolsDoneMutant ==
    /\ pc = "next"
    /\ answered = Len(calls)
    /\ NextRound(Append(messages, Answering(Ids(calls))))
    /\ UNCHANGED <<ended, turns>>

\* Mutant: the rounds are exhausted and the turn just returns.
ToolsDoneSilentMutant ==
    /\ pc = "next"
    /\ answered = Len(calls)
    /\ messages' = Append(messages, Answering(Ids(calls)))
    /\ IF ~ended /\ round < MaxToolRounds
       THEN Request(round + 1) /\ UNCHANGED <<lastTurn, faulted>>
       ELSE EndTurn(IF ended THEN "goodbye" ELSE "closed")
    /\ UNCHANGED <<ended, turns>>

\* All calls have run: append their results, and stop here once the session
\* has ended.
ToolsDone ==
    /\ pc = "next"
    /\ answered = Len(calls)
    /\ LET history == Append(messages, Answering(Ids(calls)))
       IN  IF ended
           THEN messages' = history /\ EndTurn("goodbye")
           ELSE NextRound(history)
    /\ UNCHANGED <<ended, turns>>

-----------------------------------------------------------------------------

Streaming == StreamCut \/ Answered \/ Paused \/ UnlistedStop \/ ToolUse

Tools ==
    \/ Flushed
    \/ InvalidCall \/ EndCall \/ ShowCall \/ OperateCall
    \/ ActionStarted \/ OperatorAnswers \/ ConfirmAnswers \/ RerunAnswers
    \/ HookDone \/ HookRaises \/ ToolsCut \/ ToolsDone

Next == Respond \/ Streaming \/ Tools

Spec == Init /\ [][Next]_vars

\* Every await of a turn ends: the model's stream and the HTTP calls have
\* client timeouts, the confirmation has response_timeout.  The viewer need
\* never interrupt.
TurnGoesOn ==
    \/ Streaming
    \/ Flushed \/ InvalidCall \/ EndCall \/ ShowCall \/ OperateCall
    \/ ActionStarted \/ OperatorAnswers \/ ConfirmAnswers \/ RerunAnswers
    \/ HookDone \/ HookRaises \/ ToolsDone

FairSpec == Spec /\ WF_vars(TurnGoesOn)

-----------------------------------------------------------------------------
(* Properties. *)

\* The model API accepts the history: each message with tool calls is followed
\* by one that answers exactly those calls, and nothing else is answered.  The
\* last message may have open calls: they are the ones being run.
Accepted(history) ==
    \A i \in 1..Len(history) :
        LET before == IF i = 1 THEN {} ELSE history[i - 1].uses
        IN  history[i].results = before

LastUses == IF messages = <<>> THEN {} ELSE messages[Len(messages)].uses

\* However turns are interrupted, the history stays one the API accepts and a
\* request is never sent with open calls, as long as no hook raised in the
\* middle of the tools and the model stopped for a listed reason.
HistoryRepaired ==
    ~faulted =>
        /\ Accepted(messages)
        /\ IF pc \in {"next"} \cup ToolAwaits
           THEN LastUses = Ids(calls)
           ELSE LastUses = {}

\* Once session_end has run, the turn it ran in asks the model nothing more.
NoRequestAfterEnd ==
    [][ended /\ pc \in {"next"} \cup ToolAwaits => pc' # "streaming"]_vars

\* A turn that runs to its end leaves the agent's words last: also one that
\* exhausts its rounds, so that the next one starts cleanly.
ClosedTurnSpeaks ==
    pc = "idle" /\ lastTurn = "closed" =>
        messages[Len(messages)].role = "assistant"

\* Every turn ends: rounds are bounded and every await times out.
TurnEnds == pc # "idle" ~> pc = "idle"

=============================================================================
