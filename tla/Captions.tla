------------------------------- MODULE Captions -------------------------------
(***************************************************************************)
(* The transcript beside the call: Player with the text streams that the   *)
(* agent publishes (external) and the lines they are folded into           *)
(* (session.ts, onTranscription and sendChat; transcript.ts, upsertLine).  *)
(*                                                                         *)
(* Streams are numbered as they arrive.  A stream of the agent is a        *)
(* segment of its own.  The viewer's words come in one stream after the    *)
(* other, each with the text so far, under one segment id until one of     *)
(* them is final.  A text is known by its utterance: texts of the same one *)
(* share half their words (continues), texts of different ones do not.     *)
(***************************************************************************)
EXTENDS Player, SequencesExt

CONSTANTS
    MaxStreams,     \* bound: text streams and chat messages
    MaxLines        \* MAX_LINES

ASSUME CaptionsAssumption == MaxStreams \in Nat /\ MaxLines \in Nat \ {0}

VARIABLES
    streams,    \* the streams so far, by number; a chat message is one too
    lines       \* snap.lines; a line's id is its segment and its turn in it

captionVars == <<streams, lines>>

CaptionsInit == Init /\ streams = <<>> /\ lines = <<>>

-----------------------------------------------------------------------------
(* transcript.ts. *)

Side(s) == IF streams[s].from = "agent" THEN "agent" ELSE "viewer"

\* append: the newest MAX_LINES stay.
Appended(ls, line) ==
    LET all == Append(ls, line)
    IN  IF Len(all) > MaxLines THEN Tail(all) ELSE all

\* The last line of a segment; 0 if it has none.
LastLine(segment) == SelectLastInSeq(lines, LAMBDA l : l.segment = segment)

\* What a text of a stream is as a line, the turn-th of its segment.
Turn(s, turn, final) ==
    [segment |-> streams[s].segment, turn |-> turn, speaker |-> Side(s),
     utterance |-> streams[s].utterance, final |-> final]

\* The other side spoke below a line.
Answered(n) ==
    \E k \in DOMAIN lines : k > n /\ lines[k].speaker # lines[n].speaker

Updated(n, s, text, final) ==
    [lines EXCEPT ![n].utterance = IF text THEN streams[s].utterance ELSE @,
                  ![n].final = @ \/ final]

\* Mutant: a segment is a line, whatever was said since.
UpsertMutant(s, text, final) ==
    LET n == LastLine(streams[s].segment)
    IN  IF n # 0 THEN Updated(n, s, text, final)
        ELSE IF text THEN Appended(lines, Turn(s, 1, final)) ELSE lines

\* upsertLine: an update of the last line of its segment, its first line, or, when
\* the other side spoke since and these are other words, the next turn.
Upsert(s, text, final) ==
    LET n == LastLine(streams[s].segment)
        otherWords == text /\ lines[n].utterance # streams[s].utterance
    IN  IF n = 0
        THEN IF text THEN Appended(lines, Turn(s, 1, final)) ELSE lines
        ELSE IF ~lines[n].final /\ otherWords /\ Answered(n)
        THEN Appended([lines EXCEPT ![n].final = TRUE],
                      Turn(s, lines[n].turn + 1, final))
        ELSE Updated(n, s, text, final)

-----------------------------------------------------------------------------
(* Streams that open. *)

Next1 == Len(streams) + 1

Opens(from, segment, utterance, final, at) ==
    /\ Next1 <= MaxStreams
    /\ streams' = Append(streams, [from |-> from, segment |-> segment,
           utterance |-> utterance, final |-> final, at |-> at, text |-> FALSE])
    /\ UNCHANGED lines

\* speakerOf for the agent: adopt it if the room knows it; if the player has not
\* heard of it at all, wait for it to be announced.
AgentStreamOpens ==
    /\ \/ AgentSpeaks
       \/ Listening /\ ~known /\ UNCHANGED vars
    /\ Opens("agent", Next1, Next1, FALSE,
             IF agentIdentity' THEN "reading" ELSE "waiting")

\* The viewer's last stream; 0 if there is none.
LastOfViewer == SelectLastInSeq(streams, LAMBDA r : r.from = "viewer")

\* The viewer goes on, or says something else before the last words were final.
ViewerStreamOpens ==
    LET last == LastOfViewer
        goesOn == last # 0 /\ ~streams[last].final
    IN  /\ Listening
        /\ last # 0 => streams[last].at = "done"
        /\ \E final \in BOOLEAN, same \in BOOLEAN :
              /\ same => goesOn
              /\ Opens("viewer",
                       IF goesOn THEN streams[last].segment ELSE Next1,
                       IF same THEN streams[last].utterance ELSE Next1,
                       final, "reading")
        /\ UNCHANGED vars

\* sendChat: a message of a live call is sent.
ChatStarts ==
    /\ phase = "live"
    /\ ~disposed
    /\ Opens("chat", Next1, Next1, TRUE, "sending")
    /\ UNCHANGED vars

-----------------------------------------------------------------------------
(* Streams that go on. *)

Goes(s, from, to) ==
    /\ streams[s].at = from
    /\ streams' = [streams EXCEPT ![s].at = to, ![s].text = FALSE]
    /\ UNCHANGED vars

\* ANNOUNCE_WAIT_MS are over: words of an agent still unheard of are dropped.
WaitEnds(s) ==
    /\ Goes(s, "waiting", IF agentIdentity THEN "reading" ELSE "done")
    /\ UNCHANGED lines

\* A chunk: later chunks of the stream make the same line longer.
ChunkComes(s) ==
    /\ streams[s].at = "reading"
    /\ ~streams[s].text
    /\ streams' = [streams EXCEPT ![s].text = TRUE]
    /\ lines' = Upsert(s, TRUE, streams[s].final)
    /\ UNCHANGED vars

\* The stream ends: the agent's segment with it.
StreamCloses(s) ==
    /\ Goes(s, "reading", "done")
    /\ lines' = Upsert(s, streams[s].text,
                       streams[s].from = "agent" \/ streams[s].final)

\* The sender goes: what arrived is kept as a finished line.
StreamBreaks(s) ==
    /\ IF streams[s].from = "agent" THEN ~known ELSE room = "left"
    /\ Goes(s, "reading", "done")
    /\ lines' = IF streams[s].text THEN Upsert(s, TRUE, TRUE) ELSE lines

\* sendText returned; the phase may be another by now.
ChatSent(s) ==
    /\ Goes(s, "sending", "done")
    /\ lines' = Upsert(s, TRUE, TRUE)

ChatFails(s) ==
    /\ Goes(s, "sending", "done")
    /\ UNCHANGED lines

-----------------------------------------------------------------------------
(* The call, as in Player. *)

\* ParticipantConnected ends the wait of every stream.
AgentAnnounced ==
    /\ AgentJoins
    /\ agentIdentity'
    /\ streams' = [s \in DOMAIN streams |->
           IF streams[s].at = "waiting" THEN [streams[s] EXCEPT !.at = "reading"]
           ELSE streams[s]]
    /\ UNCHANGED lines

AgentUnannounced ==
    /\ AgentJoins
    /\ room = "connecting"
    /\ agentIdentity' = agentIdentity
    /\ UNCHANGED captionVars

CallGoesOn ==
    /\ \/ ConnectReturns \/ ConnectFails \/ StartGoesOn \/ JoinTimesOut
       \/ AgentLeaves \/ AgentSpeaks \/ AgentEnds \/ Disconnects
       \/ \E k \in grace : GraceEnds(k)
       \/ Ask \/ Answer
       \/ \E r \in open : ConfirmTimesOut(r)
       \/ ViewerEnds
    /\ UNCHANGED captionVars

\* The lines go with the view; what streams bring after dispose() changes nothing.
ViewGoes ==
    /\ Dispose
    /\ streams' = <<>>
    /\ lines' = <<>>

CaptionsNext ==
    \/ CallGoesOn \/ ViewGoes \/ AgentAnnounced \/ AgentUnannounced
    \/ AgentStreamOpens \/ ViewerStreamOpens \/ ChatStarts
    \/ \E s \in DOMAIN streams :
          \/ WaitEnds(s) \/ ChunkComes(s) \/ StreamCloses(s) \/ StreamBreaks(s)
          \/ ChatSent(s) \/ ChatFails(s)

CaptionsSpec == CaptionsInit /\ [][CaptionsNext]_<<vars, captionVars>>

-----------------------------------------------------------------------------
(* Properties. *)

\* What was said before an answer stays above it: once the other side has a line
\* below it, a line is not given to other words, though the segment id that keys
\* both is the same; they get a line of their own.  (transcript.ts: "instead of
\* rewriting the old bubble above the agent's reply".)  Nor is a finished line ever
\* unfinished.
TurnsStand ==
    [][\A m \in DOMAIN lines, n \in DOMAIN lines' :
          lines[m].segment = lines'[n].segment /\ lines[m].turn = lines'[n].turn
              => /\ lines[m].final => lines'[n].final
                 /\ Answered(m) => lines'[n].utterance = lines[m].utterance]_lines
=============================================================================
