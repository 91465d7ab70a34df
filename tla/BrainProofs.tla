----------------------------- MODULE BrainProofs -----------------------------
(***************************************************************************)
(* Theorems about Brain, for any number of turns, rounds and tool calls:   *)
(* the state is well typed, the repair of an interrupted turn keeps the    *)
(* history one the model API accepts, a turn that ran to its end has       *)
(* spoken, and nothing is asked of the model once the call was ended.      *)
(* Pacing and Pointer only add to what begins a turn: the paced brain      *)
(* implements Brain, and inherits what is proved of it.  The notes are     *)
(* kept until they are told.                                               *)
(***************************************************************************)
EXTENDS Pacing, SequenceTheorems, TLAPS

\* While a tool runs, its call is one of those without a result.
CurrentCall == pc \in ToolAwaits => answered < Len(calls)

IInv == TypeOK /\ CurrentCall /\ HistoryRepaired

-----------------------------------------------------------------------------
(* Histories. *)

Uses(history) == IF history = <<>> THEN {} ELSE history[Len(history)].uses

\* A message that answers exactly the calls the last one left open keeps the
\* history accepted, and leaves its own calls open.
LEMMA AppendAccepted ==
    ASSUME NEW h \in Seq(Message), NEW m \in Message,
           Accepted(h), m.results = Uses(h)
    PROVE  /\ Append(h, m) \in Seq(Message)
           /\ Accepted(Append(h, m))
           /\ Uses(Append(h, m)) = m.uses
<1> DEFINE g == Append(h, m)
<1>1. /\ g \in Seq(Message)
      /\ Len(g) = Len(h) + 1
      /\ \A i \in 1..Len(h) : g[i] = h[i]
      /\ g[Len(h) + 1] = m
      /\ Len(h) \in Nat
  BY AppendProperties, LenProperties
<1>2. Uses(g) = m.uses
  <2>1. g # <<>>
    BY <1>1, EmptySeq
  <2> QED
    BY <1>1, <2>1 DEF Uses
<1>3. ASSUME NEW i \in 1..Len(g)
      PROVE  g[i].results = (IF i = 1 THEN {} ELSE g[i - 1].uses)
  <2>1. CASE i \in 1..Len(h)
    <3>1. g[i] = h[i] /\ (i # 1 => g[i - 1] = h[i - 1])
      BY <1>1, <2>1
    <3>2. h[i].results = (IF i = 1 THEN {} ELSE h[i - 1].uses)
      BY <2>1 DEF Accepted
    <3> QED
      BY <3>1, <3>2
  <2>2. CASE i = Len(h) + 1
    <3>1. CASE Len(h) = 0
      <4>1. h = <<>>
        BY <3>1, EmptySeq
      <4> QED
        BY <1>1, <2>2, <3>1, <4>1 DEF Uses
    <3>2. CASE Len(h) # 0
      <4>1. h # <<>> /\ i # 1 /\ i - 1 = Len(h) /\ g[i - 1] = h[Len(h)]
        BY <1>1, <2>2, <3>2, EmptySeq
      <4> QED
        BY <1>1, <2>2, <4>1 DEF Uses
    <3> QED
      BY <3>1, <3>2
  <2> QED
    BY <1>1, <1>3, <2>1, <2>2
<1> QED
  BY <1>1, <1>2, <1>3 DEF Accepted

\* The messages of the model.
LEMMA MessageTypes ==
    ASSUME NEW ids \in SUBSET Nat
    PROVE  /\ Said \in Message /\ Said.uses = {} /\ Said.results = {}
           /\ Heard \in Message /\ Heard.uses = {} /\ Heard.results = {}
           /\ Calling(ids) \in Message
           /\ Calling(ids).uses = ids /\ Calling(ids).results = {}
           /\ Answering(ids) \in Message
           /\ Answering(ids).uses = {} /\ Answering(ids).results = ids
BY DEF Message, Said, Heard, Calling, Answering

LEMMA NewCallsType ==
    ASSUME TypeOK, NEW n \in 1..MaxCalls
    PROVE  NewCalls(n) \in Seq(Nat) /\ Ids(NewCalls(n)) \in SUBSET Nat
<1>1. Len(messages) \in Nat /\ MaxCalls + 1 \in Nat
  BY BrainAssumption, LenProperties DEF TypeOK
<1>2. Len(messages) * (MaxCalls + 1) \in Nat
  BY <1>1
<1>3. n \in Nat
  BY BrainAssumption
<1>4. NewCalls(n) \in [1..n -> Nat]
  BY <1>2, <1>3 DEF NewCalls
<1>5. NewCalls(n) \in Seq(Nat)
  BY <1>3, <1>4, SeqDef
<1> QED
  BY <1>5, ElementOfSeq DEF Ids

LEMMA IdsType == ASSUME TypeOK PROVE Ids(calls) \in SUBSET Nat
BY ElementOfSeq DEF TypeOK, Ids

-----------------------------------------------------------------------------

LEMMA InitIInv == Init => IInv
<1> SUFFICES ASSUME Init PROVE IInv
  OBVIOUS
<1>1. messages \in Seq(Message) /\ Len(messages) = 0
  BY EmptySeq DEF Init
<1>2. calls \in Seq(Nat) /\ answered \in 0..Len(calls)
  BY EmptySeq DEF Init
<1>3. TypeOK
  <2>1. round \in 0..MaxToolRounds /\ turns \in 0..MaxTurns
    BY BrainAssumption DEF Init
  <2> QED
    BY <1>1, <1>2, <2>1 DEF Init, TypeOK, PcStates
<1>4. Accepted(messages) /\ LastUses = {}
  BY <1>1 DEF Init, Accepted, LastUses
<1> QED
  BY <1>3, <1>4 DEF IInv, CurrentCall, HistoryRepaired, Init, ToolAwaits

LEMMA StepTypeOK == TypeOK /\ CurrentCall /\ [Next]_vars => TypeOK'
<1> SUFFICES ASSUME TypeOK, CurrentCall, [Next]_vars PROVE TypeOK'
  OBVIOUS
<1>0. /\ <<>> \in Seq(Nat) /\ Len(<<>>) = 0
      /\ Ids(calls) \in SUBSET Nat
      /\ \A m \in Message : Append(messages, m) \in Seq(Message)
      /\ Said \in Message /\ Heard \in Message
      /\ Answering(Ids(calls)) \in Message
      /\ Len(calls) \in Nat
  BY IdsType, MessageTypes, EmptySeq, AppendProperties, LenProperties
     DEF TypeOK
<1>1. \A n \in 1..MaxCalls :
         /\ NewCalls(n) \in Seq(Nat)
         /\ Calling(Ids(NewCalls(n))) \in Message
  BY NewCallsType, MessageTypes
<1>2. ASSUME NEW how \in {"closed", "cut", "error", "goodbye", "fault"},
             EndTurn(how), messages' \in Seq(Message), UNCHANGED turns,
             ended' \in BOOLEAN
      PROVE  TypeOK'
  <2>1. /\ pc' = "idle" /\ lastTurn' = how /\ round' = 0
        /\ calls' = <<>> /\ answered' = 0
        /\ faulted' = (faulted \/ how = "fault")
    BY <1>2 DEF EndTurn
  <2>2. faulted' \in BOOLEAN
    BY <2>1, Zenon DEF TypeOK
  <2>3. round' \in 0..MaxToolRounds /\ answered' \in 0..Len(calls')
    BY <1>0, <2>1, BrainAssumption
  <2>4. pc' \in PcStates /\ calls' \in Seq(Nat) /\ turns' \in 0..MaxTurns
    BY <1>0, <1>2, <2>1 DEF TypeOK, PcStates
  <2> QED
    BY <1>2, <2>1, <2>2, <2>3, <2>4 DEF TypeOK
<1>3. ASSUME NEW n \in 1..MaxToolRounds, Request(n),
             messages' \in Seq(Message), turns' \in 0..MaxTurns,
             UNCHANGED <<ended, lastTurn, faulted>>
      PROVE  TypeOK'
  BY <1>0, <1>3, BrainAssumption DEF TypeOK, PcStates, Request
<1>4. ASSUME NEW h \in Seq(Message), NextRound(h), UNCHANGED <<ended, turns>>
      PROVE  TypeOK'
  <2>1. Append(h, Said) \in Seq(Message)
    BY <1>0, AppendProperties
  <2>2. CASE round < MaxToolRounds
    <3>1. round + 1 \in 1..MaxToolRounds
      BY <2>2, BrainAssumption DEF TypeOK
    <3> QED
      BY <1>3, <1>4, <2>2, <3>1 DEF NextRound, TypeOK
  <2>3. CASE ~(round < MaxToolRounds)
    BY <1>2, <1>4, <2>1, <2>3 DEF NextRound, TypeOK
  <2> QED
    BY <2>2, <2>3
<1>5. CASE Streaming
  <2>1. CASE StreamCut
    <3>1. messages' \in Seq(Message)
      BY <1>0, <2>1 DEF StreamCut, TypeOK
    <3> QED
      BY <1>2, <2>1, <3>1 DEF StreamCut, TypeOK
  <2>2. CASE Answered
    BY <1>0, <1>2, <2>2 DEF Answered, TypeOK
  <2>3. CASE Paused
    BY <1>0, <1>4, <2>3 DEF Paused
  <2>4. CASE UnlistedStop
    <3>1. messages' \in Seq(Message)
      BY <1>0, <1>1, <2>4 DEF UnlistedStop
    <3> QED
      BY <1>2, <2>4, <3>1 DEF UnlistedStop, TypeOK
  <2>5. CASE ToolUse
    <3>1. messages' \in Seq(Message) /\ calls' \in Seq(Nat)
      BY <1>0, <1>1, <2>5 DEF ToolUse
    <3>2. answered' \in 0..Len(calls')
      BY <2>5, <3>1, LenProperties DEF ToolUse
    <3> QED
      BY <2>5, <3>1, <3>2 DEF ToolUse, TypeOK, PcStates, ToolAwaits
  <2> QED BY <1>5, <2>1, <2>2, <2>3, <2>4, <2>5 DEF Streaming
<1>6. ASSUME Result, answered < Len(calls),
             UNCHANGED <<messages, round, calls, turns, lastTurn, faulted>>,
             ended' \in BOOLEAN
      PROVE  TypeOK'
  BY <1>0, <1>6 DEF Result, TypeOK, PcStates
<1>7. ASSUME NEW from \in PcStates, NEW to \in PcStates, Goes(from, to)
      PROVE  TypeOK'
  BY <1>7 DEF Goes, TypeOK, localVars
<1>8. CASE Tools
  <2>1. CASE Flushed \/ ShowCall \/ OperateCall \/ ActionStarted
    BY <2>1, <1>7
       DEF Flushed, ShowCall, OperateCall, ActionStarted, PcStates, ToolAwaits
  <2>2. CASE OperatorAnswers \/ ConfirmAnswers \/ RerunAnswers
    BY <2>2, <1>7
       DEF OperatorAnswers, ConfirmAnswers, RerunAnswers, PcStates, ToolAwaits
  <2>3. CASE InvalidCall BY <2>3, <1>6 DEF InvalidCall, TypeOK
  <2>4. CASE EndCall     BY <2>4, <1>6 DEF EndCall
  <2>5. CASE HookDone
    BY <2>5, <1>6 DEF HookDone, CurrentCall, ToolAwaits, TypeOK
  <2>6. CASE HookRaises  BY <2>6, <1>2 DEF HookRaises, TypeOK
  <2>7. CASE ToolsCut    BY <2>7, <1>0, <1>2 DEF ToolsCut, TypeOK
  <2>8. CASE ToolsDone
    <3>1. CASE ended
      BY <1>0, <1>2, <2>8, <3>1 DEF ToolsDone, TypeOK
    <3>2. CASE ~ended
      BY <1>0, <1>4, <2>8, <3>2 DEF ToolsDone
    <3> QED BY <3>1, <3>2
  <2> QED BY <1>8, <2>1, <2>2, <2>3, <2>4, <2>5, <2>6, <2>7, <2>8 DEF Tools
<1>9. CASE UNCHANGED vars
  BY <1>9 DEF vars, TypeOK
<1>10. CASE Respond
  <2>1. 1 \in 1..MaxToolRounds /\ turns' \in 0..MaxTurns
    BY <1>10, BrainAssumption DEF Respond, TypeOK
  <2> QED
    BY <1>0, <1>3, <1>10, <2>1 DEF Respond
<1> QED
  BY <1>5, <1>8, <1>9, <1>10 DEF Next

\* A tool is awaited only for a call that has no result yet.
LEMMA StepCurrentCall == TypeOK /\ CurrentCall /\ [Next]_vars => CurrentCall'
<1> SUFFICES ASSUME TypeOK, CurrentCall, [Next]_vars, pc' \in ToolAwaits
             PROVE  answered' < Len(calls')
  BY DEF CurrentCall
<1>1. CASE pc' = pc /\ UNCHANGED <<calls, answered>>
  BY <1>1 DEF CurrentCall
<1>2. CASE ToolUse
  <2>1. PICK n \in 1..MaxCalls : calls' = NewCalls(n)
    BY <1>2 DEF ToolUse
  <2>2. n \in Nat /\ n > 0
    BY BrainAssumption
  <2>3. Len(NewCalls(n)) = n
    BY <2>2 DEF NewCalls
  <2> QED
    BY <1>2, <2>1, <2>2, <2>3 DEF ToolUse
<1>3. CASE /\ UNCHANGED localVars
           /\ pc \in ToolAwaits \/ answered < Len(calls)
  BY <1>3 DEF CurrentCall, localVars
<1>4. CASE pc' \in {"idle", "streaming", "next"}
  BY <1>4 DEF ToolAwaits
<1>5. CASE UNCHANGED vars
  BY <1>1, <1>5 DEF vars
<1>6. CASE Respond
  BY <1>4, <1>6 DEF Respond, Request
<1>7. ASSUME NEW h, NextRound(h) PROVE pc' \in {"idle", "streaming"}
  BY <1>7 DEF NextRound, Request, EndTurn
<1>8. CASE Streaming
  <2>1. CASE StreamCut \/ Answered \/ UnlistedStop
    BY <1>4, <2>1 DEF StreamCut, Answered, UnlistedStop, EndTurn
  <2>2. CASE Paused
    BY <1>4, <1>7, <2>2 DEF Paused
  <2> QED BY <1>2, <1>8, <2>1, <2>2 DEF Streaming
<1>9. CASE Tools
  <2>1. CASE \/ Flushed \/ ShowCall \/ OperateCall \/ ActionStarted
             \/ OperatorAnswers \/ ConfirmAnswers \/ RerunAnswers
    BY <1>3, <2>1
       DEF Flushed, ShowCall, OperateCall, ActionStarted, OperatorAnswers,
           ConfirmAnswers, RerunAnswers, Goes, ToolAwaits
  <2>2. CASE InvalidCall \/ EndCall \/ HookDone
    BY <1>4, <2>2 DEF InvalidCall, EndCall, HookDone, Result
  <2>3. CASE HookRaises \/ ToolsCut
    BY <1>4, <2>3 DEF HookRaises, ToolsCut, EndTurn
  <2>4. CASE ToolsDone
    BY <1>4, <1>7, <2>4 DEF ToolsDone, EndTurn
  <2> QED BY <1>9, <2>1, <2>2, <2>3, <2>4 DEF Tools
<1> QED
  BY <1>5, <1>6, <1>8, <1>9 DEF Next

-----------------------------------------------------------------------------
(* The history. *)

Running == pc \in {"next"} \cup ToolAwaits

\* One message is added that answers the open calls, and the calls it makes
\* are the ones that run from now on.
Continues ==
    \E m \in Message :
        /\ messages' = Append(messages, m)
        /\ m.results = LastUses
        /\ m.uses = IF Running' THEN Ids(calls') ELSE {}

LEMMA ContinuesRepaired ==
    ASSUME TypeOK, ~faulted, HistoryRepaired, Continues
    PROVE  HistoryRepaired'
<1>1. PICK m \in Message :
        /\ messages' = Append(messages, m)
        /\ m.results = LastUses
        /\ m.uses = IF Running' THEN Ids(calls') ELSE {}
  BY DEF Continues
<1>2. messages \in Seq(Message) /\ Accepted(messages)
  BY DEF TypeOK, HistoryRepaired
<1>3. LastUses = Uses(messages) /\ LastUses' = Uses(messages')
  BY DEF LastUses, Uses
<1>4. Accepted(messages') /\ Uses(messages') = m.uses
  BY <1>1, <1>2, <1>3, AppendAccepted
<1> QED
  BY <1>1, <1>3, <1>4 DEF HistoryRepaired, Running, Accepted

LEMMA SameRepaired ==
    ASSUME HistoryRepaired, ~faulted, UNCHANGED messages,
           LastUses = IF Running' THEN Ids(calls') ELSE {}
    PROVE  HistoryRepaired'
<1>1. LastUses' = LastUses
  BY DEF LastUses
<1> QED
  BY <1>1 DEF HistoryRepaired, Running, Accepted

\* A message that closes the open calls, and whatever the loop does next.
LEMMA NextRoundRepaired ==
    ASSUME TypeOK, ~faulted, HistoryRepaired,
           NEW m \in Message, m.results = LastUses, m.uses = {},
           NextRound(Append(messages, m))
    PROVE  HistoryRepaired'
<1>1. CASE round < MaxToolRounds
  <2>1. messages' = Append(messages, m) /\ ~Running'
    BY <1>1 DEF NextRound, Request, Running, ToolAwaits
  <2> QED
    BY <2>1, ContinuesRepaired DEF Continues
<1>2. CASE ~(round < MaxToolRounds)
  <2> DEFINE h == Append(messages, m)
  <2>1. messages' = Append(h, Said) /\ ~Running'
    BY <1>2 DEF NextRound, EndTurn, Running, ToolAwaits
  <2>2. messages \in Seq(Message) /\ Accepted(messages)
    BY DEF TypeOK, HistoryRepaired
  <2>3. LastUses = Uses(messages) /\ LastUses' = Uses(messages')
    BY DEF LastUses, Uses
  <2>4. h \in Seq(Message) /\ Accepted(h) /\ Uses(h) = {}
    BY <2>2, <2>3, AppendAccepted
  <2>5. Said \in Message /\ Said.uses = {} /\ Said.results = {}
    BY MessageTypes
  <2>6. Accepted(Append(h, Said)) /\ Uses(Append(h, Said)) = {}
    BY <2>4, <2>5, AppendAccepted
  <2> QED
    BY <2>1, <2>3, <2>6 DEF HistoryRepaired, Running, Accepted
<1> QED
  BY <1>1, <1>2

LEMMA StepHistoryRepaired ==
    TypeOK /\ HistoryRepaired /\ [Next]_vars => HistoryRepaired'
<1> SUFFICES ASSUME TypeOK, HistoryRepaired, [Next]_vars, ~faulted'
             PROVE  HistoryRepaired'
  BY DEF HistoryRepaired
<1>1. ~faulted
  BY DEF Next, vars, Respond, Request, Streaming, StreamCut, Answered, Paused,
         UnlistedStop, ToolUse, NextRound, EndTurn, Tools, Goes, Flushed,
         InvalidCall, EndCall, ShowCall, OperateCall, ActionStarted,
         OperatorAnswers, ConfirmAnswers, RerunAnswers, HookDone, HookRaises,
         ToolsCut, ToolsDone
<1>2. LastUses = IF Running THEN Ids(calls) ELSE {}
  BY <1>1 DEF HistoryRepaired, Running
<1>3. /\ Said \in Message /\ Said.uses = {} /\ Said.results = {}
      /\ Heard \in Message /\ Heard.uses = {} /\ Heard.results = {}
      /\ Answering(Ids(calls)) \in Message
      /\ Answering(Ids(calls)).uses = {}
      /\ Answering(Ids(calls)).results = Ids(calls)
  BY MessageTypes, IdsType
<1>4. CASE UNCHANGED vars
  <2>1. UNCHANGED messages /\ Running' = Running /\ Ids(calls') = Ids(calls)
    BY <1>4 DEF vars, Running
  <2> QED
    BY <1>1, <1>2, <2>1, SameRepaired
<1>5. CASE Respond
  <2>1. /\ messages' = Append(messages, Heard) /\ ~Running /\ ~Running'
    BY <1>5 DEF Respond, Request, Running, ToolAwaits
  <2> QED
    BY <1>1, <1>2, <1>3, <2>1, ContinuesRepaired DEF Continues
<1>6. CASE Streaming
  <2>1. ~Running /\ LastUses = {}
    BY <1>2, <1>6
       DEF Streaming, StreamCut, Answered, Paused, UnlistedStop, ToolUse,
           Running, ToolAwaits
  <2>2. CASE StreamCut
    <3>1. ~Running' /\ messages' \in {messages, Append(messages, Said)}
      BY <2>2 DEF StreamCut, EndTurn, Running, ToolAwaits
    <3>2. CASE messages' = messages
      BY <1>1, <2>1, <3>1, <3>2, SameRepaired
    <3>3. CASE messages' = Append(messages, Said)
      BY <1>1, <1>3, <2>1, <3>1, <3>3, ContinuesRepaired DEF Continues
    <3> QED BY <3>1, <3>2, <3>3
  <2>3. CASE Answered
    <3>1. ~Running' /\ messages' = Append(messages, Said)
      BY <2>3 DEF Answered, EndTurn, Running, ToolAwaits
    <3> QED
      BY <1>1, <1>3, <2>1, <3>1, ContinuesRepaired DEF Continues
  <2>4. CASE Paused
    BY <1>1, <1>3, <2>1, <2>4, NextRoundRepaired DEF Paused
  <2>5. CASE UnlistedStop
    BY <2>5 DEF UnlistedStop, EndTurn
  <2>6. CASE ToolUse
    <3>1. PICK n \in 1..MaxCalls :
             /\ calls' = NewCalls(n)
             /\ messages' = Append(messages, Calling(Ids(NewCalls(n))))
      BY <2>6 DEF ToolUse
    <3>2. Running'
      BY <2>6 DEF ToolUse, Running, ToolAwaits
    <3>3. /\ Calling(Ids(calls')) \in Message
          /\ Calling(Ids(calls')).uses = Ids(calls')
          /\ Calling(Ids(calls')).results = {}
      BY <3>1, NewCallsType, MessageTypes
    <3> QED
      BY <1>1, <2>1, <3>1, <3>2, <3>3, ContinuesRepaired DEF Continues
  <2> QED BY <1>6, <2>2, <2>3, <2>4, <2>5, <2>6 DEF Streaming
<1>7. CASE Tools
  <2>1. Running /\ LastUses = Ids(calls)
    BY <1>2, <1>7
       DEF Tools, Goes, Flushed, InvalidCall, EndCall, ShowCall, OperateCall,
           ActionStarted, OperatorAnswers, ConfirmAnswers, RerunAnswers,
           HookDone, HookRaises, ToolsCut, ToolsDone, Running, ToolAwaits
  <2>2. CASE UNCHANGED <<messages, calls>> /\ Running'
    BY <1>1, <2>1, <2>2, SameRepaired
  <2>3. CASE \/ Flushed \/ ShowCall \/ OperateCall \/ ActionStarted
             \/ OperatorAnswers \/ ConfirmAnswers \/ RerunAnswers
    BY <2>2, <2>3
       DEF Flushed, ShowCall, OperateCall, ActionStarted, OperatorAnswers,
           ConfirmAnswers, RerunAnswers, Goes, localVars, Running, ToolAwaits
  <2>4. CASE InvalidCall \/ EndCall \/ HookDone
    BY <2>2, <2>4 DEF InvalidCall, EndCall, HookDone, Result, Running
  <2>5. CASE HookRaises
    BY <2>5 DEF HookRaises, EndTurn
  <2>6. CASE ToolsCut
    <3>1. /\ messages' = Append(messages, Answering(Ids(calls)))
          /\ ~Running'
      BY <2>6 DEF ToolsCut, EndTurn, Running, ToolAwaits
    <3> QED
      BY <1>1, <1>3, <2>1, <3>1, ContinuesRepaired DEF Continues
  <2>7. CASE ToolsDone
    <3>1. CASE ended
      <4>1. /\ messages' = Append(messages, Answering(Ids(calls)))
            /\ ~Running'
        BY <2>7, <3>1 DEF ToolsDone, EndTurn, Running, ToolAwaits
      <4> QED
        BY <1>1, <1>3, <2>1, <4>1, ContinuesRepaired DEF Continues
    <3>2. CASE ~ended
      BY <1>1, <1>3, <2>1, <2>7, <3>2, NextRoundRepaired DEF ToolsDone
    <3> QED BY <3>1, <3>2
  <2> QED BY <1>7, <2>3, <2>4, <2>5, <2>6, <2>7 DEF Tools
<1> QED
  BY <1>4, <1>5, <1>6, <1>7 DEF Next

-----------------------------------------------------------------------------

THEOREM Invariance == Spec => []IInv
<1>1. IInv /\ [Next]_vars => IInv'
  BY StepTypeOK, StepCurrentCall, StepHistoryRepaired DEF IInv
<1> QED
  BY InitIInv, <1>1, PTL DEF Spec

\* The turn's program counter, its calls and the history are what the code's
\* types say, in every state: in particular no call is ever answered twice
\* (answered stays within the calls of the response).
THEOREM TypeCorrect == Spec => []TypeOK
<1>1. IInv => TypeOK
  BY DEF IInv
<1> QED
  BY Invariance, <1>1, PTL

\* However the viewer interrupts, and however many rounds and calls a turn has,
\* the history stays one the model API accepts (respond, _append_results), as
\* long as no hook raised and the model stopped for a listed reason.
THEOREM HistoryCorrect == Spec => []HistoryRepaired
<1>1. IInv => HistoryRepaired
  BY DEF IInv
<1> QED
  BY Invariance, <1>1, PTL

-----------------------------------------------------------------------------
(* How turns end. *)

\* A history that ends with the agent's words.
LEMMA SaidLast ==
    ASSUME NEW h \in Seq(Message), messages' = Append(h, Said)
    PROVE  messages'[Len(messages')].role = "assistant"
<1>1. Len(Append(h, Said)) = Len(h) + 1 /\ Append(h, Said)[Len(h) + 1] = Said
  BY MessageTypes, AppendProperties
<1> QED
  BY <1>1 DEF Said

\* A turn that runs to its end, by the model's last answer or since its rounds are
\* exhausted, leaves the agent's words as the last message: for any number of rounds.
THEOREM ClosedCorrect == Spec => []ClosedTurnSpeaks
<1>1. Init => ClosedTurnSpeaks
  BY DEF Init, ClosedTurnSpeaks
<1>2. IInv /\ ClosedTurnSpeaks /\ [Next]_vars => ClosedTurnSpeaks'
  <2> SUFFICES ASSUME TypeOK, ClosedTurnSpeaks, [Next]_vars
               PROVE  ClosedTurnSpeaks'
    BY DEF IInv
  <2>1. CASE UNCHANGED vars
    BY <2>1 DEF vars, ClosedTurnSpeaks
  <2>2. CASE pc' # "idle" \/ lastTurn' # "closed"
    BY <2>2 DEF ClosedTurnSpeaks
  <2>3. ASSUME NEW h \in Seq(Message), NextRound(h) PROVE ClosedTurnSpeaks'
    <3>1. CASE round < MaxToolRounds
      BY <2>2, <2>3, <3>1 DEF NextRound, Request
    <3>2. CASE ~(round < MaxToolRounds)
      BY <2>3, <3>2, SaidLast DEF NextRound, ClosedTurnSpeaks
    <3> QED BY <3>1, <3>2
  <2>4. \A m \in Message : Append(messages, m) \in Seq(Message)
    BY AppendProperties DEF TypeOK
  <2>5. Said \in Message /\ Answering(Ids(calls)) \in Message
    BY MessageTypes, IdsType
  <2>6. CASE Respond
    BY <2>2, <2>6 DEF Respond, Request
  <2>7. CASE Streaming
    <3>1. CASE StreamCut \/ UnlistedStop \/ ToolUse
      BY <2>2, <3>1 DEF StreamCut, UnlistedStop, ToolUse, EndTurn
    <3>2. CASE Answered
      BY <3>2, SaidLast DEF Answered, TypeOK, ClosedTurnSpeaks
    <3>3. CASE Paused
      BY <2>3, <2>4, <2>5, <3>3 DEF Paused
    <3> QED BY <2>7, <3>1, <3>2, <3>3 DEF Streaming
  <2>8. CASE Tools
    <3>1. CASE \/ Flushed \/ ShowCall \/ OperateCall \/ ActionStarted
               \/ OperatorAnswers \/ ConfirmAnswers \/ RerunAnswers
      BY <2>2, <3>1
         DEF Flushed, ShowCall, OperateCall, ActionStarted, OperatorAnswers,
             ConfirmAnswers, RerunAnswers, Goes
    <3>2. CASE InvalidCall \/ EndCall \/ HookDone
      BY <2>2, <3>2 DEF InvalidCall, EndCall, HookDone, Result
    <3>3. CASE HookRaises \/ ToolsCut
      BY <2>2, <3>3 DEF HookRaises, ToolsCut, EndTurn
    <3>4. CASE ToolsDone
      <4>1. CASE ended
        BY <2>2, <3>4, <4>1 DEF ToolsDone, EndTurn
      <4>2. CASE ~ended
        BY <2>3, <2>4, <2>5, <3>4, <4>2 DEF ToolsDone
      <4> QED BY <4>1, <4>2
    <3> QED BY <2>8, <3>1, <3>2, <3>3, <3>4 DEF Tools
  <2> QED
    BY <2>1, <2>6, <2>7, <2>8 DEF Next
<1> QED
  BY Invariance, <1>1, <1>2, PTL DEF Spec

\* While the tools of an answer run, a session that has ended leads to no request,
\* whichever of the tools ended it and whatever ran after it.
THEOREM EndAsksNothing == Spec => NoRequestAfterEnd
<1> DEFINE Silent == ended /\ Running => pc' # "streaming"
<1>1. [Next]_vars => [Silent]_vars
  <2> SUFFICES ASSUME Next, ended, Running
               PROVE  pc' # "streaming"
    OBVIOUS
  <2>1. ~Respond /\ ~Streaming
    BY DEF Respond, Streaming, StreamCut, Answered, Paused, UnlistedStop, ToolUse,
       Running, ToolAwaits
  <2>2. CASE \/ Flushed \/ ShowCall \/ OperateCall \/ ActionStarted
             \/ OperatorAnswers \/ ConfirmAnswers \/ RerunAnswers
    BY <2>2
       DEF Flushed, ShowCall, OperateCall, ActionStarted, OperatorAnswers,
           ConfirmAnswers, RerunAnswers, Goes
  <2>3. CASE InvalidCall \/ EndCall \/ HookDone
    BY <2>3 DEF InvalidCall, EndCall, HookDone, Result
  <2>4. CASE HookRaises \/ ToolsCut
    BY <2>4 DEF HookRaises, ToolsCut, EndTurn
  <2>5. CASE ToolsDone
    BY <2>5 DEF ToolsDone, EndTurn
  <2> QED
    BY <2>1, <2>2, <2>3, <2>4, <2>5 DEF Next, Tools
<1>2. NoRequestAfterEnd <=> [][Silent]_vars
  BY DEF NoRequestAfterEnd, Running
<1> QED
  BY <1>1, <1>2, PTL DEF Spec

-----------------------------------------------------------------------------
(* The paced brain. *)

\* The notes by their numbers: those that are neither queued nor told are older
\* than the latest three.
NotesInv ==
    /\ written \in Nat
    /\ notes \in SUBSET (1..written)
    /\ \A n \in notes : n + 3 > written
    /\ said \in SUBSET (1..written)
    /\ wrapUp \in 0..written
    /\ NoteKept

VoiceInv ==
    /\ timer \in {"sleeping", "over"}
    /\ userState \in {"listening", "speaking", "away"}
    /\ replies \in Seq({"words", "none"})
    /\ points \in 0..MaxPoints
    /\ asking \in 0..points

PacedIInv == NotesInv /\ VoiceInv

\* Pacing implements Brain: whoever asks for a turn, respond() runs as if the
\* viewer had.
THEOREM ImplementsBrain == PacedSpec => Spec
<1>1. PacedInit => Init
  BY DEF PacedInit
<1>2. [PacedNext]_pacedVars => [Next]_vars
  BY DEF PacedNext, Turn, TurnBegins, TurnEmpty, TurnSteps, Viewer, ViewerSpeaks,
         ViewerStops, ViewerWrites, ViewerAway, WrapUp, Pointer, PointsAt, Asks,
         Next, pacedVars
<1> QED
  BY <1>1, <1>2, PTL DEF PacedSpec, Spec

\* Whatever the platform and the viewer ask for in between, the history stays
\* one the model API accepts (respond, _append_results).
THEOREM PacedHistoryCorrect == PacedSpec => []HistoryRepaired
BY ImplementsBrain, HistoryCorrect, PTL

-----------------------------------------------------------------------------

LEMMA PacedInitIInv == PacedInit => PacedIInv
<1> SUFFICES ASSUME PacedInit PROVE PacedIInv
  OBVIOUS
<1>1. NotesInv
  BY DEF PacedInit, NotesInv, NoteKept
<1>2. <<"none">> \in Seq({"words", "none"})
  OBVIOUS
<1>3. VoiceInv
  BY <1>2, PacingAssumption DEF PacedInit, VoiceInv
<1> QED
  BY <1>1, <1>3 DEF PacedIInv

\* A new note pushes out at most the oldest of three.
LEMMA NoteKeepsNotes ==
    ASSUME NotesInv, Note, UNCHANGED said, wrapUp' \in {wrapUp, written'}
    PROVE  NotesInv'
<1>1. written' = written + 1 /\ written' \in Nat
  BY DEF NotesInv, Note
<1>2. notes' = {n \in notes : n >= written - 1} \cup {written'}
  BY DEF Note
<1>3. notes' \in SUBSET (1..written') /\ \A n \in notes' : n + 3 > written'
  <2> SUFFICES ASSUME NEW n \in notes'
               PROVE  n \in 1..written' /\ n + 3 > written'
    OBVIOUS
  <2>1. CASE n = written'
    BY <1>1, <2>1 DEF NotesInv
  <2>2. CASE n \in notes /\ n >= written - 1
    <3>1. n \in 1..written /\ written \in Nat
      BY <2>2 DEF NotesInv
    <3> QED
      BY <1>1, <2>2, <3>1
  <2> QED
    BY <1>2, <2>1, <2>2
<1>4. said' \in SUBSET (1..written') /\ wrapUp' \in 0..written'
  BY <1>1 DEF NotesInv
<1>5. NoteKept'
  <2> SUFFICES ASSUME NEW n \in 1..written', n \notin said', n + 3 > written'
               PROVE  n \in notes'
    BY <1>1 DEF NoteKept
  <2>1. CASE n = written'
    BY <1>2, <2>1
  <2>2. CASE n # written'
    <3>1. n \in 1..written /\ n + 3 > written /\ n \notin said
      BY <1>1, <2>2 DEF NotesInv
    <3>2. n \in notes
      BY <3>1 DEF NotesInv, NoteKept
    <3> QED
      BY <1>1, <1>2, <3>1, <3>2 DEF NotesInv
  <2> QED
    BY <2>1, <2>2
<1> QED
  BY <1>1, <1>3, <1>4, <1>5 DEF NotesInv

LEMMA SameNotes == ASSUME NotesInv, UNCHANGED noteVars PROVE NotesInv'
BY DEF NotesInv, NoteKept, noteVars

LEMMA StepNotesInv == NotesInv /\ [PacedNext]_pacedVars => NotesInv'
<1> SUFFICES ASSUME NotesInv, [PacedNext]_pacedVars PROVE NotesInv'
  OBVIOUS
<1>1. CASE TurnBegins
  BY <1>1 DEF TurnBegins, NotesInv, NoteKept
<1>2. CASE TurnEmpty \/ TurnSteps \/ ViewerSpeaks \/ ViewerStops \/ ViewerWrites
           \/ Asks \/ UNCHANGED pacedVars
  BY <1>2, SameNotes DEF TurnEmpty, TurnSteps, ViewerSpeaks, ViewerStops,
                         ViewerWrites, Asks, pacedVars, noteVars
<1>3. CASE ViewerAway
  <2>1. CASE UNCHANGED <<notes, written>>
    BY <1>3, <2>1, SameNotes DEF ViewerAway, noteVars
  <2>2. CASE Note
    BY <1>3, <2>2, NoteKeepsNotes DEF ViewerAway
  <2> QED
    BY <1>3, <2>1, <2>2 DEF ViewerAway
<1>4. CASE WrapUp
  <2>1. CASE UNCHANGED noteVars
    BY <2>1, SameNotes
  <2>2. CASE Note /\ wrapUp' = written' /\ UNCHANGED said
    BY <2>2, NoteKeepsNotes
  <2> QED
    BY <1>4, <2>1, <2>2 DEF WrapUp
<1>5. CASE PointsAt
  BY <1>5, NoteKeepsNotes DEF PointsAt
<1> QED
  BY <1>1, <1>2, <1>3, <1>4, <1>5 DEF PacedNext, Turn, Viewer, Pointer

LEMMA StepVoiceInv == VoiceInv /\ [PacedNext]_pacedVars => VoiceInv'
<1> SUFFICES ASSUME VoiceInv, [PacedNext]_pacedVars PROVE VoiceInv'
  OBVIOUS
<1>0. /\ \A r \in {"words", "none"} :
            Append(replies, r) \in Seq({"words", "none"})
      /\ replies # <<>> => Tail(replies) \in Seq({"words", "none"})
      /\ <<"words">> \in Seq({"words", "none"})
  BY DEF VoiceInv
<1>1. CASE TurnBegins \/ TurnEmpty
  BY <1>0, <1>1 DEF TurnBegins, TurnEmpty, VoiceInv, pointerVars
<1>2. CASE TurnSteps
  BY <1>2 DEF TurnSteps, VoiceInv, voiceVars, pointerVars
<1>3. CASE ViewerSpeaks \/ ViewerStops \/ ViewerWrites
  BY <1>0, <1>3 DEF ViewerSpeaks, ViewerStops, ViewerWrites, VoiceInv, pointerVars
<1>4. CASE ViewerAway
  BY <1>0, <1>4 DEF ViewerAway, VoiceInv, pointerVars
<1>5. CASE WrapUp
  BY <1>0, <1>5 DEF WrapUp, VoiceInv, pointerVars
<1>6. CASE PointsAt
  BY <1>6, PacingAssumption DEF PointsAt, VoiceInv, voiceVars
<1>7. CASE Asks
  <2>1. replies' \in Seq({"words", "none"})
    BY <1>0, <1>7 DEF Asks
  <2> QED
    BY <1>7, <2>1 DEF Asks, VoiceInv
<1>8. CASE UNCHANGED pacedVars
  BY <1>8 DEF pacedVars, VoiceInv, voiceVars, pointerVars
<1> QED
  BY <1>1, <1>2, <1>3, <1>4, <1>5, <1>6, <1>7, <1>8
     DEF PacedNext, Turn, Viewer, Pointer

THEOREM PacedInvariance == PacedSpec => []PacedIInv
<1>1. PacedIInv /\ [PacedNext]_pacedVars => PacedIInv'
  BY StepNotesInv, StepVoiceInv DEF PacedIInv
<1> QED
  BY PacedInitIInv, <1>1, PTL DEF PacedSpec

\* The queue of notes and the wiring of the worker keep their types; the queue
\* never holds more than the latest three (note).
THEOREM PacedTypeCorrect == PacedSpec => []PacedTypeOK
<1>1. TypeOK /\ PacedIInv => PacedTypeOK
  BY DEF PacedIInv, NotesInv, VoiceInv, PacedTypeOK
<1> QED
  BY ImplementsBrain, TypeCorrect, PacedInvariance, <1>1, PTL

\* A note is queued until it is in the history or three newer ones were written,
\* for any number of turns, nudges and pointer calls (note, respond).
THEOREM NotesKept == PacedSpec => []NoteKept
<1>1. PacedIInv => NoteKept
  BY DEF PacedIInv, NotesInv
<1> QED
  BY PacedInvariance, <1>1, PTL
=============================================================================
