---------------------------- MODULE ScreenProofs ----------------------------
(***************************************************************************)
(* Theorems about Screen, for any page, policy and number of calls: it is  *)
(* well typed, no gated tool acts on an element that the last snapshot     *)
(* shows as blocked, and the protocol of the code implements Consent.      *)
(***************************************************************************)
EXTENDS Screen, TLAPS

\* A call the viewer has not heard of.
Unasked(c) ==
    /\ call[c].shown = Gone
    /\ call[c].verdict = "none"
    /\ c \notin rpc
    /\ dialog # c

\* How far a call is, whether it has acted, and whether the viewer approved.
Progress(c) ==
    /\ call[c].phase \in {"new", "waiting", "acting", "asking"} =>
          call[c].acted = 0
    /\ call[c].phase = "settling" => call[c].acted = 1
    /\ call[c].acted \in {0, 1}
    /\ call[c].phase \in {"new", "asking"} => ~call[c].confirmed
    /\ ~call[c].confirmed
       /\ call[c].phase \in {"new", "waiting", "acting", "settling"} =>
          Unasked(c)
    /\ call[c].phase = "asking" => call[c].shown # Gone
    /\ call[c].confirmed => call[c].verdict = "approved"

\* A request to the player is either on its way, or on the viewer's screen, or
\* answered.
Request(c) ==
    /\ c \in rpc \/ dialog = c =>
          call[c].shown # Gone /\ call[c].verdict = "none"
    /\ c \in rpc => dialog # c
    /\ call[c].verdict # "none" => call[c].shown # Gone

\* What the gate let through.
LetThrough(c) ==
    call[c].phase = "acting"
    /\ Classify(call[c].tool, call[c].kind, call[c].seen) = "confirm" =>
        call[c].confirmed

CallInv == \A c \in Calls : Progress(c) /\ Request(c) /\ LetThrough(c)

IInv == TypeOK /\ CallInv

-----------------------------------------------------------------------------
(* Types. *)

LEMMA CallsType == Calls \subseteq Nat /\ 0 \notin Calls /\ Calls \subseteq 0..MaxCalls
                   /\ \A i \in 0..MaxCalls : i = 0 \/ i \in Calls
BY ScreenAssumption DEF Calls

LEMMA NewCallType == NewCall \in Call
<1>1. (CHOOSE n \in Nodes : TRUE) \in Nodes /\ (CHOOSE n \in Names : TRUE) \in Names
  BY ScreenAssumption
<1> QED
  BY <1>1 DEF NewCall, Call, AllTools, Phases

LEMMA TargetTypes ==
    ASSUME TypeOK, NEW c \in Calls, NEW t \in Targets(c)
    PROVE  t.kind \in {"button", "field"}
           /\ (t.name \in Names \/ (call[c].tool \notin KeyTools /\ t.name = call[c].name))
<1>1. call[c] \in Call
  BY DEF TypeOK
<1>2. CASE call[c].tool \in KeyTools
  <2>1. t \in Focused
    BY <1>2 DEF Targets
  <2>2. \A n \in focus : n \in Nodes /\ role[n] \in {"button", "field"}
                        /\ (page[n] # Gone => page[n] \in Names)
    BY DEF TypeOK
  <2> QED
    BY <2>1, <2>2 DEF Focused
<1>3. CASE call[c].tool \notin KeyTools
  BY <1>1, <1>3 DEF Targets, TypeOK, Call
<1> QED
  BY <1>2, <1>3

LEMMA InitIInv == Init => IInv
<1> SUFFICES ASSUME Init PROVE IInv
  OBVIOUS
<1>1. \A c \in Calls : call[c] = NewCall
  BY DEF Init
<1>2. TypeOK
  <2>1. /\ lock \in 0..MaxCalls /\ turn \in 0..MaxCalls
        /\ dialog \in 0..MaxCalls /\ changes \in 0..MaxChanges
    BY ScreenAssumption DEF Init
  <2>2. call \in [Calls -> Call]
    BY NewCallType DEF Init
  <2>3. /\ role \in [Nodes -> {"button", "field"}]
        /\ page \in [Nodes -> Names \cup {Gone}]
        /\ elements \in [Nodes -> Names \cup {Gone}]
        /\ focus \in SUBSET Nodes /\ rpc \in SUBSET Calls
    BY DEF Init
  <2>4. \A c \in Calls : lock = c <=> call[c].phase \in {"acting", "settling"}
    BY <1>1, CallsType DEF Init, NewCall
  <2> QED
    BY <2>1, <2>2, <2>3, <2>4 DEF TypeOK
<1>3. CallInv
  <2> SUFFICES ASSUME NEW c \in Calls
               PROVE  Progress(c) /\ Request(c) /\ LetThrough(c)
    BY DEF CallInv
  <2>1. /\ call[c].phase = "new" /\ call[c].acted = 0 /\ call[c].verdict = "none"
        /\ call[c].shown = Gone /\ ~call[c].confirmed
        /\ c \notin rpc /\ dialog # c
    BY <1>1, CallsType DEF Init, NewCall
  <2> QED
    BY <2>1 DEF Progress, Request, LetThrough, Unasked
<1> QED
  BY <1>2, <1>3 DEF IInv

-----------------------------------------------------------------------------
(* One call changes. *)

\* What a step of Consent may do with the call c, every other call left alone.
Moves(c) ==
    /\ \A d \in Calls \ {c} : Consenting(d)' = Consenting(d)
    /\ \/ Consenting(c)' = Consenting(c)
       \/ Consenting(c) = "free"
          /\ Consenting(c)' \in {"asked", "harmless", "closed"}
       \/ Consenting(c) = "asked" /\ Consenting(c)' \in {"approved", "closed"}
       \/ Consenting(c) = "approved"
          /\ Consenting(c)' \in {"harmless", "consented", "closed"}

PromiseStep == [Promise!Next]_([c \in Calls |-> Consenting(c)])

LEMMA MovesIsStep ==
    ASSUME NEW c \in Calls, Moves(c)
    PROVE  PromiseStep
<1> DEFINE m == [d \in Calls |-> Consenting(d)]
<1>1. m' = [m EXCEPT ![c] = Consenting(c)']
  BY DEF Moves
<1>2. m[c] = Consenting(c)
  OBVIOUS
<1>3. CASE Consenting(c)' = Consenting(c)
  <2>1. m' = m
    BY <1>1, <1>3
  <2> QED
    BY <2>1 DEF PromiseStep
<1>4. CASE Consenting(c)' # Consenting(c)
  <2>1. Promise!Ask(c) \/ Promise!Approve(c) \/ Promise!ActHarmlessly(c)
        \/ Promise!ActWithConsent(c) \/ Promise!Close(c)
    BY <1>1, <1>2, <1>4
       DEF Moves, Promise!Ask, Promise!Approve, Promise!ActHarmlessly,
           Promise!ActWithConsent, Promise!Close, Promise!Goes
  <2> QED
    BY <2>1 DEF Promise!Next, PromiseStep
<1> QED
  BY <1>3, <1>4

\* Everything but the record of c is left alone, except that requests to the
\* player may be taken away, and c's own may come or go.
Only(c) ==
    /\ \A d \in Calls \ {c} : call'[d] = call[d]
    /\ \A d \in Calls \ {c} : d \in rpc' => d \in rpc
    /\ \A d \in Calls \ {c} : dialog' = d => dialog = d

LEMMA OthersKeep ==
    ASSUME IInv, NEW c \in Calls, Only(c),
           Progress(c)', Request(c)', LetThrough(c)'
    PROVE  CallInv' /\ \A d \in Calls \ {c} : Consenting(d)' = Consenting(d)
<1>1. ASSUME NEW d \in Calls \ {c}
      PROVE  /\ Progress(d)' /\ Request(d)' /\ LetThrough(d)'
             /\ Consenting(d)' = Consenting(d)
  <2>1. Progress(d) /\ Request(d) /\ LetThrough(d)
    BY DEF IInv, CallInv
  <2>2. /\ call'[d] = call[d] /\ (d \in rpc' => d \in rpc)
        /\ (dialog' = d => dialog = d)
    BY DEF Only
  <2> QED
    BY <2>1, <2>2 DEF Progress, Request, LetThrough, Consenting, Unasked
<1> QED
  BY <1>1 DEF CallInv

\* The record of a call that changes in its phase alone.
LEMMA PhaseChanges ==
    ASSUME TypeOK, NEW c \in Calls, NEW p \in Phases,
           call' = [call EXCEPT ![c].phase = p]
    PROVE  /\ call' \in [Calls -> Call]
           /\ call'[c] = [call[c] EXCEPT !.phase = p]
           /\ call'[c].phase = p
           /\ \A d \in Calls \ {c} : call'[d] = call[d]
           /\ call'[c].acted = call[c].acted
           /\ call'[c].confirmed = call[c].confirmed
           /\ call'[c].verdict = call[c].verdict
           /\ call'[c].shown = call[c].shown
           /\ call'[c].seen = call[c].seen
           /\ call'[c].kind = call[c].kind
           /\ call'[c].tool = call[c].tool
<1>1. call \in [Calls -> Call] /\ call[c] \in Call
  BY DEF TypeOK
<1>2. [call[c] EXCEPT !.phase = p] \in Call
  BY <1>1 DEF Call
<1>3. call' = [call EXCEPT ![c] = [call[c] EXCEPT !.phase = p]]
  OBVIOUS
<1>4. call'[c] = [call[c] EXCEPT !.phase = p]
  BY <1>1, <1>3
<1> QED
  BY <1>1, <1>2, <1>3, <1>4 DEF Call

\* A call is over.
LEMMA Ending ==
    ASSUME IInv, NEW c \in Calls, UNCHANGED viewerVars,
           call' = [call EXCEPT ![c].phase = "over"]
    PROVE  CallInv' /\ Moves(c)
<1>1. /\ call'[c].phase = "over" /\ \A d \in Calls \ {c} : call'[d] = call[d]
      /\ call'[c].acted = call[c].acted
      /\ call'[c].confirmed = call[c].confirmed
      /\ call'[c].verdict = call[c].verdict
      /\ call'[c].shown = call[c].shown
      /\ call'[c].seen = call[c].seen
      /\ call'[c].kind = call[c].kind
      /\ call'[c].tool = call[c].tool
  BY PhaseChanges DEF IInv, Phases
<1>2. Progress(c) /\ Request(c) /\ LetThrough(c)
  BY DEF IInv, CallInv
<1>3. Progress(c)' /\ Request(c)' /\ LetThrough(c)' /\ Only(c)
  BY <1>1, <1>2 DEF Progress, Request, LetThrough, Unasked, Only, viewerVars
<1>4. CASE call[c].acted = 0
  <2>1. Consenting(c)' = "closed"
    BY <1>1, <1>4 DEF Consenting
  <2>2. Consenting(c) \in {"free", "asked", "approved", "closed"}
    BY <1>4 DEF Consenting
  <2> QED
    BY <1>3, <2>1, <2>2, OthersKeep DEF Moves
<1>5. CASE call[c].acted = 1
  <2>1. Consenting(c)' = Consenting(c)
    BY <1>1, <1>5 DEF Consenting
  <2> QED
    BY <1>3, <2>1, OthersKeep DEF Moves
<1> QED
  BY <1>2, <1>3, <1>4, <1>5, OthersKeep DEF Progress

\* A call that gets a new record.
LEMMA RecordChanges ==
    ASSUME TypeOK, NEW c \in Calls, NEW r \in Call,
           call' = [call EXCEPT ![c] = r]
    PROVE  /\ call' \in [Calls -> Call]
           /\ call'[c] = r
           /\ \A d \in Calls \ {c} : call'[d] = call[d]
BY DEF TypeOK

\* The parts of the state around the calls keep their types and the lock is with
\* the call that acts.
Around ==
    /\ role' \in [Nodes -> {"button", "field"}]
    /\ page' \in [Nodes -> Names \cup {Gone}]
    /\ focus' \in SUBSET Nodes
    /\ elements' \in [Nodes -> Names \cup {Gone}]
    /\ turn' \in 0..MaxCalls
    /\ rpc' \in SUBSET Calls
    /\ dialog' \in 0..MaxCalls
    /\ changes' \in 0..MaxChanges

LEMMA LockOfOne ==
    ASSUME TypeOK, NEW c \in Calls, Around,
           call' \in [Calls -> Call],
           \A d \in Calls \ {c} : call'[d] = call[d],
           \/ lock' = lock /\ (call'[c].phase \in {"acting", "settling"}
                                 <=> call[c].phase \in {"acting", "settling"})
           \/ lock = 0 /\ lock' = c /\ call'[c].phase \in {"acting", "settling"}
           \/ lock = c /\ lock' = 0 /\ call'[c].phase \notin {"acting", "settling"}
    PROVE  TypeOK'
<1>1. lock' \in 0..MaxCalls
  BY CallsType, ScreenAssumption DEF TypeOK
<1>2. ASSUME NEW d \in Calls
      PROVE  lock' = d <=> call'[d].phase \in {"acting", "settling"}
  <2>1. lock = d <=> call[d].phase \in {"acting", "settling"}
    BY DEF TypeOK
  <2>2. lock = c <=> call[c].phase \in {"acting", "settling"}
    BY DEF TypeOK
  <2>0. c # 0 /\ d # 0
    BY CallsType
  <2>3. CASE d = c
    BY <2>0, <2>2, <2>3
  <2>4. CASE d # c
    <3>1. call'[d] = call[d]
      BY <2>4
    <3>2. lock' = d <=> lock = d
      BY <2>0, <2>2, <2>4
    <3> QED
      BY <2>1, <3>1, <3>2
  <2> QED
    BY <2>3, <2>4
<1> QED
  BY <1>1, <1>2 DEF TypeOK, Around

LEMMA AroundSame ==
    ASSUME TypeOK, UNCHANGED browserVars, UNCHANGED viewerVars,
           elements' \in {elements, page}, turn' \in 0..MaxCalls
    PROVE  Around
BY DEF TypeOK, Around, browserVars, viewerVars

LEMMA FinishType ==
    ASSUME TypeOK, NEW c \in Calls, Finish(c) PROVE turn' \in 0..MaxCalls
BY ScreenAssumption DEF TypeOK, Finish

Good == IInv' /\ PromiseStep

\* The operator answers at the gate.
LEMMA GateEnds ==
    ASSUME IInv, NEW c \in Calls, Refused(c) \/ Looks(c) \/ GateBlocks(c)
    PROVE  Good
<1>1. /\ call[c].phase = "waiting" /\ UNCHANGED <<browserVars, lock, viewerVars>>
      /\ elements' \in {elements, page}
      /\ call' = [call EXCEPT ![c].phase = "over"]
      /\ Finish(c)
  BY DEF Refused, Looks, GateBlocks, Gated, Begins
<1>2. Around
  BY <1>1, AroundSame, FinishType DEF IInv
<1>3. CallInv' /\ Moves(c)
  BY <1>1, Ending
<1>4. call' \in [Calls -> Call] /\ call'[c].phase = "over"
      /\ \A d \in Calls \ {c} : call'[d] = call[d]
  BY <1>1, PhaseChanges DEF IInv, Phases
<1>5. TypeOK'
  BY <1>1, <1>2, <1>4, LockOfOne DEF IInv
<1> QED
  BY <1>3, <1>5, MovesIsStep DEF Good, IInv

\* The call fails, or ends with the snapshot of the page it changed.
LEMMA ActEnds ==
    ASSUME IInv, NEW c \in Calls, Settles(c) \/ Fails(c)
    PROVE  Good
<1>1. /\ call[c].phase \in {"acting", "settling"}
      /\ UNCHANGED <<browserVars, viewerVars>>
      /\ elements' \in {elements, page}
      /\ lock' = 0
      /\ call' = [call EXCEPT ![c].phase = "over"]
      /\ Finish(c)
  BY DEF Settles, Fails
<1>2. Around
  BY <1>1, AroundSame, FinishType DEF IInv
<1>3. CallInv' /\ Moves(c)
  BY <1>1, Ending
<1>4. call' \in [Calls -> Call] /\ call'[c].phase = "over"
      /\ \A d \in Calls \ {c} : call'[d] = call[d]
  BY <1>1, PhaseChanges DEF IInv, Phases
<1>5. lock = c
  BY <1>1 DEF IInv, TypeOK
<1>6. TypeOK'
  BY <1>1, <1>2, <1>4, <1>5, LockOfOne DEF IInv
<1> QED
  BY <1>3, <1>6, MovesIsStep DEF Good, IInv

\* The viewer is asked, if the brain still waits for the call.
LEMMA GateAsksGood ==
    ASSUME IInv, NEW c \in Calls, GateAsks(c)
    PROVE  Good
<1>1. TypeOK /\ call[c] \in Call /\ call[c].phase = "waiting" /\ ~call[c].confirmed
  BY DEF IInv, TypeOK, GateAsks, Gated, Begins
<1>2. Progress(c) /\ Request(c) /\ LetThrough(c)
  BY DEF IInv, CallInv
<1>3. CASE turn = c
  <2>1. PICK t \in Targets(c) :
           /\ call' = [call EXCEPT ![c].phase = "asking", ![c].shown = t.name]
           /\ rpc' = rpc \cup {c}
    BY <1>3 DEF GateAsks
  <2>2. t.name \in Names
    BY <1>1, TargetTypes DEF Call
  <2> DEFINE r == [call[c] EXCEPT !.phase = "asking", !.shown = t.name]
  <2>3. r \in Call
    BY <1>1, <2>2 DEF Call, Phases
  <2>4. call' = [call EXCEPT ![c] = r]
    BY <1>1, <2>1 DEF TypeOK, Call
  <2>5. /\ call' \in [Calls -> Call] /\ call'[c] = r
        /\ \A d \in Calls \ {c} : call'[d] = call[d]
    BY <1>1, <2>3, <2>4, RecordChanges
  <2>6. /\ r.phase = "asking" /\ r.shown = t.name /\ r.shown # Gone
        /\ r.acted = call[c].acted /\ r.confirmed = call[c].confirmed
        /\ r.verdict = call[c].verdict /\ r.tool = call[c].tool
        /\ r.kind = call[c].kind /\ r.seen = call[c].seen
    BY <1>1, <2>2, ScreenAssumption DEF Call
  <2>7. UNCHANGED <<browserVars, elements, lock, turn, dialog>>
    BY DEF GateAsks
  <2>8. Around
    BY <1>1, <2>1, <2>7 DEF Around, TypeOK, browserVars
  <2>9. TypeOK'
    BY <1>1, <2>5, <2>6, <2>7, <2>8, LockOfOne
  <2>10. Progress(c)' /\ Request(c)' /\ LetThrough(c)' /\ Only(c)
    BY <1>1, <1>2, <2>1, <2>5, <2>6, <2>7
       DEF Progress, Request, LetThrough, Unasked, Only
  <2>11. Consenting(c) = "free" /\ Consenting(c)' = "asked"
    BY <1>1, <1>2, <2>5, <2>6 DEF Consenting, Progress, Unasked
  <2>12. CallInv' /\ Moves(c)
    BY <2>10, <2>11, OthersKeep DEF Moves
  <2> QED
    BY <2>9, <2>12, MovesIsStep DEF Good, IInv
<1>4. CASE turn # c
  <2>1. /\ call' = [call EXCEPT ![c].phase = "over"]
        /\ UNCHANGED <<browserVars, elements, lock, turn, viewerVars>>
    BY <1>4 DEF GateAsks, viewerVars
  <2>2. Around
    BY <1>1, <2>1, AroundSame DEF TypeOK
  <2>3. CallInv' /\ Moves(c)
    BY <2>1, Ending
  <2>4. call' \in [Calls -> Call] /\ call'[c].phase = "over"
        /\ \A d \in Calls \ {c} : call'[d] = call[d]
    BY <1>1, <2>1, PhaseChanges DEF Phases
  <2>5. TypeOK'
    BY <1>1, <2>1, <2>2, <2>4, LockOfOne
  <2> QED
    BY <2>3, <2>5, MovesIsStep DEF Good, IInv
<1> QED
  BY <1>3, <1>4

\* The policy lets through only what is not blocked; a tool that no gate looks at
\* is never in the class confirm.
LEMMA Classes ==
    ASSUME NEW tool, NEW kind, NEW name
    PROVE  /\ tool \in GatedTools /\ name \in BlockedNames =>
                 Classify(tool, kind, name) = "blocked"
           /\ tool \in {"navigate", "select"} =>
                 tool \notin GatedTools /\ Classify(tool, kind, name) # "confirm"
BY DEF Classify, Submits, GatedTools, KeyTools, Watching

\* The call goes on to act.
LEMMA GatePassed ==
    ASSUME IInv, NEW c \in Calls, GatePasses(c) \/ Ungated(c)
    PROVE  Good
<1>1. TypeOK /\ call[c] \in Call /\ call[c].phase = "waiting" /\ lock = 0
  BY DEF IInv, TypeOK, GatePasses, Ungated, Gated, Begins
<1>2. Progress(c) /\ Request(c) /\ LetThrough(c)
  BY DEF IInv, CallInv
<1>3. PICK t \in Targets(c) :
        /\ call' = [call EXCEPT ![c].phase = "acting", ![c].seen = t.name,
                                ![c].kind = t.kind]
        /\ Classify(call[c].tool, t.kind, t.name) = "confirm" =>
              call[c].confirmed
        /\ call[c].tool \in GatedTools => t.name \notin BlockedNames
  <2>1. CASE GatePasses(c)
    BY <2>1, Classes DEF GatePasses
  <2>2. CASE Ungated(c)
    BY <2>2, Classes DEF Ungated
  <2> QED
    BY <2>1, <2>2
<1>4. t.name \in Names /\ t.kind \in {"button", "field"}
  BY <1>1, TargetTypes DEF Call
<1> DEFINE r == [call[c] EXCEPT !.phase = "acting", !.seen = t.name,
                                !.kind = t.kind]
<1>5. r \in Call
  BY <1>1, <1>4 DEF Call, Phases
<1>6. call' = [call EXCEPT ![c] = r]
  BY <1>1, <1>3 DEF TypeOK, Call
<1>7. /\ call' \in [Calls -> Call] /\ call'[c] = r
      /\ \A d \in Calls \ {c} : call'[d] = call[d]
  BY <1>1, <1>5, <1>6, RecordChanges
<1>8. /\ r.phase = "acting" /\ r.seen = t.name /\ r.kind = t.kind
      /\ r.shown = call[c].shown /\ r.tool = call[c].tool
      /\ r.acted = call[c].acted /\ r.confirmed = call[c].confirmed
      /\ r.verdict = call[c].verdict
  BY <1>1 DEF Call
<1>9. UNCHANGED <<browserVars, elements, turn, viewerVars>> /\ lock' = c
  BY DEF GatePasses, Ungated
<1>10. Around
  BY <1>1, <1>9, AroundSame DEF TypeOK
<1>11. TypeOK'
  BY <1>1, <1>7, <1>8, <1>9, <1>10, LockOfOne
<1>12. Progress(c)' /\ Request(c)' /\ LetThrough(c)' /\ Only(c)
  BY <1>1, <1>2, <1>3, <1>7, <1>8, <1>9
     DEF Progress, Request, LetThrough, Unasked, Only, viewerVars
<1>13. Consenting(c)' = Consenting(c)
  <2>1. call[c].acted = 0 /\ call'[c].acted = 0
    BY <1>1, <1>2, <1>7, <1>8 DEF Progress
  <2>2. /\ call[c].phase = "waiting" /\ call'[c].phase = "acting"
        /\ call'[c].verdict = call[c].verdict
        /\ call'[c].shown = call[c].shown
    BY <1>1, <1>7, <1>8
  <2> QED
    BY <2>1, <2>2 DEF Consenting
<1>14. CallInv' /\ Moves(c)
  BY <1>12, <1>13, OthersKeep DEF Moves
<1> QED
  BY <1>11, <1>14, MovesIsStep DEF Good, IInv

\* The page is acted on: what needs approval is confirmed, so approved.
LEMMA ActsGood ==
    ASSUME IInv, NEW c \in Calls, Acts(c)
    PROVE  Good
<1>1. TypeOK /\ call[c] \in Call /\ call[c].phase = "acting"
  BY DEF IInv, TypeOK, Acts
<1>2. Progress(c) /\ Request(c) /\ LetThrough(c) /\ call[c].acted = 0
  BY <1>1 DEF IInv, CallInv, Progress
<1> DEFINE r == [call[c] EXCEPT !.phase = "settling", !.acted = 1]
<1>5. r \in Call
  BY <1>1 DEF Call, Phases
<1>6. call' = [call EXCEPT ![c] = r]
  BY <1>1, <1>2 DEF Acts, TypeOK, Call
<1>7. /\ call' \in [Calls -> Call] /\ call'[c] = r
      /\ \A d \in Calls \ {c} : call'[d] = call[d]
  BY <1>1, <1>5, <1>6, RecordChanges
<1>8. /\ r.phase = "settling" /\ r.acted = 1
      /\ r.seen = call[c].seen /\ r.kind = call[c].kind
      /\ r.shown = call[c].shown /\ r.tool = call[c].tool
      /\ r.confirmed = call[c].confirmed /\ r.verdict = call[c].verdict
  BY <1>1 DEF Call
<1>9. /\ UNCHANGED <<role, changes, elements, lock, turn, viewerVars>>
      /\ page' \in [Nodes -> Names \cup {Gone}] /\ focus' \in SUBSET Nodes
  BY <1>1 DEF Acts, TypeOK
<1>10. Around
  BY <1>1, <1>9 DEF Around, TypeOK, viewerVars
<1>11. TypeOK'
  BY <1>1, <1>7, <1>8, <1>9, <1>10, LockOfOne
<1>12. Progress(c)' /\ Request(c)' /\ LetThrough(c)' /\ Only(c)
  BY <1>1, <1>2, <1>7, <1>8, <1>9
     DEF Progress, Request, LetThrough, Unasked, Only, viewerVars
<1>13. CallInv' /\ Moves(c)
  <2>1. \/ Consenting(c) = "approved" /\ Consenting(c)' = "consented"
        \/ Consenting(c) \in {"free", "approved"} /\ Consenting(c)' = "harmless"
    <3>1. CASE Classify(call[c].tool, call[c].kind, call[c].seen) = "confirm"
      <4>1. call[c].verdict = "approved"
        BY <1>1, <1>2, <3>1 DEF Progress, LetThrough
      <4>2. Consenting(c) = "approved"
        BY <1>1, <1>2, <4>1 DEF Consenting
      <4>3. Consenting(c)' = "consented"
        BY <1>7, <1>8, <3>1 DEF Consenting
      <4> QED
        BY <4>2, <4>3
    <3>2. CASE Classify(call[c].tool, call[c].kind, call[c].seen) # "confirm"
      <4>1. Consenting(c) \in {"free", "approved"}
        BY <1>1, <1>2 DEF Consenting, Progress, Unasked
      <4>2. Consenting(c)' = "harmless"
        BY <1>7, <1>8, <3>2 DEF Consenting
      <4> QED
        BY <4>1, <4>2
    <3> QED
      BY <3>1, <3>2
  <2> QED
    BY <1>12, <2>1, OthersKeep DEF Moves
<1> QED
  BY <1>11, <1>13, MovesIsStep DEF Good, IInv

-----------------------------------------------------------------------------
(* The brain and the viewer. *)

\* The brain is done with a call the viewer is asked about.
LEMMA AskingEnds ==
    ASSUME IInv, NEW c \in Calls, call[c].phase = "asking",
           UNCHANGED <<browserVars, elements, lock, viewerVars>>, turn' = 0,
           call' = [call EXCEPT ![c].phase = "over"]
    PROVE  Good
<1>1. Around
  BY AroundSame, ScreenAssumption DEF IInv
<1>2. CallInv' /\ Moves(c)
  BY Ending
<1>3. call' \in [Calls -> Call] /\ call'[c].phase = "over"
      /\ \A d \in Calls \ {c} : call'[d] = call[d]
  BY PhaseChanges DEF IInv, Phases
<1>4. TypeOK'
  BY <1>1, <1>3, LockOfOne DEF IInv
<1> QED
  BY <1>2, <1>4, MovesIsStep DEF Good, IInv

\* Nothing changes in the calls or around them that Consent could see.
LEMMA CallsSame ==
    ASSUME IInv, Around, UNCHANGED <<lock, call, viewerVars>>
    PROVE  Good
<1>1. TypeOK'
  BY DEF IInv, TypeOK, Around
<1>2. CallInv'
  BY DEF IInv, CallInv, Progress, Request, LetThrough, Unasked, viewerVars
<1>3. \A c \in Calls : Consenting(c)' = Consenting(c)
  BY DEF Consenting
<1>4. [c \in Calls |-> Consenting(c)]' = [c \in Calls |-> Consenting(c)]
  BY <1>3
<1> QED
  BY <1>1, <1>2, <1>4 DEF Good, IInv, PromiseStep

LEMMA BrainCallsGood ==
    ASSUME IInv, BrainCalls PROVE Good
<1>1. PICK tool \in Tools, node \in Nodes, name \in Names :
         Posts(tool, node, name)
  BY DEF BrainCalls
<1>2. PICK c \in Calls :
        /\ call[c].phase = "new" /\ turn' = c
        /\ call' = [call EXCEPT ![c].phase = "waiting", ![c].tool = tool,
                                ![c].node = node, ![c].name = name]
  BY <1>1 DEF Posts
<1>3. TypeOK /\ call[c] \in Call /\ tool \in AllTools
  BY ScreenAssumption DEF IInv, TypeOK
<1>4. Progress(c) /\ Request(c) /\ LetThrough(c)
  BY DEF IInv, CallInv
<1> DEFINE r == [call[c] EXCEPT !.phase = "waiting", !.tool = tool,
                                !.node = node, !.name = name]
<1>5. r \in Call
  BY <1>3 DEF Call, Phases
<1>6. call' = [call EXCEPT ![c] = r]
  BY <1>2, <1>3 DEF TypeOK, Call
<1>7. /\ call' \in [Calls -> Call] /\ call'[c] = r
      /\ \A d \in Calls \ {c} : call'[d] = call[d]
  BY <1>3, <1>5, <1>6, RecordChanges
<1>8. /\ call'[c].phase = "waiting" /\ call'[c].shown = call[c].shown
      /\ call'[c].acted = call[c].acted
      /\ call'[c].confirmed = call[c].confirmed
      /\ call'[c].verdict = call[c].verdict
  BY <1>3, <1>7 DEF Call
<1>9. UNCHANGED <<browserVars, elements, lock, viewerVars>>
  BY DEF BrainCalls
<1>10. Around
  BY <1>2, <1>3, <1>9, AroundSame, CallsType
<1>11. TypeOK'
  BY <1>2, <1>3, <1>7, <1>8, <1>9, <1>10, LockOfOne
<1>12. Progress(c)' /\ Request(c)' /\ LetThrough(c)' /\ Only(c)
  BY <1>2, <1>4, <1>7, <1>8, <1>9
     DEF Progress, Request, LetThrough, Unasked, Only, viewerVars
<1>13. Consenting(c)' = Consenting(c)
  <2>1. call[c].acted = 0 /\ call'[c].acted = 0
    BY <1>2, <1>4, <1>8 DEF Progress
  <2>2. /\ call[c].phase = "new" /\ call'[c].phase = "waiting"
        /\ call'[c].verdict = call[c].verdict
        /\ call'[c].shown = call[c].shown
    BY <1>2, <1>8
  <2> QED
    BY <2>1, <2>2 DEF Consenting
<1>14. CallInv' /\ Moves(c)
  BY <1>12, <1>13, OthersKeep DEF Moves
<1> QED
  BY <1>11, <1>14, MovesIsStep DEF Good, IInv

LEMMA AbandonGood ==
    ASSUME IInv, Abandon PROVE Good
<1>1. PICK c \in Calls :
        /\ c = turn /\ turn' = 0
        /\ UNCHANGED <<browserVars, elements, lock, viewerVars>>
  BY CallsType DEF Abandon, IInv, TypeOK
<1>2. CASE call[c].phase = "asking"
  BY <1>1, <1>2, AskingEnds DEF Abandon
<1>3. CASE call[c].phase # "asking"
  <2>1. call' = call
    BY <1>1, <1>3 DEF Abandon
  <2>2. Around
    BY <1>1, AroundSame, ScreenAssumption DEF IInv
  <2> QED
    BY <1>1, <2>1, <2>2, CallsSame
<1> QED
  BY <1>2, <1>3

\* The record of a call that gets its verdict.
LEMMA VerdictChanges ==
    ASSUME TypeOK, NEW c \in Calls, NEW v \in {"approved", "declined"},
           call' = [call EXCEPT ![c].verdict = v]
    PROVE  /\ call' \in [Calls -> Call]
           /\ \A d \in Calls \ {c} : call'[d] = call[d]
           /\ call'[c].verdict = v
           /\ call'[c].phase = call[c].phase
           /\ call'[c].acted = call[c].acted
           /\ call'[c].confirmed = call[c].confirmed
           /\ call'[c].shown = call[c].shown
           /\ call'[c].seen = call[c].seen
           /\ call'[c].kind = call[c].kind
           /\ call'[c].tool = call[c].tool
<1>1. call \in [Calls -> Call] /\ call[c] \in Call
  BY DEF TypeOK
<1> DEFINE r == [call[c] EXCEPT !.verdict = v]
<1>2. r \in Call
  BY <1>1 DEF Call
<1>3. call' = [call EXCEPT ![c] = r]
  OBVIOUS
<1>4. call'[c] = r
  BY <1>1, <1>3
<1> QED
  BY <1>1, <1>2, <1>3, <1>4 DEF Call

\* What the invariant says of a call whose request is answered now.
LEMMA Answered ==
    ASSUME IInv, NEW c \in Calls, c \in rpc \/ dialog = c,
           NEW v \in {"approved", "declined"},
           call' = [call EXCEPT ![c].verdict = v],
           c \notin rpc', dialog' # c
    PROVE  /\ Progress(c)' /\ Request(c)' /\ LetThrough(c)'
           /\ \/ Consenting(c)' = Consenting(c)
              \/ Consenting(c) = "asked" /\ Consenting(c)' = "approved"
<1>1. /\ call'[c].verdict = v
      /\ call'[c].phase = call[c].phase
      /\ call'[c].acted = call[c].acted
      /\ call'[c].confirmed = call[c].confirmed
      /\ call'[c].shown = call[c].shown
      /\ call'[c].seen = call[c].seen
      /\ call'[c].kind = call[c].kind
      /\ call'[c].tool = call[c].tool
  BY VerdictChanges DEF IInv
<1>2. Progress(c) /\ Request(c) /\ LetThrough(c)
  BY DEF IInv, CallInv
<1>3. call[c].shown # Gone /\ call[c].verdict = "none" /\ ~call[c].confirmed
  BY <1>2 DEF Request, Progress
<1>4. Progress(c)' /\ Request(c)' /\ LetThrough(c)'
  BY <1>1, <1>2, <1>3 DEF Progress, Request, LetThrough, Unasked
<1>5. CASE call[c].acted = 0 /\ call[c].phase # "over" /\ v = "approved"
  <2>1. Consenting(c) = "asked" /\ Consenting(c)' = "approved"
    BY <1>1, <1>3, <1>5 DEF Consenting
  <2> QED
    BY <1>4, <2>1
<1>6. CASE ~(call[c].acted = 0 /\ call[c].phase # "over" /\ v = "approved")
  <2>1. Consenting(c)' = Consenting(c)
    BY <1>1, <1>3, <1>6 DEF Consenting
  <2> QED
    BY <1>4, <2>1
<1> QED
  BY <1>5, <1>6

LEMMA VerdictGood ==
    ASSUME IInv, NEW c \in Calls, c \in rpc \/ dialog = c,
           NEW v \in {"approved", "declined"},
           call' = [call EXCEPT ![c].verdict = v],
           rpc' \in {rpc, rpc \ {c}}, c \notin rpc',
           dialog' \in {0, dialog}, dialog' # c,
           UNCHANGED <<browserVars, elements, lock, turn>>
    PROVE  Good
<1>1. /\ call' \in [Calls -> Call]
      /\ \A d \in Calls \ {c} : call'[d] = call[d]
      /\ call'[c].phase = call[c].phase
  BY VerdictChanges DEF IInv
<1>2. Around
  BY ScreenAssumption DEF IInv, TypeOK, Around, browserVars
<1>3. TypeOK'
  BY <1>1, <1>2, LockOfOne DEF IInv
<1>4. Only(c)
  BY <1>1, CallsType DEF Only
<1>5. CallInv' /\ Moves(c)
  BY <1>4, Answered, OthersKeep DEF Moves
<1> QED
  BY <1>3, <1>5, MovesIsStep DEF Good, IInv

LEMMA ViewerGood ==
    ASSUME IInv, ViewerAnswers \/ DialogTimesOut PROVE Good
<1>1. PICK c \in Calls : c = dialog
  BY CallsType DEF ViewerAnswers, DialogTimesOut, IInv, TypeOK
<1>2. PICK v \in {"approved", "declined"} :
        call' = [call EXCEPT ![c].verdict = v]
  BY <1>1 DEF ViewerAnswers, DialogTimesOut
<1>3. /\ dialog' = 0 /\ rpc' = rpc
      /\ UNCHANGED <<browserVars, elements, lock, turn>>
  BY DEF ViewerAnswers, DialogTimesOut
<1>4. c \notin rpc' /\ dialog' # c
  BY <1>1, <1>3, CallsType DEF IInv, CallInv, Request
<1> QED
  BY <1>1, <1>2, <1>3, <1>4, VerdictGood

LEMMA PlayerNotLiveGood ==
    ASSUME IInv, NEW c \in Calls, PlayerNotLive(c) PROVE Good
<1>1. /\ c \in rpc /\ rpc' = rpc \ {c} /\ dialog' = dialog
      /\ call' = [call EXCEPT ![c].verdict = "declined"]
      /\ UNCHANGED <<browserVars, elements, lock, turn>>
  BY DEF PlayerNotLive
<1>2. dialog # c
  BY <1>1 DEF IInv, CallInv, Request
<1> QED
  BY <1>1, <1>2, VerdictGood

LEMMA DialogOpensGood ==
    ASSUME IInv, NEW c \in Calls, DialogOpens(c) PROVE Good
<1>1. /\ c \in rpc /\ rpc' = rpc \ {c} /\ dialog' = c
      /\ UNCHANGED <<browserVars, elements, lock, turn>>
  BY DEF DialogOpens
<1>2. TypeOK /\ dialog # c /\ Progress(c) /\ Request(c) /\ LetThrough(c)
  BY <1>1 DEF IInv, CallInv, Request
<1>3. Around
  BY <1>1, <1>2, CallsType DEF Around, TypeOK, browserVars
<1>4. CASE dialog = 0
  <2>1. call' = call
    BY <1>4 DEF DialogOpens
  <2>2. TypeOK'
    BY <1>1, <1>2, <1>3, <2>1 DEF TypeOK, Around
  <2>3. Progress(c)' /\ Request(c)' /\ LetThrough(c)' /\ Only(c)
    BY <1>1, <1>2, <2>1 DEF Progress, Request, LetThrough, Unasked, Only
  <2>4. CallInv' /\ Moves(c)
    BY <2>1, <2>3, OthersKeep DEF Moves, Consenting
  <2> QED
    BY <2>2, <2>4, MovesIsStep DEF Good, IInv
<1>5. CASE dialog # 0
  <2>0. PICK d \in Calls : d = dialog
    BY <1>5, CallsType DEF IInv, TypeOK
  <2>1. d # c /\ d \notin rpc'
    BY <1>1, <1>2, <2>0 DEF IInv, CallInv, Request
  <2>2. call' = [call EXCEPT ![d].verdict = "declined"]
    BY <1>5, <2>0 DEF DialogOpens
  <2>3. /\ call' \in [Calls -> Call]
        /\ \A e \in Calls \ {d} : call'[e] = call[e]
        /\ call'[d].phase = call[d].phase
        /\ call'[d].verdict = "declined"
    BY <1>2, <2>1, <2>2, VerdictChanges
  <2>4. TypeOK'
    BY <1>1, <1>2, <1>3, <2>1, <2>3, LockOfOne
  <2>5. /\ Progress(d)' /\ Request(d)' /\ LetThrough(d)'
        /\ Consenting(d)' = Consenting(d)
    <3>1. dialog' # d
      BY <1>1, <2>1
    <3>2. /\ Progress(d)' /\ Request(d)' /\ LetThrough(d)'
          /\ \/ Consenting(d)' = Consenting(d)
             \/ Consenting(d) = "asked" /\ Consenting(d)' = "approved"
      BY <2>0, <2>1, <2>2, <3>1, Answered
    <3>3. Consenting(d)' # "approved"
      BY <2>3 DEF Consenting
    <3> QED
      BY <3>2, <3>3
  <2>6. ASSUME NEW e \in Calls \ {d}
        PROVE  /\ Progress(e)' /\ Request(e)' /\ LetThrough(e)'
               /\ Consenting(e)' = Consenting(e)
    <3>1. call'[e] = call[e] /\ dialog # e
      BY <2>0, <2>3
    <3>2. e \in rpc' \/ dialog' = e => e \in rpc
      BY <1>1
    <3>3. ~(e \in rpc' /\ dialog' = e)
      BY <1>1
    <3>4. Progress(e) /\ Request(e) /\ LetThrough(e)
      BY DEF IInv, CallInv
    <3> QED
      BY <3>1, <3>2, <3>3, <3>4
         DEF Progress, Request, LetThrough, Unasked, Consenting
  <2>7. CallInv'
    BY <2>5, <2>6 DEF CallInv
  <2>8. Moves(c)
    BY <2>1, <2>5, <2>6 DEF Moves
  <2> QED
    BY <2>4, <2>7, <2>8, MovesIsStep DEF Good, IInv
<1> QED
  BY <1>4, <1>5

LEMMA AnswerArrivesGood ==
    ASSUME IInv, NEW c \in Calls, AnswerArrives(c) PROVE Good
<1>1. /\ call[c].phase = "asking" /\ turn = c
      /\ UNCHANGED <<browserVars, elements, lock, viewerVars>>
  BY DEF AnswerArrives, Asking
<1>2. CASE call[c].verdict # "approved"
  BY <1>1, <1>2, AskingEnds DEF AnswerArrives
<1>3. CASE call[c].verdict = "approved"
  <2>1. /\ turn' = turn
        /\ call' = [call EXCEPT ![c].phase = "waiting", ![c].confirmed = TRUE]
    BY <1>3 DEF AnswerArrives
  <2>2. TypeOK /\ call[c] \in Call /\ Progress(c) /\ Request(c) /\ LetThrough(c)
    BY DEF IInv, CallInv, TypeOK
  <2> DEFINE r == [call[c] EXCEPT !.phase = "waiting", !.confirmed = TRUE]
  <2>3. r \in Call
    BY <2>2 DEF Call, Phases
  <2>4. call' = [call EXCEPT ![c] = r]
    BY <2>1, <2>2 DEF TypeOK, Call
  <2>5. /\ call' \in [Calls -> Call] /\ call'[c] = r
        /\ \A d \in Calls \ {c} : call'[d] = call[d]
    BY <2>2, <2>3, <2>4, RecordChanges
  <2>6. /\ call'[c].phase = "waiting" /\ call'[c].confirmed
        /\ call'[c].shown = call[c].shown /\ call'[c].acted = call[c].acted
        /\ call'[c].verdict = call[c].verdict
        /\ call'[c].tool = call[c].tool /\ call'[c].seen = call[c].seen
    BY <2>2, <2>5 DEF Call
  <2>7. Around
    BY <1>1, <2>1, <2>2, AroundSame DEF TypeOK
  <2>8. TypeOK'
    BY <1>1, <2>2, <2>5, <2>6, <2>7, LockOfOne
  <2>9. Progress(c)' /\ Request(c)' /\ LetThrough(c)' /\ Only(c)
    BY <1>1, <1>3, <2>2, <2>5, <2>6
       DEF Progress, Request, LetThrough, Unasked, Only, viewerVars
  <2>10. Consenting(c)' = Consenting(c)
    <3>1. call[c].acted = 0 /\ call'[c].acted = 0
      BY <1>1, <2>2, <2>6 DEF Progress
    <3> QED
      BY <1>1, <1>3, <2>6, <3>1 DEF Consenting
  <2>11. CallInv' /\ Moves(c)
    BY <2>9, <2>10, OthersKeep DEF Moves
  <2> QED
    BY <2>8, <2>11, MovesIsStep DEF Good, IInv
<1> QED
  BY <1>2, <1>3

LEMMA StepGood == IInv /\ [Next]_vars => Good
<1> SUFFICES ASSUME IInv, [Next]_vars PROVE Good
  OBVIOUS
<1>1. CASE UNCHANGED vars
  <2>1. Around
    BY <1>1 DEF vars, Around, IInv, TypeOK
  <2> QED
    BY <1>1, <2>1, CallsSame DEF vars, viewerVars
<1>2. CASE PageChanges
  <2>1. page' \in [Nodes -> Names \cup {Gone}] /\ focus' \in SUBSET Nodes
    BY <1>2 DEF PageChanges, IInv, TypeOK
  <2>2. changes' \in 0..MaxChanges
    BY <1>2, ScreenAssumption DEF PageChanges, IInv, TypeOK
  <2>3. Around
    BY <1>2, <2>1, <2>2 DEF PageChanges, Around, IInv, TypeOK
  <2> QED
    BY <1>2, <2>3, CallsSame DEF PageChanges, viewerVars
<1>3. CASE Point
  <2>1. Around
    BY <1>3, AroundSame DEF Point, IInv, TypeOK
  <2> QED
    BY <1>3, <2>1, CallsSame DEF Point
<1>4. ASSUME NEW c \in Calls, Operates(c) PROVE Good
  BY <1>4, GateEnds, GateAsksGood, GatePassed, ActsGood, ActEnds DEF Operates
<1>5. ASSUME NEW c \in Calls, RpcFails(c) PROVE Good
  BY <1>5, AskingEnds DEF RpcFails, Asking
<1> QED
  BY <1>1, <1>2, <1>3, <1>4, <1>5, BrainCallsGood, AbandonGood, ViewerGood,
     DialogOpensGood, PlayerNotLiveGood, AnswerArrivesGood DEF Next

-----------------------------------------------------------------------------

LEMMA Invariance == Spec => []IInv
<1>1. IInv /\ [Next]_vars => IInv'
  BY StepGood DEF Good
<1> QED
  BY InitIInv, <1>1, PTL DEF Spec

\* The state of the operator, the brain and the player is well typed, and the
\* sandbox's lock is held by exactly the call that is acting.
THEOREM TypeCorrect == Spec => []TypeOK
<1>1. IInv => TypeOK
  BY DEF IInv
<1> QED
  BY Invariance, <1>1, PTL

\* What is known of the elements that gated calls are about to act on: the lock
\* keeps the snapshot they were judged by until they have acted.
KnownInv ==
    \A c \in Calls :
        call[c].phase = "acting" /\ call[c].tool \in GatedTools \cap RefTools =>
            elements[call[c].node] \notin BlockedNames

\* The gate lets no gated call on a blocked element of the last snapshot through.
LEMMA GateKnows ==
    ASSUME TypeOK, NEW c \in Calls, GatePasses(c),
           call[c].tool \in GatedTools \cap RefTools
    PROVE  elements[call[c].node] \notin BlockedNames
<1>1. call[c].tool \notin KeyTools /\ call[c].tool \notin Watching
  BY DEF GatedTools, RefTools, KeyTools, Watching
<1>2. elements[call[c].node] = call[c].name
  BY DEF GatePasses, Gated, KnownRef
<1>3. PICK t \in Targets(c) :
         Classify(call[c].tool, t.kind, t.name) \in {"allowed", "confirm"}
  BY DEF GatePasses
<1>4. t.name = call[c].name
  BY <1>1, <1>3 DEF Targets
<1>5. t.name \notin BlockedNames
  BY <1>1, <1>3 DEF Classify
<1> QED
  BY <1>2, <1>4, <1>5

\* A snapshot is taken while the lock is free or held by a call that has acted.
LEMMA SnapshotsWait ==
    ASSUME TypeOK, Next, elements' # elements, NEW c \in Calls
    PROVE  call[c].phase # "acting"
<1>1. CASE Point \/ \E d \in Calls : Looks(d)
  <2>1. lock = 0
    BY <1>1 DEF Point, Looks, Begins
  <2>2. c # 0
    BY CallsType
  <2> QED
    BY <2>1, <2>2 DEF TypeOK
<1>2. ASSUME NEW d \in Calls, Settles(d) PROVE call[c].phase # "acting"
  <2>1. call[d].phase = "settling" /\ lock = d
    BY <1>2 DEF Settles, TypeOK
  <2> QED
    BY <2>1 DEF TypeOK
<1> QED
  BY <1>1, <1>2
     DEF Next, PageChanges, BrainCalls, Abandon, ViewerAnswers, DialogTimesOut,
         Operates, Refused, GateBlocks, GateAsks, GatePasses, Ungated, Acts,
         Fails, DialogOpens, PlayerNotLive, AnswerArrives, RpcFails

\* The operator lets a call in: what it was called with stays, and it has not acted.
LEMMA LetIn ==
    ASSUME TypeOK, NEW d \in Calls, GatePasses(d) \/ Ungated(d), NEW c \in Calls
    PROVE  /\ call'[c].tool = call[c].tool /\ call'[c].node = call[c].node
           /\ call'[c].acted = call[c].acted
           /\ c # d => call'[c] = call[c]
<1>1. PICK t \in Targets(d) :
         call' = [call EXCEPT ![d].phase = "acting", ![d].seen = t.name,
                              ![d].kind = t.kind]
  BY DEF GatePasses, Ungated
<1>2. call \in [Calls -> Call] /\ call[c] \in Call
  BY DEF TypeOK
<1>3. CASE c = d
  BY <1>1, <1>2, <1>3 DEF Call
<1>4. CASE c # d
  BY <1>1, <1>2, <1>4
<1> QED
  BY <1>3, <1>4

\* A call that acts was acting before, or has just passed the gate, or needed none.
LEMMA ActingBegins ==
    ASSUME TypeOK, Next, NEW c \in Calls, call'[c].phase = "acting"
    PROVE  /\ call'[c].tool = call[c].tool /\ call'[c].node = call[c].node
           /\ \/ call[c].phase = "acting"
              \/ GatePasses(c)
              \/ call[c].tool \notin GatedTools
<1> USE DEF TypeOK, Call
<1>1. CASE PageChanges \/ Point
  BY <1>1 DEF PageChanges, Point
<1>2. CASE BrainCalls
  BY <1>2 DEF BrainCalls, Posts
<1>3. CASE Abandon
  BY <1>3 DEF Abandon
<1>4. CASE ViewerAnswers \/ DialogTimesOut
  BY <1>4 DEF ViewerAnswers, DialogTimesOut
<1>5. ASSUME NEW d \in Calls, Refused(d) \/ Looks(d) \/ GateBlocks(d)
                              \/ GateAsks(d) \/ Settles(d) \/ Fails(d) \/ Acts(d)
      PROVE  /\ call'[c].tool = call[c].tool /\ call'[c].node = call[c].node
             /\ call[c].phase = "acting"
  BY <1>5 DEF Refused, Looks, GateBlocks, GateAsks, Settles, Fails, Acts
<1>6. ASSUME NEW d \in Calls, GatePasses(d)
      PROVE  /\ call'[c].tool = call[c].tool /\ call'[c].node = call[c].node
             /\ call[c].phase = "acting" \/ GatePasses(c)
  <2>1. CASE c = d
    BY <1>6, <2>1, LetIn
  <2>2. CASE c # d
    BY <1>6, <2>2, LetIn
  <2> QED
    BY <2>1, <2>2
<1>7. ASSUME NEW d \in Calls, Ungated(d)
      PROVE  /\ call'[c].tool = call[c].tool /\ call'[c].node = call[c].node
             /\ call[c].phase = "acting" \/ call[c].tool \notin GatedTools
  <2>1. call[d].tool \notin GatedTools
    BY <1>7 DEF Ungated, GatedTools, KeyTools
  <2> QED
    BY <1>7, <2>1, LetIn
<1>8. ASSUME NEW d \in Calls, DialogOpens(d) \/ PlayerNotLive(d)
                              \/ AnswerArrives(d) \/ RpcFails(d)
      PROVE  /\ call'[c].tool = call[c].tool /\ call'[c].node = call[c].node
             /\ call[c].phase = "acting"
  BY <1>8 DEF DialogOpens, PlayerNotLive, AnswerArrives, RpcFails
<1> QED
  BY <1>1, <1>2, <1>3, <1>4, <1>5, <1>6, <1>7, <1>8 DEF Next, Operates

LEMMA KnownStep == TypeOK /\ KnownInv /\ [Next]_vars => KnownInv'
<1> SUFFICES ASSUME TypeOK, KnownInv, [Next]_vars, NEW c \in Calls,
                    call'[c].phase = "acting",
                    call'[c].tool \in GatedTools \cap RefTools
             PROVE  elements'[call'[c].node] \notin BlockedNames
  BY DEF KnownInv
<1>1. CASE UNCHANGED vars
  BY <1>1 DEF vars, KnownInv
<1>2. CASE Next
  <2>1. /\ call'[c].tool = call[c].tool /\ call'[c].node = call[c].node
        /\ call[c].phase = "acting" \/ GatePasses(c)
    BY <1>2, ActingBegins
  <2>2. elements[call[c].node] \notin BlockedNames
    BY <2>1, GateKnows DEF KnownInv
  <2>3. elements' = elements
    BY <1>2, <2>1, SnapshotsWait DEF GatePasses
  <2> QED
    BY <2>1, <2>2, <2>3
<1> QED
  BY <1>1, <1>2

\* Only an acting call acts.
LEMMA ActsAct ==
    ASSUME TypeOK, Next, NEW c \in Calls, call'[c].acted > call[c].acted
    PROVE  call[c].phase = "acting"
<1> USE DEF TypeOK, Call
<1>0. call[c].acted \in Nat /\ ~(call[c].acted > call[c].acted)
  OBVIOUS
<1>1. ASSUME NEW d \in Calls, Acts(d) PROVE call[c].phase = "acting"
  <2>1. CASE c = d
    BY <1>1, <2>1 DEF Acts
  <2>2. CASE c # d
    BY <1>0, <1>1, <2>2 DEF Acts
  <2> QED
    BY <2>1, <2>2
<1>2. CASE PageChanges \/ Point
  BY <1>0, <1>2 DEF PageChanges, Point
<1>3. CASE BrainCalls
  BY <1>0, <1>3 DEF BrainCalls, Posts
<1>4. CASE Abandon
  BY <1>0, <1>4 DEF Abandon
<1>5. CASE ViewerAnswers \/ DialogTimesOut
  BY <1>0, <1>5 DEF ViewerAnswers, DialogTimesOut
<1>6. ASSUME NEW d \in Calls,
             \/ Refused(d) \/ Looks(d) \/ GateBlocks(d) \/ GateAsks(d)
             \/ Settles(d) \/ Fails(d)
      PROVE  FALSE
  BY <1>0, <1>6 DEF Refused, Looks, GateBlocks, GateAsks, Settles, Fails
<1>7. ASSUME NEW d \in Calls, DialogOpens(d) \/ PlayerNotLive(d)
                              \/ AnswerArrives(d) \/ RpcFails(d)
      PROVE  FALSE
  BY <1>0, <1>7 DEF DialogOpens, PlayerNotLive, AnswerArrives, RpcFails
<1>8. ASSUME NEW d \in Calls, GatePasses(d) \/ Ungated(d) PROVE FALSE
  BY <1>0, <1>8, LetIn
<1> QED
  BY <1>1, <1>2, <1>3, <1>4, <1>5, <1>6, <1>7, <1>8 DEF Next, Operates

\* Whatever the page, the pattern lists, the overrides, the viewer's answers and
\* the other calls do, a gated call on a ref never acts on an element that the
\* sandbox's last snapshot shows as blocked.
THEOREM BlockedCorrect == Spec => KnownBlockedStays
<1> DEFINE Step == \A c \in Calls :
                      /\ call'[c].acted > call[c].acted
                      /\ call[c].tool \in GatedTools \cap RefTools
                      => elements[call[c].node] \notin BlockedNames
<1>1. TypeOK /\ KnownInv /\ [Next]_vars => [Step]_vars
  BY ActsAct DEF KnownInv
<1>2. Init => KnownInv
  BY DEF Init, KnownInv, NewCall
<1>3. Spec => []KnownInv
  BY <1>2, KnownStep, TypeCorrect, PTL DEF Spec
<1> QED
  BY <1>1, <1>3, TypeCorrect, PTL DEF Spec, KnownBlockedStays

\* The code's protocol (gate, confirm request, dialog, re-run) implements the
\* promise made to the viewer, for any number of calls, interruptions, lost or
\* late answers.
THEOREM ImplementsConsent == Spec => KeepsPromise
<1>1. Init => Promise!Init
  <2> SUFFICES ASSUME Init, NEW c \in Calls PROVE Consenting(c) = "free"
    BY DEF Promise!Init
  <2>1. call[c] = NewCall
    BY DEF Init
  <2> QED
    BY <2>1 DEF Consenting, NewCall
<1>2. IInv /\ [Next]_vars => [Promise!Next]_([c \in Calls |-> Consenting(c)])
  BY StepGood DEF Good, PromiseStep
<1> QED
  BY Invariance, <1>1, <1>2, PTL DEF Spec, KeepsPromise, Promise!Spec
=============================================================================
