---------------------------- MODULE PlayerProofs ----------------------------
(***************************************************************************)
(* Theorems about Player, for any number of absences and confirm requests, *)
(* and about Captions, for any number of streams and lines: it implements  *)
(* Player, and what was said before an answer stands.                      *)
(***************************************************************************)
EXTENDS Captions, SequenceTheorems, WellFoundedInduction, TLAPS

\* The inductive invariant: the last two conjuncts need each other, since the
\* end of a call settles only the request that the resolver stands for.
IInv == TypeOK /\ OneRequest /\ NothingAskedAfterEnd

LEMMA InitIInv == Init => IInv
  <1>. SUFFICES ASSUME Init PROVE IInv
    OBVIOUS
  <1>1. absences \in 0..MaxAbsences /\ asked \in 0..MaxRequests
        /\ resolver \in 0..MaxRequests /\ confirm \in 0..MaxRequests
    BY PlayerAssumption DEF Init
  <1>2. TypeOK
    BY <1>1 DEF Init, TypeOK
  <1>. QED
    BY <1>2 DEF Init, IInv, OneRequest, NothingAskedAfterEnd, Final

\* Declining the open request leaves none open.
LEMMA Declined ==
    ASSUME IInv, DeclineOpen
    PROVE  open' = {} /\ resolver' = 0 /\ (~disposed => confirm' = 0)
  BY DEF IInv, OneRequest, DeclineOpen

\* The end of a call, or of its view, keeps the invariant about requests.
Reasons == {"agent_left", "status", "closed", "viewer_ended"}

\* What a step does to the call that may end it.
MayEnd ==
    \/ UNCHANGED <<callVars, confirmVars>>
    \/ Fail
    \/ \E why \in Reasons : Finish(why)

LEMMA EndGood ==
    ASSUME IInv, NEW why \in Reasons, Finish(why) \/ Fail,
           UNCHANGED <<disposed, asked>>
    PROVE  /\ phase' \in Final \/ UNCHANGED callVars
           /\ open' \in SUBSET (1..MaxRequests)
           /\ resolver' \in 0..MaxRequests /\ confirm' \in 0..MaxRequests
           /\ phase' \in {"connecting", "waiting_agent", "live"} \cup Final
           /\ endReason' \in {"none"} \cup Reasons
           /\ OneRequest' /\ NothingAskedAfterEnd'
  <1>1. CASE phase \in Final
    BY <1>1 DEF Finish, Fail, callVars, confirmVars, IInv, TypeOK, OneRequest,
                NothingAskedAfterEnd, Reasons
  <1>2. CASE phase \notin Final
    <2>1. DeclineOpen
      BY <1>2 DEF Finish, Fail
    <2>2. open' = {} /\ resolver' = 0 /\ (~disposed => confirm' = 0)
      BY <2>1, Declined
    <2>3. confirm' \in {0, confirm}
      BY <2>1 DEF DeclineOpen
    <2>. QED
      BY <1>2, <2>2, <2>3, PlayerAssumption
         DEF Finish, Fail, callVars, IInv, TypeOK, OneRequest,
             NothingAskedAfterEnd, Final, Reasons
  <1>. QED
    BY <1>1, <1>2

\* A request that is settled, by an answer or by its timer.
LEMMA SettleGood ==
    ASSUME IInv, NEW r \in open, Settle(r)
    PROVE  IInv'
  <1>. USE PlayerAssumption
       DEF IInv, Settle, callVars, roomVars, timerVars
  <1>1. TypeOK'
    BY DEF TypeOK
  <1>2. OneRequest' /\ NothingAskedAfterEnd'
    BY DEF OneRequest, NothingAskedAfterEnd
  <1>. QED
    BY <1>1, <1>2

\* A step that may end the call keeps the invariant, whatever else it does to the
\* room and the timers.
LEMMA MayEndGood ==
    ASSUME IInv, MayEnd, UNCHANGED <<asked, disposed, absences>>,
           room' \in {"connecting", "aborted", "joined", "left"},
           step' \in {"connect", "audio", "mic", "returned"},
           known' \in BOOLEAN, agentIdentity' \in BOOLEAN,
           grace' \in SUBSET (1..MaxAbsences), joinTimer' \in BOOLEAN
    PROVE  IInv'
  <1>1. CASE UNCHANGED <<callVars, confirmVars>>
    <2>1. TypeOK'
      BY <1>1 DEF callVars, confirmVars, IInv, TypeOK
    <2>. QED
      BY <1>1, <2>1 DEF callVars, confirmVars, IInv, OneRequest,
                        NothingAskedAfterEnd
  <1>2. ASSUME NEW why \in Reasons, Finish(why) \/ Fail
        PROVE  IInv'
    <2>1. /\ open' \in SUBSET (1..MaxRequests)
          /\ resolver' \in 0..MaxRequests /\ confirm' \in 0..MaxRequests
          /\ phase' \in {"connecting", "waiting_agent", "live"} \cup Final
          /\ endReason' \in {"none"} \cup Reasons
          /\ OneRequest' /\ NothingAskedAfterEnd'
      BY <1>2, EndGood
    <2>2. TypeOK'
      BY <2>1 DEF IInv, TypeOK, Reasons
    <2>. QED
      BY <2>1, <2>2 DEF IInv
  <1>. QED
    BY <1>1, <1>2 DEF MayEnd, Reasons

LEMMA StepGood == IInv /\ [Next]_vars => IInv'
  <1>. SUFFICES ASSUME IInv, [Next]_vars PROVE IInv'
    OBVIOUS
  <1>. USE PlayerAssumption
  <1>1. CASE ConnectReturns
    <2>1. TypeOK'
      BY <1>1 DEF ConnectReturns, confirmVars, IInv, TypeOK
    <2>. QED
      BY <1>1, <2>1 DEF ConnectReturns, confirmVars, IInv, OneRequest,
                        NothingAskedAfterEnd, Final
  <1>2. CASE ConnectFails \/ JoinTimesOut
    BY <1>2, MayEndGood
       DEF ConnectFails, JoinTimesOut, MayEnd, IInv, TypeOK, timerVars
  <1>3. CASE AgentEnds \/ Disconnects \/ ViewerEnds
    BY <1>3, MayEndGood
       DEF AgentEnds, Disconnects, ViewerEnds, MayEnd, Reasons, IInv, TypeOK,
           timerVars, roomVars
  <1>4. ASSUME NEW k \in grace, GraceEnds(k) PROVE IInv'
    <2>1. MayEnd
      BY <1>4 DEF GraceEnds, MayEnd, Reasons
    <2>2. grace' \in SUBSET (1..MaxAbsences)
      BY <1>4 DEF GraceEnds, IInv, TypeOK
    <2>3. UNCHANGED <<roomVars, joinTimer, step, agentIdentity, asked, disposed>>
      BY <1>4 DEF GraceEnds
    <2>4. /\ room' \in {"connecting", "aborted", "joined", "left"}
          /\ step' \in {"connect", "audio", "mic", "returned"}
          /\ known' \in BOOLEAN /\ agentIdentity' \in BOOLEAN
          /\ joinTimer' \in BOOLEAN
      BY <2>3 DEF roomVars, IInv, TypeOK
    <2>5. UNCHANGED <<asked, disposed, absences>>
      BY <2>3 DEF roomVars
    <2>. QED
      BY <2>1, <2>2, <2>4, <2>5, MayEndGood
  <1>5. CASE StartGoesOn \/ AgentLeaves
    <2>1. CASE StartGoesOn
      BY <2>1 DEF StartGoesOn, IInv, TypeOK, OneRequest, NothingAskedAfterEnd,
                  callVars, confirmVars, roomVars, timerVars
    <2>2. CASE AgentLeaves
      <3>1. /\ absences' \in 1..MaxAbsences /\ absences' \in 0..MaxAbsences
            /\ grace' \in SUBSET (1..MaxAbsences)
        BY <2>2 DEF AgentLeaves, IInv, TypeOK
      <3>2. known' = FALSE
            /\ UNCHANGED <<callVars, confirmVars, room, joinTimer, step,
                           agentIdentity, asked, disposed>>
        BY <2>2 DEF AgentLeaves
      <3>3. TypeOK'
        BY <3>1, <3>2 DEF IInv, TypeOK, callVars, confirmVars
      <3>. QED
        BY <3>2, <3>3 DEF IInv, OneRequest, NothingAskedAfterEnd, callVars,
                          confirmVars
    <2>. QED
      BY <1>5, <2>1, <2>2
  <1>6. CASE AgentJoins \/ AgentSpeaks
    <2>1. TypeOK'
      BY <1>6 DEF AgentJoins, AgentSpeaks, OnAgent, IInv, TypeOK, callVars,
                  confirmVars, roomVars, timerVars
    <2>. QED
      BY <1>6, <2>1 DEF AgentJoins, AgentSpeaks, OnAgent, IInv, OneRequest,
                        NothingAskedAfterEnd, callVars, confirmVars, Final
  <1>7. CASE Ask
    <2>0. asked \in 0..MaxRequests /\ asked < MaxRequests /\ asked' = asked + 1
      BY <1>7 DEF Ask, IInv, TypeOK
    <2>1. asked' \in 1..MaxRequests /\ asked' \in 0..MaxRequests
      BY <2>0
    <2>3. /\ open' \in SUBSET (1..MaxRequests)
          /\ resolver' \in 0..MaxRequests /\ confirm' \in 0..MaxRequests
      <3>1. /\ open \in SUBSET (1..MaxRequests)
            /\ resolver \in 0..MaxRequests /\ confirm \in 0..MaxRequests
        BY DEF IInv, TypeOK
      <3>2. \/ /\ open' = (open \ {resolver}) \cup {asked'}
               /\ resolver' = asked' /\ confirm' = asked'
            \/ UNCHANGED confirmVars
        BY <1>7 DEF Ask
      <3>. QED
        BY <2>1, <3>1, <3>2 DEF confirmVars
    <2>2. TypeOK'
      BY <1>7, <2>1, <2>3 DEF Ask, IInv, TypeOK, callVars, roomVars, timerVars
    <2>4. CASE phase = "live"
      <3>1. open' \subseteq {asked'} /\ asked' \in open'
            /\ resolver' = asked' /\ confirm' = asked' /\ asked' # 0
        BY <1>7, <2>1, <2>4 DEF Ask, IInv, OneRequest
      <3>2. OneRequest'
        BY <3>1 DEF OneRequest
      <3>3. phase' = "live" /\ ~disposed'
        BY <1>7, <2>4 DEF Ask, Listening, callVars
      <3>. QED
        BY <2>2, <3>2, <3>3 DEF IInv, NothingAskedAfterEnd, Final
    <2>5. CASE phase # "live"
      <3>1. UNCHANGED <<confirmVars, phase, disposed>>
        BY <1>7, <2>5 DEF Ask, callVars
      <3>. QED
        BY <2>2, <3>1 DEF IInv, OneRequest, NothingAskedAfterEnd, confirmVars
    <2>. QED
      BY <2>4, <2>5
  <1>8. CASE Answer
    <2>1. resolver \in open
      BY <1>8 DEF Answer, IInv, OneRequest
    <2>. QED
      BY <1>8, <2>1, SettleGood DEF Answer
  <1>9. ASSUME NEW r \in open, ConfirmTimesOut(r) PROVE IInv'
    BY <1>9, SettleGood DEF ConfirmTimesOut
  <1>10. CASE Dispose
    <2>0. DeclineOpen
      BY <1>10 DEF Dispose
    <2>3. confirm' \in {0, confirm}
      BY <2>0 DEF DeclineOpen
    <2>1. open' = {} /\ resolver' = 0 /\ confirm' \in {0, confirm}
      BY <2>0, <2>3, Declined
    <2>4. /\ open' \in SUBSET (1..MaxRequests)
          /\ resolver' \in 0..MaxRequests /\ confirm' \in 0..MaxRequests
      BY <2>1 DEF IInv, TypeOK
    <2>5. /\ grace' \in SUBSET (1..MaxAbsences) /\ joinTimer' \in BOOLEAN
          /\ known' \in BOOLEAN /\ disposed' \in BOOLEAN
          /\ room' \in {"connecting", "aborted", "joined", "left"}
      BY <1>10 DEF Dispose
    <2>6. UNCHANGED <<phase, endReason, absences, step, agentIdentity, asked>>
      BY <1>10 DEF Dispose, callVars
    <2>2. TypeOK'
      BY <2>4, <2>5, <2>6 DEF IInv, TypeOK
    <2>. QED
      BY <1>10, <2>1, <2>2 DEF Dispose, IInv, OneRequest, NothingAskedAfterEnd
  <1>11. CASE UNCHANGED vars
    BY <1>11 DEF vars, callVars, confirmVars, roomVars, timerVars, IInv,
                 TypeOK, OneRequest, NothingAskedAfterEnd
  <1>. QED
    BY <1>1, <1>2, <1>3, <1>4, <1>5, <1>6, <1>7, <1>8, <1>9, <1>10, <1>11
       DEF Next

-----------------------------------------------------------------------------
(* Theorems. *)

\* The strengthening of the properties below, inductive.
THEOREM Invariance == Spec => []IInv
  <1>. QED
    BY InitIInv, StepGood, PTL DEF Spec

\* The player's snapshot, timers and requests are well typed.
THEOREM TypeCorrect == Spec => []TypeOK
  <1>1. IInv => TypeOK
    BY DEF IInv
  <1>. QED
    BY <1>1, Invariance, PTL

\* However many requests the agent makes, at most one is open: the one on screen.
THEOREM OneRequestOpen == Spec => []OneRequest
  <1>1. IInv => OneRequest
    BY DEF IInv
  <1>. QED
    BY <1>1, Invariance, PTL

\* The end of the call answers what is open, whatever ends it.
THEOREM EndAnswers == Spec => []NothingAskedAfterEnd
  <1>1. IInv => NothingAskedAfterEnd
    BY DEF IInv
  <1>. QED
    BY <1>1, Invariance, PTL

\* Once connect() has resolved, no event or timer changes how the call ended.
THEOREM EndStays == Spec => EndIsFinal
  <1>1. IInv /\ [Next]_vars =>
            [step # "connect" /\ phase \in Final => UNCHANGED callVars]_vars
    <2>. SUFFICES ASSUME Next, step # "connect", phase \in Final
                  PROVE  UNCHANGED callVars
      OBVIOUS
    <2>. USE DEF callVars
    <2>1. CASE \E r \in open : ConfirmTimesOut(r)
      BY <2>1 DEF ConfirmTimesOut, Settle
    <2>2. CASE \E k \in grace : GraceEnds(k)
      BY <2>2 DEF GraceEnds, Finish
    <2>3. CASE AgentEnds \/ Disconnects \/ ViewerEnds \/ JoinTimesOut
      BY <2>3 DEF AgentEnds, Disconnects, ViewerEnds, JoinTimesOut, Finish,
                  Fail
    <2>4. CASE AgentJoins \/ AgentSpeaks
      BY <2>4 DEF AgentJoins, AgentSpeaks, OnAgent, Final
    <2>5. CASE StartGoesOn \/ AgentLeaves \/ Ask \/ Answer \/ Dispose
      BY <2>5 DEF StartGoesOn, AgentLeaves, Ask, Answer, Settle, Dispose
    <2>. QED
      BY <2>1, <2>2, <2>3, <2>4, <2>5 DEF Next, ConnectReturns, ConnectFails
  <1>. QED
    BY <1>1, Invariance, PTL DEF Spec, EndIsFinal

-----------------------------------------------------------------------------
(* Captions: sequences. *)

\* A set of numbers has a least one.
LEMMA LeastNatural ==
    ASSUME NEW T \in SUBSET Nat, T # {}
    PROVE  \E m \in T : \A n \in T : m <= n
  <1>. DEFINE R == OpToRel(<, Nat)
  <1>1. IsWellFoundedOn(R, Nat)
    BY NatLessThanWellFounded
  <1>2. \A a, b \in Nat : a < b => <<a, b>> \in R
    BY DEF OpToRel
  <1>. HIDE DEF R
  <1>3. PICK m \in T : \A n \in T : <<n, m>> \notin R
    BY <1>1, WFMin
  <1>4. \A n \in T : n \in Nat /\ m \in Nat /\ ~(n < m)
    BY <1>2, <1>3
  <1>. QED
    BY <1>4

\* Of some indices of a sequence, one is the last.
LEMMA LastIndex ==
    ASSUME NEW n \in Nat, NEW I \in SUBSET (1..n), I # {}
    PROVE  Max(I) \in I /\ \A k \in I : k <= Max(I)
  <1>. DEFINE T == {n - i : i \in I}
  <1>1. \A i \in I : i \in Nat /\ n - i \in Nat
    OBVIOUS
  <1>2. PICK m \in T : \A k \in T : m <= k
    <2>1. T \in SUBSET Nat /\ T # {}
      BY <1>1
    <2>. HIDE DEF T
    <2>. QED
      BY <2>1, LeastNatural
  <1>3. PICK i \in I : m = n - i
    OBVIOUS
  <1>4. ASSUME NEW k \in I PROVE i >= k
    <2>1. n - i <= n - k
      BY <1>2, <1>3
    <2>. QED
      BY <1>1, <2>1
  <1>5. Max(I) \in I /\ \A k \in I : Max(I) >= k
    BY <1>3, <1>4 DEF Max
  <1>. QED
    BY <1>1, <1>5

Line == [segment : Nat, turn : Nat, speaker : {"agent", "viewer"},
         utterance : Nat, final : BOOLEAN]

Stream == [from : {"agent", "viewer", "chat"}, segment : Nat, utterance : Nat,
           final : BOOLEAN, at : {"waiting", "reading", "sending", "done"},
           text : BOOLEAN]

CaptionTypes == streams \in Seq(Stream) /\ lines \in Seq(Line)

\* LastLine and LastOfViewer find the last element of their kind.
LEMMA LastLineIs ==
    ASSUME CaptionTypes, NEW g
    PROVE  /\ LastLine(g) \in 0..Len(lines)
           /\ LastLine(g) # 0 => lines[LastLine(g)].segment = g
           /\ \A k \in 1..Len(lines) : k > LastLine(g) => lines[k].segment # g
  <1>. DEFINE I == {k \in 1..Len(lines) : lines[k].segment = g}
  <1>1. LastLine(g) = IF I # {} THEN Max(I) ELSE 0
    BY DEF LastLine, SelectLastInSeq
  <1>2. Len(lines) \in Nat
    BY LenProperties DEF CaptionTypes
  <1>3. I # {} => Max(I) \in I /\ \A k \in I : k <= Max(I)
    BY <1>2, LastIndex
  <1>4. CASE I = {}
    BY <1>1, <1>2, <1>4
  <1>5. CASE I # {}
    <2>1. LastLine(g) \in 1..Len(lines) /\ lines[LastLine(g)].segment = g
      BY <1>1, <1>3, <1>5
    <2>2. ASSUME NEW k \in 1..Len(lines), k > LastLine(g) PROVE lines[k].segment # g
      <3>. SUFFICES ASSUME k \in I PROVE FALSE
        OBVIOUS
      <3>1. k <= LastLine(g)
        BY <1>1, <1>3, <1>5
      <3>. QED
        BY <1>2, <2>1, <2>2, <3>1
    <2>. QED
      BY <1>2, <2>1, <2>2
  <1>. QED
    BY <1>4, <1>5

LEMMA LastOfViewerIs ==
    ASSUME CaptionTypes
    PROVE  /\ LastOfViewer \in 0..Len(streams)
           /\ LastOfViewer # 0 => streams[LastOfViewer].from = "viewer"
           /\ \A k \in 1..Len(streams) : k > LastOfViewer => streams[k].from # "viewer"
  <1>. DEFINE I == {k \in 1..Len(streams) : streams[k].from = "viewer"}
  <1>1. LastOfViewer = IF I # {} THEN Max(I) ELSE 0
    BY DEF LastOfViewer, SelectLastInSeq
  <1>2. Len(streams) \in Nat
    BY LenProperties DEF CaptionTypes
  <1>3. I # {} => Max(I) \in I /\ \A k \in I : k <= Max(I)
    BY <1>2, LastIndex
  <1>4. CASE I = {}
    BY <1>1, <1>2, <1>4
  <1>5. CASE I # {}
    <2>1. LastOfViewer \in 1..Len(streams) /\ streams[LastOfViewer].from = "viewer"
      BY <1>1, <1>3, <1>5
    <2>2. ASSUME NEW k \in 1..Len(streams), k > LastOfViewer
          PROVE  streams[k].from # "viewer"
      <3>. SUFFICES ASSUME k \in I PROVE FALSE
        OBVIOUS
      <3>1. k <= LastOfViewer
        BY <1>1, <1>3, <1>5
      <3>. QED
        BY <1>2, <2>1, <2>2, <3>1
    <2>. QED
      BY <1>2, <2>1, <2>2
  <1>. QED
    BY <1>4, <1>5

\* append() drops the first line at most, and none that is new.
LEMMA AppendedLines ==
    ASSUME NEW ls \in Seq(Line), NEW x \in Line
    PROVE  \E d \in {0, 1} :
              /\ Appended(ls, x) \in Seq(Line)
              /\ Len(Appended(ls, x)) = Len(ls) + 1 - d
              /\ Len(Appended(ls, x)) \in Nat \ {0}
              /\ \A n \in 1..Len(Appended(ls, x)) :
                    Appended(ls, x)[n] = IF n + d = Len(ls) + 1 THEN x ELSE ls[n + d]
  <1>. DEFINE all == Append(ls, x)
  <1>1. /\ all \in Seq(Line) /\ Len(all) = Len(ls) + 1 /\ Len(ls) \in Nat
        /\ \A n \in 1..Len(ls) : all[n] = ls[n]
        /\ all[Len(ls) + 1] = x
    BY AppendProperties, LenProperties
  <1>. HIDE DEF all
  <1>2. \A n \in 1..(Len(ls) + 1) : all[n] = IF n = Len(ls) + 1 THEN x ELSE ls[n]
    BY <1>1
  <1>3. CASE Len(all) > MaxLines
    <2>1. Appended(ls, x) = Tail(all)
      BY <1>3 DEF Appended, all
    <2>2. all # <<>>
      BY <1>1, EmptySeq
    <2>3. /\ Tail(all) \in Seq(Line) /\ Len(Tail(all)) = Len(all) - 1
          /\ \A n \in 1..Len(Tail(all)) : Tail(all)[n] = all[n + 1]
      BY <1>1, <2>2, HeadTailProperties
    <2>4. Len(ls) \in Nat \ {0} /\ Len(Tail(all)) = Len(ls)
      BY <1>1, <1>3, <2>3, CaptionsAssumption
    <2>5. \A n \in 1..Len(ls) : n + 1 \in 1..(Len(ls) + 1)
      BY <2>4
    <2>6. \A n \in 1..Len(Tail(all)) :
              Tail(all)[n] = IF n + 1 = Len(ls) + 1 THEN x ELSE ls[n + 1]
      BY <1>2, <2>3, <2>4, <2>5
    <2>7. Len(Tail(all)) = Len(ls) + 1 - 1
      BY <2>4
    <2>. QED
      BY <2>1, <2>3, <2>4, <2>6, <2>7
  <1>4. CASE ~(Len(all) > MaxLines)
    <2>1. Appended(ls, x) = all
      BY <1>4 DEF Appended, all
    <2>. QED
      BY <1>1, <1>2, <2>1
  <1>. QED
    BY <1>3, <1>4

-----------------------------------------------------------------------------
(* Captions: the inductive invariant. *)

OfSegment(s, n) == streams[s].segment = lines[n].segment

IsLastLine(n) ==
    \A k \in DOMAIN lines : k > n => lines[k].segment # lines[n].segment

\* Streams of one segment are the viewer's, one after the other, none of them final
\* but the last.
StreamsInv ==
    /\ \A s \in DOMAIN streams : streams[s].segment \in 1..s
    /\ \A r, s \in DOMAIN streams :
          r < s /\ streams[r].segment = streams[s].segment
              => /\ streams[r].from = "viewer" /\ streams[s].from = "viewer"
                 /\ streams[r].at = "done" /\ ~streams[r].final
    /\ \A s \in DOMAIN streams : streams[s].at = "sending" => streams[s].from = "chat"

\* The turns of a segment are below each other, and each is of words of the segment.
TurnOrder ==
    \A m, n \in DOMAIN lines :
        m < n /\ lines[m].segment = lines[n].segment => lines[m].turn < lines[n].turn

Sources ==
    \A n \in DOMAIN lines : \E s \in DOMAIN streams :
        OfSegment(s, n) /\ streams[s].utterance = lines[n].utterance

\* A finished line at the end of its segment gets no other words: a stream that
\* still goes on brings the ones it has, and no further stream will come, since one
\* was final, or the viewer heard is gone.
Finished ==
    \A n \in DOMAIN lines : IsLastLine(n) /\ lines[n].final =>
        /\ \A s \in DOMAIN streams : OfSegment(s, n) /\ streams[s].at # "done"
              => streams[s].utterance = lines[n].utterance
        /\ \/ room = "left"
           \/ \E s \in DOMAIN streams :
                 OfSegment(s, n) /\ (streams[s].final \/ streams[s].from # "viewer")

CaptionIInv == CaptionTypes /\ StreamsInv /\ TurnOrder /\ Sources /\ Finished

\* What upsertLine does to the lines: the first d of them go, the last line of the
\* segment may be changed, and a line may be new.
Adds(d) == Len(lines') + d = Len(lines) + 1

Folded(s, text, final, d) ==
    LET i == LastLine(streams[s].segment)
    IN  /\ lines' \in Seq(Line)
        /\ Len(lines') + d \in {Len(lines), Len(lines) + 1}
        /\ \A n \in 1..Len(lines') : n + d \in 1..Len(lines) /\ n + d # i
              => lines'[n] = lines[n + d]
        /\ \A n \in 1..Len(lines') : n + d \in 1..Len(lines) /\ n + d = i
              => /\ lines'[n].segment = lines[i].segment
                 /\ lines'[n].turn = lines[i].turn
                 /\ lines[i].final => lines'[n].final
                 /\ Adds(d) => lines'[n].utterance = lines[i].utterance
                 /\ ~Adds(d) =>
                       /\ lines'[n].utterance =
                             IF text THEN streams[s].utterance ELSE lines[i].utterance
                       /\ lines'[n].final = (lines[i].final \/ final)
        /\ ~Adds(d) /\ text => i # 0
        /\ ~Adds(d) /\ text /\ Answered(i) /\ ~lines[i].final
              => lines[i].utterance = streams[s].utterance
        /\ Adds(d) =>
              /\ text
              /\ lines'[Len(lines')].segment = streams[s].segment
              /\ lines'[Len(lines')].utterance = streams[s].utterance
              /\ lines'[Len(lines')].final = final
              /\ i # 0 => lines'[Len(lines')].turn = lines[i].turn + 1

LEMMA UpsertFolds ==
    ASSUME CaptionTypes, NEW s \in DOMAIN streams,
           NEW text \in BOOLEAN, NEW final \in BOOLEAN,
           lines' = Upsert(s, text, final)
    PROVE  \E d \in {0, 1} : Folded(s, text, final, d)
  <1>. DEFINE g == streams[s].segment
              u == streams[s].utterance
              i == LastLine(g)
  <1>1. /\ Len(lines) \in Nat /\ DOMAIN lines = 1..Len(lines)
        /\ lines \in Seq(Line) /\ lines \in [1..Len(lines) -> Line]
        /\ \A n \in 1..Len(lines) : lines[n] \in Line
    BY LenProperties DEF CaptionTypes
  <1>2. streams[s] \in Stream /\ g \in Nat /\ u \in Nat
    <2>1. streams[s] \in Stream
      BY LenProperties DEF CaptionTypes
    <2>. QED
      BY <2>1 DEF Stream
  <1>0. Len(lines) \in Nat
    BY <1>1
  <1>3. i \in 0..Len(lines)
    BY LastLineIs
  <1>4. \A turn \in Nat : Turn(s, turn, final) \in Line
    BY <1>2 DEF Turn, Side, Line
  <1>5. \A turn : /\ Turn(s, turn, final).segment = g
                  /\ Turn(s, turn, final).utterance = u
                  /\ Turn(s, turn, final).final = final
                  /\ Turn(s, turn, final).turn = turn
    BY DEF Turn
  <1>. HIDE DEF i, g, u
  <1>6. CASE i = 0
    <2>1. CASE ~text
      <3>1. lines' = lines
        BY <1>6, <2>1 DEF Upsert, i, g
      <3>2. /\ Len(lines) + 0 = Len(lines) /\ Len(lines) # Len(lines) + 1
            /\ \A n \in 1..Len(lines) : n + 0 = n /\ n # 0
        BY <1>0
      <3>3. Folded(s, text, final, 0)
        BY <1>1, <1>6, <2>1, <3>1, <3>2 DEF Folded, Adds, i, g
      <3>. QED
        BY <3>3
    <2>2. CASE text
      <3>. DEFINE new == Turn(s, 1, final)
      <3>1. lines' = Appended(lines, new)
        BY <1>6, <2>2 DEF Upsert, i, g
      <3>2. /\ new \in Line /\ new.segment = g /\ new.utterance = u
            /\ new.final = final
        BY <1>4, <1>5
      <3>. HIDE DEF new
      <3>3. PICK d \in {0, 1} :
              /\ lines' \in Seq(Line)
              /\ Len(lines') = Len(lines) + 1 - d
              /\ Len(lines') \in Nat \ {0}
              /\ \A n \in 1..Len(lines') :
                    lines'[n] = IF n + d = Len(lines) + 1 THEN new ELSE lines[n + d]
        <4>1. lines \in Seq(Line) /\ new \in Line
          BY <1>1, <3>2
        <4>2. \E d \in {0, 1} :
                /\ Appended(lines, new) \in Seq(Line)
                /\ Len(Appended(lines, new)) = Len(lines) + 1 - d
                /\ Len(Appended(lines, new)) \in Nat \ {0}
                /\ \A n \in 1..Len(Appended(lines, new)) :
                      Appended(lines, new)[n] = IF n + d = Len(lines) + 1 THEN new
                                                ELSE lines[n + d]
          BY <4>1, AppendedLines
        <4>. QED
          BY <3>1, <4>2
      <3>4. /\ Len(lines') + d = Len(lines) + 1
            /\ \A n \in 1..Len(lines') : n + d \in 1..Len(lines)
                  => lines'[n] = lines[n + d] /\ n + d # 0
            /\ lines'[Len(lines')] = new
        BY <1>0, <3>3
      <3>5. Folded(s, text, final, d)
        BY <1>6, <2>2, <3>2, <3>3, <3>4 DEF Folded, Adds, i, g, u
      <3>. QED
        BY <3>5
    <2>. QED
      BY <2>1, <2>2
  <1>7. CASE i # 0 /\ ~lines[i].final /\ text /\ lines[i].utterance # u /\ Answered(i)
    <2>. DEFINE closed == [lines[i] EXCEPT !.final = TRUE]
                ls == [lines EXCEPT ![i].final = TRUE]
                new == Turn(s, lines[i].turn + 1, final)
    <2>1. i \in 1..Len(lines) /\ lines[i] \in Line
      BY <1>1, <1>3, <1>7
    <2>2. /\ closed \in Line /\ closed.segment = lines[i].segment
          /\ closed.turn = lines[i].turn /\ closed.utterance = lines[i].utterance
          /\ closed.final = TRUE
      BY <2>1 DEF Line
    <2>3. /\ ls \in Seq(Line) /\ Len(ls) = Len(lines)
          /\ \A n \in 1..Len(lines) : ls[n] = IF n = i THEN closed ELSE lines[n]
      <3>1. ls = [lines EXCEPT ![i] = closed]
        OBVIOUS
      <3>. HIDE DEF closed, ls
      <3>. QED
        BY <1>1, <2>1, <2>2, <3>1, ExceptSeq
    <2>4. new \in Line
      <3>1. lines[i].turn + 1 \in Nat
        BY <2>1 DEF Line
      <3>. QED
        BY <1>4, <3>1
    <2>5. lines' = Appended(ls, new)
      BY <1>7 DEF Upsert, i, g, u
    <2>. HIDE DEF closed, ls, new
    <2>6. PICK d \in {0, 1} :
              /\ lines' \in Seq(Line)
              /\ Len(lines') = Len(lines) + 1 - d
              /\ Len(lines') \in Nat \ {0}
              /\ \A n \in 1..Len(lines') :
                    lines'[n] = IF n + d = Len(lines) + 1 THEN new ELSE ls[n + d]
      BY <2>3, <2>4, <2>5, AppendedLines
    <2>7. /\ Len(lines') + d = Len(lines) + 1
          /\ \A n \in 1..Len(lines') : n + d \in 1..Len(lines)
                => lines'[n] = IF n + d = i THEN closed ELSE lines[n + d]
          /\ lines'[Len(lines')] = new
      BY <1>0, <2>3, <2>6
    <2>8. /\ new.segment = g /\ new.utterance = u /\ new.final = final
          /\ new.turn = lines[i].turn + 1
      BY <1>5 DEF new
    <2>9. Folded(s, text, final, d)
      BY <1>7, <2>1, <2>2, <2>6, <2>7, <2>8 DEF Folded, Adds, i, g, u
    <2>. QED
      BY <2>9
  <1>8. CASE i # 0 /\ ~(~lines[i].final /\ text /\ lines[i].utterance # u /\ Answered(i))
    <2>. DEFINE line == [lines[i] EXCEPT !.utterance = IF text THEN u ELSE @,
                                         !.final = @ \/ final]
    <2>1. i \in 1..Len(lines) /\ lines[i] \in Line
      BY <1>1, <1>3, <1>8
    <2>2. /\ line \in Line /\ line.segment = lines[i].segment
          /\ line.turn = lines[i].turn
          /\ line.utterance = IF text THEN u ELSE lines[i].utterance
          /\ line.final = (lines[i].final \/ final)
      BY <1>2, <2>1 DEF Line
    <2>3. lines' = [lines EXCEPT ![i] = line]
      <3>1. lines' = Updated(i, s, text, final)
        BY <1>8 DEF Upsert, i, g, u
      <3>. QED
        BY <2>1, <3>1 DEF Updated, u, Line
    <2>. HIDE DEF line
    <2>4. /\ lines' \in Seq(Line) /\ Len(lines') = Len(lines)
          /\ \A n \in 1..Len(lines) : lines'[n] = IF n = i THEN line ELSE lines[n]
      BY <1>1, <2>1, <2>2, <2>3, ExceptSeq
    <2>5. /\ Len(lines) + 0 = Len(lines) /\ Len(lines) # Len(lines) + 1
          /\ \A n \in 1..Len(lines) : n + 0 = n
      BY <1>0
    <2>6. Folded(s, text, final, 0)
      BY <1>1, <1>8, <2>1, <2>2, <2>4, <2>5 DEF Folded, Adds, i, g, u
    <2>. QED
      BY <2>6
  <1>. QED
    BY <1>6, <1>7, <1>8

-----------------------------------------------------------------------------
(* Captions: the steps. *)

\* The streams are the same; some go on to be read, some are done.
StreamsKept ==
    /\ streams' \in Seq(Stream)
    /\ Len(streams') = Len(streams)
    /\ \A r \in 1..Len(streams) :
          /\ streams'[r].from = streams[r].from
          /\ streams'[r].segment = streams[r].segment
          /\ streams'[r].utterance = streams[r].utterance
          /\ streams'[r].final = streams[r].final
          /\ streams'[r].at \in {streams[r].at, "reading", "done"}
          /\ streams[r].at = "done" => streams'[r].at = "done"

\* A stream brings words, or ends.
Folds(s, text, final) ==
    /\ streams[s].at # "done"
    /\ StreamsKept
    /\ text \/ streams'[s].at = "done"
    /\ final => streams[s].final \/ streams[s].from # "viewer" \/ room = "left"
    /\ lines' = Upsert(s, text, final)

\* A stream is new, with a segment of its own or the viewer's last one.
OpensStream ==
    \E new \in Stream :
        /\ streams' = Append(streams, new)
        /\ lines' = lines
        /\ new.at = "sending" => new.from = "chat"
        /\ \/ new.segment = Len(streams) + 1
           \/ /\ LastOfViewer # 0
              /\ streams[LastOfViewer].at = "done"
              /\ ~streams[LastOfViewer].final
              /\ new.segment = streams[LastOfViewer].segment
              /\ new.from = "viewer"
              /\ room # "left"

LEMMA Domains ==
    ASSUME CaptionTypes
    PROVE  /\ Len(lines) \in Nat /\ DOMAIN lines = 1..Len(lines)
           /\ \A n \in 1..Len(lines) : lines[n] \in Line /\ lines[n].turn \in Nat
           /\ Len(streams) \in Nat /\ DOMAIN streams = 1..Len(streams)
           /\ \A s \in 1..Len(streams) : streams[s] \in Stream
  <1>1. /\ Len(lines) \in Nat /\ DOMAIN lines = 1..Len(lines)
        /\ \A n \in 1..Len(lines) : lines[n] \in Line
    BY LenProperties DEF CaptionTypes
  <1>2. /\ Len(streams) \in Nat /\ DOMAIN streams = 1..Len(streams)
        /\ \A s \in 1..Len(streams) : streams[s] \in Stream
    BY LenProperties DEF CaptionTypes
  <1>3. \A x \in Line : x.turn \in Nat
    BY DEF Line
  <1>. QED
    BY <1>1, <1>2, <1>3

\* Setting the state of one stream keeps the streams.
LEMMA KeptBySetting ==
    ASSUME CaptionTypes, NEW s \in DOMAIN streams, streams[s].at # "done",
           NEW at \in {streams[s].at, "reading", "done"}, NEW text \in BOOLEAN,
           streams' = [streams EXCEPT ![s].at = at, ![s].text = text]
    PROVE  StreamsKept /\ streams'[s].at = at
  <1>. DEFINE new == [streams[s] EXCEPT !.at = at, !.text = text]
  <1>1. /\ Len(streams) \in Nat /\ DOMAIN streams = 1..Len(streams)
        /\ streams[s] \in Stream
    BY Domains
  <1>2. /\ new \in Stream /\ new.at = at
        /\ new.from = streams[s].from /\ new.segment = streams[s].segment
        /\ new.utterance = streams[s].utterance /\ new.final = streams[s].final
    BY <1>1 DEF Stream
  <1>3. streams' = [streams EXCEPT ![s] = new]
    OBVIOUS
  <1>. HIDE DEF new
  <1>4. /\ streams' \in Seq(Stream) /\ Len(streams') = Len(streams)
        /\ \A r \in 1..Len(streams) : streams'[r] = IF r = s THEN new ELSE streams[r]
    <2>1. /\ streams \in Seq(Stream) /\ s \in 1..Len(streams) /\ new \in Stream
      BY <1>1, <1>2 DEF CaptionTypes
    <2>2. /\ [streams EXCEPT ![s] = new] \in Seq(Stream)
          /\ Len([streams EXCEPT ![s] = new]) = Len(streams)
          /\ \A r \in 1..Len(streams) :
                [streams EXCEPT ![s] = new][r] = IF r = s THEN new ELSE streams[r]
      BY <2>1, ExceptSeq
    <2>. QED
      BY <1>3, <2>2, Zenon
  <1>5. s \in 1..Len(streams)
    BY <1>1
  <1>6. streams'[s].at = at
    BY <1>2, <1>4, <1>5
  <1>7. ASSUME NEW r \in 1..Len(streams)
        PROVE  /\ streams'[r].from = streams[r].from
               /\ streams'[r].segment = streams[r].segment
               /\ streams'[r].utterance = streams[r].utterance
               /\ streams'[r].final = streams[r].final
               /\ streams'[r].at \in {streams[r].at, "reading", "done"}
               /\ streams[r].at = "done" => streams'[r].at = "done"
    <2>1. CASE r = s
      <3>1. streams'[r] = new
        BY <1>4, <2>1
      <3>. QED
        BY <1>2, <2>1, <3>1
    <2>2. CASE r # s
      <3>1. streams'[r] = streams[r]
        BY <1>4, <2>2
      <3>. QED
        BY <3>1
    <2>. QED
      BY <2>1, <2>2
  <1>. QED
    BY <1>4, <1>6, <1>7 DEF StreamsKept

LEMMA StreamsInvKept ==
    ASSUME CaptionTypes, StreamsInv, StreamsKept
    PROVE  StreamsInv'
  <1>1. /\ DOMAIN streams = 1..Len(streams) /\ Len(streams) \in Nat
        /\ DOMAIN streams' = 1..Len(streams)
    BY Domains, LenProperties DEF StreamsKept
  <1>. QED
    BY <1>1 DEF StreamsInv, StreamsKept

\* Of the streams of one segment, at most one goes on.
LEMMA OneGoesOn ==
    ASSUME CaptionTypes, StreamsInv, NEW r \in DOMAIN streams,
           NEW s \in DOMAIN streams, streams[r].segment = streams[s].segment,
           streams[r].at # "done", streams[s].at # "done"
    PROVE  r = s
  <1>1. r \in Nat /\ s \in Nat
    BY Domains
  <1>2. ~(r < s) /\ ~(s < r)
    BY DEF StreamsInv
  <1>. QED
    BY <1>1, <1>2

\* A step that leaves the lines alone.
LEMMA LinesStay ==
    ASSUME CaptionIInv, StreamsKept, lines' = lines, room = "left" => room' = "left"
    PROVE  CaptionIInv'
  <1>1. /\ DOMAIN streams = 1..Len(streams) /\ Len(streams) \in Nat
        /\ DOMAIN streams' = DOMAIN streams
    <2>1. CaptionTypes
      BY DEF CaptionIInv
    <2>. QED
      BY <2>1, Domains, LenProperties DEF StreamsKept
  <1>2. CaptionTypes' /\ StreamsInv'
    BY StreamsInvKept DEF CaptionIInv, CaptionTypes, StreamsKept
  <1>3. TurnOrder'
    BY DEF CaptionIInv, TurnOrder
  <1>4. \A n : \A s \in DOMAIN streams : OfSegment(s, n)' <=> OfSegment(s, n)
    BY <1>1 DEF OfSegment, StreamsKept
  <1>5. \A s \in DOMAIN streams :
            /\ streams'[s].utterance = streams[s].utterance
            /\ streams'[s].final = streams[s].final
            /\ streams'[s].from = streams[s].from
            /\ streams'[s].at # "done" => streams[s].at # "done"
    BY <1>1 DEF StreamsKept
  <1>6. \A n : IsLastLine(n)' <=> IsLastLine(n)
    BY DEF IsLastLine
  <1>7. Sources'
    BY <1>1, <1>4, <1>5 DEF CaptionIInv, Sources
  <1>8. Finished'
    BY <1>1, <1>4, <1>5, <1>6 DEF CaptionIInv, Finished
  <1>. QED
    BY <1>2, <1>3, <1>7, <1>8 DEF CaptionIInv

\* Lines that are not new keep their segment and turn; what is new is at the end.
LEMMA FoldedLines ==
    ASSUME CaptionTypes, NEW s \in DOMAIN streams, NEW d \in {0, 1},
           NEW text, NEW final, Folded(s, text, final, d)
    PROVE  /\ Len(lines') \in Nat /\ DOMAIN lines' = 1..Len(lines')
           /\ \A n \in 1..Len(lines') : n + d \in 1..Len(lines) =>
                 /\ lines'[n].segment = lines[n + d].segment
                 /\ lines'[n].turn = lines[n + d].turn
                 /\ lines[n + d].final => lines'[n].final
           /\ \A n \in 1..Len(lines') : n + d \notin 1..Len(lines) =>
                 n = Len(lines') /\ Adds(d) /\ n + d = Len(lines) + 1
  <1>. DEFINE i == LastLine(streams[s].segment)
  <1>1. Len(lines) \in Nat
    BY Domains
  <1>2. Len(lines') \in Nat /\ DOMAIN lines' = 1..Len(lines')
    BY LenProperties DEF Folded
  <1>3. Len(lines') + d \in {Len(lines), Len(lines) + 1}
    BY DEF Folded
  <1>4. ASSUME NEW n \in 1..Len(lines'), n + d \in 1..Len(lines)
        PROVE  /\ lines'[n].segment = lines[n + d].segment
               /\ lines'[n].turn = lines[n + d].turn
               /\ lines[n + d].final => lines'[n].final
    <2>1. CASE n + d = i
      BY <1>4, <2>1 DEF Folded
    <2>2. CASE n + d # i
      <3>1. lines'[n] = lines[n + d]
        BY <1>4, <2>2 DEF Folded
      <3>. QED
        BY <3>1
    <2>. QED
      BY <2>1, <2>2
  <1>5. ASSUME NEW n \in 1..Len(lines'), n + d \notin 1..Len(lines)
        PROVE  n = Len(lines') /\ Adds(d) /\ n + d = Len(lines) + 1
    <2>1. n \in Nat /\ n >= 1 /\ n <= Len(lines') /\ n + d \in Nat /\ n + d >= 1
      BY <1>2
    <2>2. n + d > Len(lines)
      BY <1>1, <1>5, <2>1
    <2>3. n + d <= Len(lines') + d
      BY <1>2, <2>1
    <2>4. Len(lines') + d = Len(lines) + 1
      BY <1>1, <1>2, <1>3, <2>1, <2>2, <2>3
    <2>5. n + d = Len(lines) + 1
      BY <1>1, <2>1, <2>2, <2>3, <2>4
    <2>6. n = Len(lines')
      <3>1. n \in Nat /\ d \in Nat /\ Len(lines') \in Nat
        BY <1>2
      <3>2. n + d = Len(lines') + d
        BY <2>4, <2>5
      <3>. QED
        BY <3>1, <3>2
    <2>. QED
      BY <2>4, <2>5, <2>6 DEF Adds
  <1>. QED
    BY <1>2, <1>4, <1>5

\* The line that is new continues its segment below the others.
LEMMA FoldedTurns ==
    ASSUME CaptionTypes, TurnOrder, NEW s \in DOMAIN streams, NEW d \in {0, 1},
           NEW text, NEW final, Folded(s, text, final, d), Adds(d),
           NEW k \in 1..Len(lines), lines[k].segment = streams[s].segment
    PROVE  lines[k].turn < lines'[Len(lines')].turn
  <1>. DEFINE i == LastLine(streams[s].segment)
  <1>1. /\ Len(lines) \in Nat /\ DOMAIN lines = 1..Len(lines)
        /\ \A n \in 1..Len(lines) : lines[n].turn \in Nat
    BY Domains
  <1>2. /\ i \in 0..Len(lines)
        /\ i # 0 => lines[i].segment = streams[s].segment
        /\ ~(k > i)
    BY LastLineIs
  <1>. HIDE DEF i
  <1>3. i \in 1..Len(lines) /\ k <= i
    BY <1>1, <1>2
  <1>4. lines'[Len(lines')].turn = lines[i].turn + 1
    <2>1. i # 0
      BY <1>1, <1>3
    <2>. QED
      BY <2>1 DEF Folded, i
  <1>5. lines[k].turn <= lines[i].turn
    <2>1. CASE k = i
      BY <1>1, <2>1
    <2>2. CASE k < i
      <3>1. lines[k].turn < lines[i].turn
        BY <1>1, <1>2, <1>3, <2>2 DEF TurnOrder
      <3>. QED
        BY <1>1, <1>3, <3>1
    <2>. QED
      BY <1>1, <1>3, <2>1, <2>2
  <1>. QED
    BY <1>1, <1>3, <1>4, <1>5

LEMMA TurnOrderFolded ==
    ASSUME CaptionTypes, TurnOrder, NEW s \in DOMAIN streams, NEW d \in {0, 1},
           NEW text, NEW final, Folded(s, text, final, d)
    PROVE  TurnOrder'
  <1>1. Len(lines) \in Nat /\ DOMAIN lines = 1..Len(lines)
    BY Domains
  <1>2. /\ Len(lines') \in Nat /\ DOMAIN lines' = 1..Len(lines')
        /\ \A n \in 1..Len(lines') : n + d \in 1..Len(lines) =>
              /\ lines'[n].segment = lines[n + d].segment
              /\ lines'[n].turn = lines[n + d].turn
        /\ \A n \in 1..Len(lines') : n + d \notin 1..Len(lines) =>
              n = Len(lines') /\ Adds(d) /\ n + d = Len(lines) + 1
    BY FoldedLines
  <1>. SUFFICES ASSUME NEW m \in 1..Len(lines'), NEW n \in 1..Len(lines'), m < n,
                       lines'[m].segment = lines'[n].segment
                PROVE  lines'[m].turn < lines'[n].turn
    BY <1>2 DEF TurnOrder
  <1>0. Len(lines') \in Nat /\ m \in Nat /\ n \in Nat /\ d \in Nat
    <2>1. Len(lines') \in Nat
      BY <1>2
    <2>2. d \in Nat
      OBVIOUS
    <2>. QED
      BY <2>1, <2>2
  <1>3. m + d \in 1..Len(lines)
    <2>1. m # Len(lines')
      BY <1>0
    <2>2. m + d \notin 1..Len(lines) => m = Len(lines')
      BY <1>2
    <2>. QED
      BY <2>1, <2>2
  <1>4. CASE n + d \in 1..Len(lines)
    <2>1. m + d < n + d
      BY <1>0
    <2>2. lines[m + d].segment = lines[n + d].segment
      BY <1>2, <1>3, <1>4
    <2>3. lines[m + d].turn < lines[n + d].turn
      BY <1>1, <1>3, <1>4, <2>1, <2>2 DEF TurnOrder
    <2>. QED
      BY <1>2, <1>3, <1>4, <2>3
  <1>5. CASE n + d \notin 1..Len(lines)
    <2>1. n = Len(lines') /\ Adds(d)
      BY <1>2, <1>5
    <2>2. lines'[n].segment = streams[s].segment
      BY <2>1 DEF Folded
    <2>3. lines[m + d].segment = streams[s].segment
      BY <1>2, <1>3, <2>2
    <2>4. lines[m + d].turn < lines'[Len(lines')].turn
      BY <1>3, <2>1, <2>3, FoldedTurns
    <2>. QED
      BY <1>2, <1>3, <2>1, <2>4
  <1>. QED
    BY <1>4, <1>5

LEMMA SourcesFolded ==
    ASSUME CaptionTypes, Sources, StreamsKept, NEW s \in DOMAIN streams,
           NEW d \in {0, 1}, NEW text \in BOOLEAN, NEW final,
           Folded(s, text, final, d)
    PROVE  Sources'
  <1>. DEFINE i == LastLine(streams[s].segment)
  <1>1. Len(lines) \in Nat /\ DOMAIN lines = 1..Len(lines)
        /\ DOMAIN streams = 1..Len(streams)
    BY Domains
  <1>2. /\ Len(lines') \in Nat /\ DOMAIN lines' = 1..Len(lines')
        /\ \A n \in 1..Len(lines') : n + d \in 1..Len(lines) =>
              lines'[n].segment = lines[n + d].segment
        /\ \A n \in 1..Len(lines') : n + d \notin 1..Len(lines) =>
              n = Len(lines') /\ Adds(d)
    BY FoldedLines
  <1>3. DOMAIN streams' = 1..Len(streams)
    BY LenProperties DEF StreamsKept
  <1>4. \A r \in DOMAIN streams :
            /\ streams'[r].segment = streams[r].segment
            /\ streams'[r].utterance = streams[r].utterance
    BY <1>1 DEF StreamsKept
  <1>. SUFFICES ASSUME NEW n \in 1..Len(lines')
                PROVE  \E r \in DOMAIN streams :
                          /\ streams[r].segment = lines'[n].segment
                          /\ streams[r].utterance = lines'[n].utterance
    <2>1. \A n \in DOMAIN lines' : n \in 1..Len(lines')
      BY <1>2
    <2>2. DOMAIN streams' = DOMAIN streams
      BY <1>1, <1>3
    <2>. QED
      BY <1>4, <2>1, <2>2 DEF Sources, OfSegment
  <1>5. CASE n + d \in 1..Len(lines)
    <2>1. PICK r \in DOMAIN streams :
              /\ streams[r].segment = lines[n + d].segment
              /\ streams[r].utterance = lines[n + d].utterance
      BY <1>1, <1>5 DEF Sources, OfSegment
    <2>2. lines'[n].segment = lines[n + d].segment
      BY <1>2, <1>5
    <2>3. CASE n + d # i
      <3>1. lines'[n] = lines[n + d]
        BY <1>5, <2>3 DEF Folded
      <3>. QED
        BY <2>1, <3>1
    <2>4. CASE n + d = i
      <3>1. lines[i].segment = streams[s].segment
        BY <1>5, <2>4, LastLineIs
      <3>2. lines'[n].utterance \in {lines[n + d].utterance, streams[s].utterance}
        BY <1>5, <2>4 DEF Folded
      <3>. QED
        BY <2>1, <2>2, <2>4, <3>1, <3>2
    <2>. QED
      BY <2>3, <2>4
  <1>6. CASE n + d \notin 1..Len(lines)
    BY <1>2, <1>6 DEF Folded
  <1>. QED
    BY <1>5, <1>6

\* What is new, or was the last line of the segment of a stream that goes on, is the
\* last line of that segment; every other last line was one.
LEMMA FoldedLast ==
    ASSUME CaptionTypes, NEW s \in DOMAIN streams, NEW d \in {0, 1},
           NEW text, NEW final, Folded(s, text, final, d),
           NEW n \in 1..Len(lines'), IsLastLine(n)'
    PROVE  \/ /\ n = Len(lines') /\ Adds(d)
              /\ lines'[n].segment = streams[s].segment
           \/ /\ n + d \in 1..Len(lines) /\ ~Adds(d)
              /\ n + d = LastLine(streams[s].segment) /\ IsLastLine(n + d)
              /\ lines'[n].segment = streams[s].segment
              /\ lines[n + d].segment = streams[s].segment
           \/ /\ n + d \in 1..Len(lines) /\ IsLastLine(n + d)
              /\ lines'[n] = lines[n + d]
              /\ lines[n + d].segment # streams[s].segment
  <1>. DEFINE g == streams[s].segment
              i == LastLine(g)
  <1>1. Len(lines) \in Nat /\ DOMAIN lines = 1..Len(lines)
    BY Domains
  <1>2. /\ Len(lines') \in Nat /\ DOMAIN lines' = 1..Len(lines')
        /\ \A k \in 1..Len(lines') : k + d \in 1..Len(lines) =>
              lines'[k].segment = lines[k + d].segment
        /\ \A k \in 1..Len(lines') : k + d \notin 1..Len(lines) =>
              k = Len(lines') /\ Adds(d)
    BY FoldedLines
  <1>3. /\ i \in 0..Len(lines)
        /\ i # 0 => lines[i].segment = g
        /\ \A k \in 1..Len(lines) : k > i => lines[k].segment # g
    BY LastLineIs
  <1>4. \A k \in 1..Len(lines') : k > n => lines'[k].segment # lines'[n].segment
    BY <1>2 DEF IsLastLine
  <1>5. Adds(d) => lines'[Len(lines')].segment = g
    BY DEF Folded
  <1>6. /\ Len(lines) \in Nat /\ Len(lines') \in Nat /\ n \in Nat /\ n >= 1
        /\ d \in Nat /\ n <= Len(lines')
        /\ Len(lines') + d \in {Len(lines), Len(lines) + 1}
    <2>1. Len(lines) \in Nat /\ Len(lines') \in Nat
      BY <1>1, <1>2
    <2>2. Len(lines') + d \in {Len(lines), Len(lines) + 1}
      BY DEF Folded
    <2>3. d \in Nat
      OBVIOUS
    <2>. QED
      BY <2>1, <2>2, <2>3
  <1>7. \A k \in 1..Len(lines) : k > n + d =>
            k - d \in 1..Len(lines') /\ k - d > n /\ (k - d) + d = k
    BY <1>6
  <1>8. CASE n + d \notin 1..Len(lines)
    BY <1>2, <1>5, <1>8
  <1>. HIDE DEF i
  <1>9. CASE n + d \in 1..Len(lines)
    <2>1. lines'[n].segment = lines[n + d].segment
      BY <1>2, <1>9
    <2>2. ASSUME NEW k \in 1..Len(lines), k > n + d
          PROVE  lines[k].segment # lines[n + d].segment
      <3>1. k - d \in 1..Len(lines') /\ k - d > n /\ (k - d) + d = k
        BY <1>7, <2>2
      <3>2. lines'[k - d].segment = lines[(k - d) + d].segment
        BY <1>2, <2>2, <3>1
      <3>3. lines'[k - d].segment # lines'[n].segment
        BY <1>4, <3>1
      <3>. QED
        BY <2>1, <3>1, <3>2, <3>3
    <2>3. IsLastLine(n + d)
      BY <1>1, <2>2 DEF IsLastLine
    <2>4. CASE lines[n + d].segment # g
      <3>1. n + d # i
        <4>1. n + d # 0
          BY <1>6
        <4>. QED
          BY <1>3, <2>4, <4>1
      <3>2. lines'[n] = lines[n + d]
        BY <1>9, <3>1 DEF Folded, i
      <3>. QED
        BY <1>9, <2>3, <2>4, <3>2
    <2>5. CASE lines[n + d].segment = g
      <3>1. ~(n + d > i)
        BY <1>3, <1>9, <2>5
      <3>2. ~(n + d < i)
        <4>. SUFFICES ASSUME n + d < i PROVE FALSE
          OBVIOUS
        <4>1. i \in 1..Len(lines) /\ i > n + d /\ i # 0
          BY <1>3, <1>6
        <4>2. lines[i].segment # lines[n + d].segment
          BY <2>2, <4>1
        <4>. QED
          BY <1>3, <2>5, <4>1, <4>2
      <3>3. n + d = i
        BY <1>3, <1>6, <3>1, <3>2
      <3>4. ~Adds(d)
        <4>. SUFFICES ASSUME Adds(d) PROVE FALSE
          OBVIOUS
        <4>1. Len(lines') + d = Len(lines) + 1
          BY DEF Adds
        <4>2. n + d <= Len(lines)
          BY <1>6, <1>9
        <4>3. Len(lines') > n /\ Len(lines') \in 1..Len(lines')
          BY <1>6, <4>1, <4>2
        <4>4. lines'[Len(lines')].segment # lines'[n].segment
          BY <1>4, <4>3
        <4>. QED
          BY <1>5, <2>1, <2>5, <4>4
      <3>. QED
        BY <1>9, <2>1, <2>3, <2>5, <3>3, <3>4 DEF i
    <2>. QED
      BY <2>4, <2>5
  <1>. QED
    BY <1>8, <1>9

\* A finished line is finished for good, and the words that are new are those of the
\* one stream of its segment that goes on.
LEMMA FinishedFolded ==
    ASSUME CaptionIInv, NEW s \in DOMAIN streams, NEW d \in {0, 1},
           NEW text \in BOOLEAN, NEW final \in BOOLEAN, Folds(s, text, final),
           Folded(s, text, final, d), room = "left" => room' = "left"
    PROVE  Finished'
  <1>. DEFINE g == streams[s].segment
              u == streams[s].utterance
  <1>0. CaptionTypes /\ StreamsInv /\ Finished
    BY DEF CaptionIInv
  <1>1. /\ DOMAIN lines = 1..Len(lines) /\ DOMAIN streams = 1..Len(streams)
        /\ DOMAIN lines' = 1..Len(lines') /\ DOMAIN streams' = 1..Len(streams)
    <2>1. DOMAIN lines' = 1..Len(lines')
      BY <1>0, FoldedLines
    <2>2. DOMAIN streams' = 1..Len(streams)
      BY LenProperties DEF Folds, StreamsKept
    <2>. QED
      BY <1>0, <2>1, <2>2, Domains
  <1>2. \A r \in DOMAIN streams :
            /\ streams'[r].segment = streams[r].segment
            /\ streams'[r].utterance = streams[r].utterance
            /\ streams'[r].final = streams[r].final
            /\ streams'[r].from = streams[r].from
            /\ streams'[r].at # "done" => streams[r].at # "done"
    BY <1>1 DEF Folds, StreamsKept
  <1>. SUFFICES ASSUME NEW n \in 1..Len(lines'), IsLastLine(n)', lines'[n].final
                PROVE  /\ \A r \in DOMAIN streams :
                             /\ streams[r].segment = lines'[n].segment
                             /\ streams'[r].at # "done"
                             => streams[r].utterance = lines'[n].utterance
                       /\ \/ room' = "left"
                          \/ \E r \in DOMAIN streams :
                                /\ streams[r].segment = lines'[n].segment
                                /\ streams[r].final \/ streams[r].from # "viewer"
    <2>1. \A n \in DOMAIN lines' : n \in 1..Len(lines')
      BY <1>1
    <2>2. DOMAIN streams' = DOMAIN streams
      BY <1>1
    <2>. QED
      BY <1>2, <2>1, <2>2 DEF Finished, OfSegment
  <1>3. final => room = "left" \/ streams[s].final \/ streams[s].from # "viewer"
    BY DEF Folds
  <1>4. \A r \in DOMAIN streams : streams[r].segment = g /\ streams'[r].at # "done"
            => r = s /\ text
    <2>. SUFFICES ASSUME NEW r \in DOMAIN streams, streams[r].segment = g,
                         streams'[r].at # "done"
                  PROVE  r = s /\ text
      OBVIOUS
    <2>1. streams[r].at # "done" /\ streams[s].at # "done"
      BY <1>2 DEF Folds
    <2>2. r = s
      BY <1>0, <2>1, OneGoesOn
    <2>. QED
      BY <2>2 DEF Folds
  <1>5. CASE n = Len(lines') /\ Adds(d) /\ lines'[n].segment = g
    <2>1. lines'[n].utterance = u /\ lines'[n].final = final
      BY <1>5 DEF Folded
    <2>. QED
      BY <1>3, <1>4, <1>5, <2>1
  <1>6. CASE /\ n + d \in 1..Len(lines) /\ ~Adds(d)
             /\ n + d = LastLine(g) /\ IsLastLine(n + d)
             /\ lines'[n].segment = g /\ lines[n + d].segment = g
    <2>1. /\ lines'[n].utterance = IF text THEN u ELSE lines[n + d].utterance
          /\ lines'[n].final = (lines[n + d].final \/ final)
      BY <1>6 DEF Folded
    <2>2. \A r \in DOMAIN streams : streams[r].segment = g /\ streams'[r].at # "done"
              => streams[r].utterance = lines'[n].utterance
      BY <1>4, <2>1
    <2>3. CASE final
      BY <1>3, <1>6, <2>2, <2>3
    <2>4. CASE lines[n + d].final
      <3>1. \/ room = "left"
            \/ \E r \in DOMAIN streams :
                  /\ streams[r].segment = g
                  /\ streams[r].final \/ streams[r].from # "viewer"
        BY <1>0, <1>1, <1>6, <2>4 DEF Finished, OfSegment
      <3>. QED
        BY <1>6, <2>2, <3>1
    <2>. QED
      BY <2>1, <2>3, <2>4
  <1>7. CASE /\ n + d \in 1..Len(lines) /\ IsLastLine(n + d)
             /\ lines'[n] = lines[n + d] /\ lines[n + d].segment # g
    <2>1. /\ \A r \in DOMAIN streams :
                /\ streams[r].segment = lines[n + d].segment
                /\ streams[r].at # "done"
                => streams[r].utterance = lines[n + d].utterance
          /\ \/ room = "left"
             \/ \E r \in DOMAIN streams :
                   /\ streams[r].segment = lines[n + d].segment
                   /\ streams[r].final \/ streams[r].from # "viewer"
      BY <1>0, <1>1, <1>7 DEF Finished, OfSegment
    <2>. QED
      BY <1>2, <1>7, <2>1
  <1>. QED
    BY <1>0, <1>5, <1>6, <1>7, FoldedLast

\* Words that come, or their end, keep the invariant.
LEMMA LinesFold ==
    ASSUME CaptionIInv, NEW s \in DOMAIN streams, NEW text \in BOOLEAN,
           NEW final \in BOOLEAN, Folds(s, text, final),
           room = "left" => room' = "left"
    PROVE  CaptionIInv'
  <1>1. CaptionTypes /\ StreamsInv /\ TurnOrder /\ Sources /\ StreamsKept
    BY DEF CaptionIInv, Folds
  <1>2. lines' = Upsert(s, text, final)
    BY DEF Folds
  <1>3. PICK d \in {0, 1} : Folded(s, text, final, d)
    BY <1>1, <1>2, UpsertFolds
  <1>4. CaptionTypes'
    BY <1>1, <1>3 DEF CaptionTypes, StreamsKept, Folded
  <1>5. StreamsInv'
    BY <1>1, StreamsInvKept
  <1>6. TurnOrder'
    BY <1>1, <1>3, TurnOrderFolded
  <1>7. Sources'
    BY <1>1, <1>3, SourcesFolded
  <1>8. Finished'
    BY <1>3, FinishedFolded
  <1>. QED
    BY <1>4, <1>5, <1>6, <1>7, <1>8 DEF CaptionIInv

\* A stream that opens has a segment of its own, or goes on with the viewer's last
\* one, of which no line is finished.
LEMMA OpensGood ==
    ASSUME CaptionIInv, OpensStream, room = "left" => room' = "left"
    PROVE  CaptionIInv'
  <1>. DEFINE last == LastOfViewer
              next == Len(streams) + 1
  <1>0. CaptionTypes /\ StreamsInv /\ TurnOrder /\ Sources /\ Finished
    BY DEF CaptionIInv
  <1>1. /\ DOMAIN streams = 1..Len(streams) /\ Len(streams) \in Nat
        /\ \A r \in 1..Len(streams) : r \in Nat /\ streams[r].segment \in 1..r
    <2>1. DOMAIN streams = 1..Len(streams) /\ Len(streams) \in Nat
      BY <1>0, Domains
    <2>. QED
      BY <1>0, <2>1 DEF StreamsInv
  <1>2. PICK new \in Stream :
          /\ streams' = Append(streams, new)
          /\ lines' = lines
          /\ new.at = "sending" => new.from = "chat"
          /\ \/ new.segment = next
             \/ /\ last # 0
                /\ streams[last].at = "done"
                /\ ~streams[last].final
                /\ new.segment = streams[last].segment
                /\ new.from = "viewer"
                /\ room # "left"
    BY DEF OpensStream
  <1>3. /\ streams' \in Seq(Stream) /\ DOMAIN streams' = 1..next
        /\ \A r \in 1..Len(streams) : streams'[r] = streams[r]
        /\ streams'[next] = new
    <2>1. streams \in Seq(Stream)
      BY <1>0 DEF CaptionTypes
    <2>2. /\ streams' \in Seq(Stream) /\ Len(streams') = next
          /\ \A r \in 1..Len(streams) : streams'[r] = streams[r]
          /\ streams'[next] = new
      BY <1>2, <2>1, AppendProperties
    <2>3. DOMAIN streams' = 1..Len(streams')
      BY <2>2, LenProperties
    <2>. QED
      BY <2>2, <2>3
  <1>4. /\ last \in 0..Len(streams)
        /\ last # 0 => streams[last].from = "viewer"
        /\ \A k \in 1..Len(streams) : k > last => streams[k].from # "viewer"
    BY <1>0, LastOfViewerIs
  <1>. HIDE DEF last
  <1>5. ASSUME NEW r \in 1..Len(streams), streams[r].segment = new.segment
        PROVE  /\ new.from = "viewer" /\ room # "left"
               /\ streams[r].from = "viewer" /\ streams[r].at = "done"
               /\ ~streams[r].final
    <2>1. new.segment # next
      BY <1>1, <1>5
    <2>2. /\ last \in 1..Len(streams) /\ streams[last].at = "done"
          /\ ~streams[last].final /\ new.segment = streams[last].segment
          /\ new.from = "viewer" /\ room # "left"
          /\ streams[last].from = "viewer"
      BY <1>1, <1>2, <1>4, <2>1
    <2>3. CASE r = last
      BY <2>2, <2>3
    <2>4. CASE r < last
      BY <1>0, <1>1, <1>5, <2>2, <2>4 DEF StreamsInv
    <2>5. CASE r > last
      <3>1. streams[r].from = "viewer"
        BY <1>0, <1>1, <1>5, <2>2, <2>5 DEF StreamsInv
      <3>. QED
        BY <1>4, <2>5, <3>1
    <2>. QED
      BY <1>1, <2>2, <2>3, <2>4, <2>5
  <1>6. next \in Nat /\ next \notin 1..Len(streams)
        /\ \A r \in 1..next : r \in 1..Len(streams) \/ r = next
    BY <1>1
  <1>. HIDE DEF next
  <1>7. StreamsInv'
    <2>1. ASSUME NEW r \in 1..next PROVE streams'[r].segment \in 1..r
      <3>1. CASE r \in 1..Len(streams)
        BY <1>1, <1>3, <3>1
      <3>2. CASE r = next
        <4>1. CASE new.segment = next
          BY <1>3, <1>6, <3>2, <4>1
        <4>2. CASE new.segment # next
          <5>1. last \in 1..Len(streams) /\ new.segment = streams[last].segment
            BY <1>1, <1>2, <1>4, <4>2
          <5>2. new.segment \in 1..last
            BY <1>1, <5>1
          <5>3. new.segment \in 1..next
            BY <1>1, <5>1, <5>2 DEF next
          <5>. QED
            BY <1>3, <3>2, <5>3
        <4>. QED
          BY <4>1, <4>2
      <3>. QED
        BY <1>6, <3>1, <3>2
    <2>2. ASSUME NEW r \in 1..next, NEW s \in 1..next, r < s,
                 streams'[r].segment = streams'[s].segment
          PROVE  /\ streams'[r].from = "viewer" /\ streams'[s].from = "viewer"
                 /\ streams'[r].at = "done" /\ ~streams'[r].final
      <3>1. r \in 1..Len(streams)
        BY <1>1, <2>2 DEF next
      <3>2. CASE s \in 1..Len(streams)
        BY <1>0, <1>1, <1>3, <2>2, <3>1, <3>2 DEF StreamsInv
      <3>3. CASE s = next
        BY <1>3, <1>5, <2>2, <3>1, <3>3
      <3>. QED
        BY <1>6, <3>2, <3>3
    <2>3. ASSUME NEW r \in 1..next, streams'[r].at = "sending"
          PROVE  streams'[r].from = "chat"
      <3>1. CASE r \in 1..Len(streams)
        BY <1>0, <1>1, <1>3, <2>3, <3>1 DEF StreamsInv
      <3>2. CASE r = next
        BY <1>2, <1>3, <2>3, <3>2
      <3>. QED
        BY <1>6, <3>1, <3>2
    <2>. QED
      BY <1>3, <2>1, <2>2, <2>3 DEF StreamsInv
  <1>8. CaptionTypes' /\ TurnOrder'
    BY <1>0, <1>2, <1>3 DEF CaptionTypes, TurnOrder
  <1>9. \A r \in DOMAIN streams : r \in DOMAIN streams' /\ streams'[r] = streams[r]
    BY <1>1, <1>3, <1>6 DEF next
  <1>10. Sources'
    <2>. SUFFICES ASSUME NEW n \in DOMAIN lines
                  PROVE  \E r \in DOMAIN streams' :
                            /\ streams'[r].segment = lines[n].segment
                            /\ streams'[r].utterance = lines[n].utterance
      BY <1>2 DEF Sources, OfSegment
    <2>1. PICK r \in DOMAIN streams : /\ streams[r].segment = lines[n].segment
                                      /\ streams[r].utterance = lines[n].utterance
      BY <1>0 DEF Sources, OfSegment
    <2>. QED
      BY <1>9, <2>1
  <1>11. Finished'
    <2>. SUFFICES ASSUME NEW n \in DOMAIN lines, IsLastLine(n), lines[n].final
                  PROVE  /\ \A r \in DOMAIN streams' :
                               /\ streams'[r].segment = lines[n].segment
                               /\ streams'[r].at # "done"
                               => streams'[r].utterance = lines[n].utterance
                         /\ \/ room' = "left"
                            \/ \E r \in DOMAIN streams' :
                                  /\ streams'[r].segment = lines[n].segment
                                  /\ streams'[r].final \/ streams'[r].from # "viewer"
      <3>1. \A k : IsLastLine(k)' <=> IsLastLine(k)
        BY <1>2 DEF IsLastLine
      <3>. QED
        BY <1>2, <3>1 DEF Finished, OfSegment
    <2>1. /\ \A r \in DOMAIN streams :
                /\ streams[r].segment = lines[n].segment
                /\ streams[r].at # "done"
                => streams[r].utterance = lines[n].utterance
          /\ \/ room = "left"
             \/ \E r \in DOMAIN streams :
                   /\ streams[r].segment = lines[n].segment
                   /\ streams[r].final \/ streams[r].from # "viewer"
      BY <1>0 DEF Finished, OfSegment
    <2>2. PICK q \in 1..Len(streams) : streams[q].segment = lines[n].segment
      BY <1>0, <1>1 DEF Sources, OfSegment
    <2>3. new.segment # lines[n].segment
      <3>. SUFFICES ASSUME new.segment = lines[n].segment PROVE FALSE
        OBVIOUS
      <3>1. room # "left"
        BY <1>5, <2>2
      <3>2. PICK r \in 1..Len(streams) :
                /\ streams[r].segment = lines[n].segment
                /\ streams[r].final \/ streams[r].from # "viewer"
        BY <1>1, <2>1, <3>1
      <3>. QED
        BY <1>5, <3>2
    <2>4. \A r \in DOMAIN streams' :
              streams'[r].segment = lines[n].segment => r \in DOMAIN streams
      BY <1>1, <1>3, <1>6, <2>3
    <2>5. \/ room' = "left"
          \/ \E r \in DOMAIN streams' :
                /\ streams'[r].segment = lines[n].segment
                /\ streams'[r].final \/ streams'[r].from # "viewer"
      <3>1. CASE room = "left"
        BY <3>1
      <3>2. CASE \E r \in DOMAIN streams :
                    /\ streams[r].segment = lines[n].segment
                    /\ streams[r].final \/ streams[r].from # "viewer"
        <4>1. PICK r \in DOMAIN streams :
                    /\ streams[r].segment = lines[n].segment
                    /\ streams[r].final \/ streams[r].from # "viewer"
          BY <3>2
        <4>. QED
          BY <1>9, <4>1
      <3>. QED
        BY <2>1, <3>1, <3>2
    <2>. QED
      BY <1>9, <2>1, <2>4, <2>5
  <1>. QED
    BY <1>7, <1>8, <1>10, <1>11 DEF CaptionIInv

LEMMA NoLines ==
    ASSUME streams = <<>>, lines = <<>>
    PROVE  CaptionIInv
  <1>1. /\ streams \in Seq(Stream) /\ lines \in Seq(Line)
        /\ DOMAIN streams = {} /\ DOMAIN lines = {}
    BY EmptySeq
  <1>. QED
    BY <1>1 DEF CaptionIInv, CaptionTypes, StreamsInv, TurnOrder, Sources, Finished

\* The viewer does not come back to a room.
LEMMA LeftStays ==
    ASSUME Next, room = "left"
    PROVE  room' = "left"
  <1>1. CASE ConnectReturns \/ ConnectFails \/ StartGoesOn \/ JoinTimesOut
    BY <1>1 DEF ConnectReturns, ConnectFails, StartGoesOn, JoinTimesOut, roomVars
  <1>2. CASE \/ AgentJoins \/ AgentLeaves \/ AgentSpeaks \/ AgentEnds \/ Disconnects
             \/ ViewerEnds \/ Dispose
    BY <1>2 DEF AgentJoins, AgentLeaves, AgentSpeaks, AgentEnds, Disconnects,
                ViewerEnds, Dispose, Listening
  <1>3. CASE \E k \in grace : GraceEnds(k)
    BY <1>3 DEF GraceEnds, roomVars
  <1>4. CASE Ask \/ Answer \/ \E r \in open : ConfirmTimesOut(r)
    BY <1>4 DEF Ask, Answer, ConfirmTimesOut, Settle, roomVars
  <1>. QED
    BY <1>1, <1>2, <1>3, <1>4 DEF Next

\* What a step of the call does to the streams and the lines.
CaptionStep ==
    \/ UNCHANGED captionVars
    \/ streams' = <<>> /\ lines' = <<>>
    \/ StreamsKept /\ lines' = lines
    \/ OpensStream
    \/ \E s \in DOMAIN streams, text \in BOOLEAN, final \in BOOLEAN :
          Folds(s, text, final)

LEMMA OpensIs ==
    ASSUME CaptionTypes, NEW from \in {"agent", "viewer", "chat"}, NEW segment \in Nat,
           NEW utterance \in Nat, NEW final \in BOOLEAN,
           NEW at \in {"waiting", "reading", "sending"},
           at = "sending" => from = "chat",
           Opens(from, segment, utterance, final, at),
           \/ segment = Next1
           \/ /\ LastOfViewer # 0
              /\ streams[LastOfViewer].at = "done"
              /\ ~streams[LastOfViewer].final
              /\ segment = streams[LastOfViewer].segment
              /\ from = "viewer"
              /\ room # "left"
    PROVE  OpensStream
  <1>. DEFINE new == [from |-> from, segment |-> segment, utterance |-> utterance,
                      final |-> final, at |-> at, text |-> FALSE]
  <1>1. /\ new \in Stream /\ new.from = from /\ new.segment = segment /\ new.at = at
    BY DEF Stream
  <1>2. streams' = Append(streams, new) /\ lines' = lines
    BY DEF Opens
  <1>. HIDE DEF new
  <1>3. \/ new.segment = Len(streams) + 1
        \/ /\ LastOfViewer # 0
           /\ streams[LastOfViewer].at = "done"
           /\ ~streams[LastOfViewer].final
           /\ new.segment = streams[LastOfViewer].segment
           /\ new.from = "viewer"
           /\ room # "left"
    BY <1>1 DEF Next1
  <1>. QED
    BY <1>1, <1>2, <1>3 DEF OpensStream

LEMMA StepOfStreams ==
    ASSUME CaptionIInv, CaptionsNext
    PROVE  CaptionStep
  <1>0. CaptionTypes
    BY DEF CaptionIInv
  <1>1. /\ DOMAIN streams = 1..Len(streams) /\ Len(streams) \in Nat /\ Next1 \in Nat
        /\ \A s \in DOMAIN streams :
              /\ streams[s] \in Stream
              /\ streams[s].segment \in Nat /\ streams[s].utterance \in Nat
              /\ streams[s].final \in BOOLEAN /\ streams[s].text \in BOOLEAN
    <2>1. DOMAIN streams = 1..Len(streams) /\ Len(streams) \in Nat
      BY <1>0, Domains
    <2>2. \A s \in DOMAIN streams : streams[s] \in Stream
      BY <1>0, <2>1, Domains
    <2>3. \A x \in Stream : x.segment \in Nat /\ x.utterance \in Nat
                            /\ x.final \in BOOLEAN /\ x.text \in BOOLEAN
      BY DEF Stream
    <2>4. Next1 \in Nat
      BY <2>1 DEF Next1
    <2>. QED
      BY <2>1, <2>2, <2>3, <2>4
  <1>2. CASE CallGoesOn \/ AgentUnannounced
    BY <1>2 DEF CallGoesOn, AgentUnannounced, CaptionStep
  <1>3. CASE ViewGoes
    BY <1>3 DEF ViewGoes, CaptionStep
  <1>4. CASE AgentAnnounced
    <2>. DEFINE new(r) == IF streams[r].at = "waiting"
                          THEN [streams[r] EXCEPT !.at = "reading"] ELSE streams[r]
    <2>1. \A r \in DOMAIN streams :
              /\ new(r) \in Stream
              /\ new(r).from = streams[r].from
              /\ new(r).segment = streams[r].segment
              /\ new(r).utterance = streams[r].utterance
              /\ new(r).final = streams[r].final
              /\ new(r).at \in {streams[r].at, "reading", "done"}
              /\ streams[r].at = "done" => new(r).at = "done"
      BY <1>1 DEF Stream
    <2>2. streams' = [r \in 1..Len(streams) |-> new(r)] /\ lines' = lines
      BY <1>1, <1>4 DEF AgentAnnounced
    <2>. HIDE DEF new
    <2>3. [r \in 1..Len(streams) |-> new(r)] \in [1..Len(streams) -> Stream]
      BY <1>1, <2>1
    <2>4. streams' \in Seq(Stream)
      BY <1>1, <2>2, <2>3, IsASeq
    <2>5. DOMAIN streams' = 1..Len(streams)
      BY <2>2
    <2>6. Len(streams') = Len(streams)
      BY <1>1, <2>4, <2>5, LenProperties
    <2>7. \A r \in 1..Len(streams) : streams'[r] = new(r)
      BY <2>2
    <2>8. StreamsKept
      BY <1>1, <2>1, <2>4, <2>6, <2>7 DEF StreamsKept
    <2>. QED
      BY <2>2, <2>8 DEF CaptionStep
  <1>5. CASE AgentStreamOpens
    <2>1. PICK at \in {"waiting", "reading"} :
              Opens("agent", Next1, Next1, FALSE, at)
      BY <1>5 DEF AgentStreamOpens
    <2>2. OpensStream
      BY <1>0, <1>1, <2>1, OpensIs
    <2>. QED
      BY <2>2 DEF CaptionStep
  <1>6. CASE ChatStarts
    <2>1. Opens("chat", Next1, Next1, TRUE, "sending")
      BY <1>6 DEF ChatStarts
    <2>2. OpensStream
      BY <1>0, <1>1, <2>1, OpensIs
    <2>. QED
      BY <2>2 DEF CaptionStep
  <1>7. CASE ViewerStreamOpens
    <2>. DEFINE last == LastOfViewer
                goesOn == last # 0 /\ ~streams[last].final
    <2>1. last \in 0..Len(streams)
      BY <1>0, LastOfViewerIs
    <2>2. last # 0 => last \in DOMAIN streams
      BY <1>1, <2>1
    <2>3. Listening /\ (last # 0 => streams[last].at = "done")
      BY <1>7 DEF ViewerStreamOpens
    <2>4. PICK final \in BOOLEAN, same \in BOOLEAN :
              /\ same => goesOn
              /\ Opens("viewer",
                       IF goesOn THEN streams[last].segment ELSE Next1,
                       IF same THEN streams[last].utterance ELSE Next1,
                       final, "reading")
      BY <1>7 DEF ViewerStreamOpens
    <2>. DEFINE segment == IF goesOn THEN streams[last].segment ELSE Next1
                utterance == IF same THEN streams[last].utterance ELSE Next1
    <2>5. segment \in Nat /\ utterance \in Nat
      BY <1>1, <2>2, <2>4
    <2>6. room # "left"
      BY <2>3 DEF Listening
    <2>7. \/ segment = Next1
          \/ /\ LastOfViewer # 0
             /\ streams[LastOfViewer].at = "done"
             /\ ~streams[LastOfViewer].final
             /\ segment = streams[LastOfViewer].segment
             /\ "viewer" = "viewer"
             /\ room # "left"
      BY <2>3, <2>6
    <2>8. Opens("viewer", segment, utterance, final, "reading")
      BY <2>4
    <2>. HIDE DEF segment, utterance, last
    <2>9. OpensStream
      BY <1>0, <2>5, <2>7, <2>8, OpensIs
    <2>. QED
      BY <2>9 DEF CaptionStep
  <1>8. ASSUME NEW s \in DOMAIN streams,
               \/ WaitEnds(s) \/ ChunkComes(s) \/ StreamCloses(s) \/ StreamBreaks(s)
               \/ ChatSent(s) \/ ChatFails(s)
        PROVE  CaptionStep
    <2>1. \A from, to : Goes(s, from, to) /\ from # "done" /\ to \in {"reading", "done"}
              => /\ StreamsKept /\ streams'[s].at = to /\ streams[s].at = from
      <3>. SUFFICES ASSUME NEW from, NEW to, Goes(s, from, to), from # "done",
                           to \in {"reading", "done"}
                    PROVE  StreamsKept /\ streams'[s].at = to /\ streams[s].at = from
        OBVIOUS
      <3>1. /\ streams[s].at = from
            /\ streams' = [streams EXCEPT ![s].at = to, ![s].text = FALSE]
        BY DEF Goes
      <3>2. to \in {streams[s].at, "reading", "done"} /\ streams[s].at # "done"
        BY <3>1
      <3>. QED
        BY <1>0, <3>1, <3>2, KeptBySetting
    <2>2. ASSUME NEW text \in BOOLEAN, NEW final \in BOOLEAN, Folds(s, text, final)
          PROVE  CaptionStep
      BY <2>2 DEF CaptionStep
    <2>3. CASE WaitEnds(s) \/ ChatFails(s)
      <3>1. StreamsKept /\ lines' = lines
        BY <2>1, <2>3 DEF WaitEnds, ChatFails
      <3>. QED
        BY <3>1 DEF CaptionStep
    <2>4. CASE ChunkComes(s)
      <3>1. streams[s].at = "reading" /\ lines' = Upsert(s, TRUE, streams[s].final)
            /\ streams' = [streams EXCEPT ![s].text = TRUE]
        BY <2>4 DEF ChunkComes
      <3>2. streams' = [streams EXCEPT ![s].at = "reading", ![s].text = TRUE]
        BY <1>1, <3>1 DEF Stream
      <3>3. StreamsKept
        BY <1>0, <3>1, <3>2, KeptBySetting
      <3>4. Folds(s, TRUE, streams[s].final)
        BY <3>1, <3>3 DEF Folds
      <3>. QED
        BY <1>1, <2>2, <3>4
    <2>5. CASE StreamCloses(s)
      <3>. DEFINE final == streams[s].from = "agent" \/ streams[s].final
      <3>1. StreamsKept /\ streams'[s].at = "done" /\ streams[s].at = "reading"
            /\ lines' = Upsert(s, streams[s].text, final)
        BY <2>1, <2>5 DEF StreamCloses
      <3>2. final \in BOOLEAN /\ streams[s].text \in BOOLEAN
        BY <1>1
      <3>3. final => streams[s].final \/ streams[s].from # "viewer"
        OBVIOUS
      <3>. HIDE DEF final
      <3>4. Folds(s, streams[s].text, final)
        BY <3>1, <3>3 DEF Folds
      <3>. QED
        BY <2>2, <3>2, <3>4
    <2>6. CASE StreamBreaks(s)
      <3>1. StreamsKept /\ streams'[s].at = "done" /\ streams[s].at = "reading"
        BY <2>1, <2>6 DEF StreamBreaks
      <3>2. CASE streams[s].text
        <4>1. lines' = Upsert(s, TRUE, TRUE)
          BY <2>6, <3>2 DEF StreamBreaks
        <4>2. streams[s].from # "viewer" \/ room = "left"
          BY <2>6 DEF StreamBreaks
        <4>3. Folds(s, TRUE, TRUE)
          BY <3>1, <4>1, <4>2 DEF Folds
        <4>. QED
          BY <2>2, <4>3
      <3>3. CASE ~streams[s].text
        <4>1. lines' = lines
          BY <2>6, <3>3 DEF StreamBreaks
        <4>. QED
          BY <3>1, <4>1 DEF CaptionStep
      <3>. QED
        BY <3>2, <3>3
    <2>7. CASE ChatSent(s)
      <3>1. StreamsKept /\ streams'[s].at = "done" /\ streams[s].at = "sending"
            /\ lines' = Upsert(s, TRUE, TRUE)
        BY <2>1, <2>7 DEF ChatSent
      <3>2. streams[s].from # "viewer"
        <4>1. streams[s].from = "chat"
          BY <3>1 DEF CaptionIInv, StreamsInv
        <4>. QED
          BY <4>1
      <3>3. Folds(s, TRUE, TRUE)
        BY <3>1, <3>2 DEF Folds
      <3>. QED
        BY <2>2, <3>3
    <2>. QED
      BY <1>8, <2>3, <2>4, <2>5, <2>6, <2>7
  <1>. QED
    BY <1>2, <1>3, <1>4, <1>5, <1>6, <1>7, <1>8 DEF CaptionsNext

-----------------------------------------------------------------------------
(* Captions: theorems. *)

\* A step of the call with its transcript is a step of the call, or none: what is
\* proved of Player holds of Captions too.
LEMMA CaptionsNextIsNext == CaptionsNext => [Next]_vars
  <1>. SUFFICES ASSUME CaptionsNext PROVE Next \/ UNCHANGED vars
    OBVIOUS
  <1>1. CASE CallGoesOn
    BY <1>1 DEF CallGoesOn, Next
  <1>2. CASE ViewGoes \/ AgentAnnounced \/ AgentUnannounced
    BY <1>2 DEF ViewGoes, AgentAnnounced, AgentUnannounced, Next
  <1>3. CASE AgentStreamOpens \/ ViewerStreamOpens \/ ChatStarts
    BY <1>3 DEF AgentStreamOpens, ViewerStreamOpens, ChatStarts, Next
  <1>4. ASSUME NEW s \in DOMAIN streams,
               \/ WaitEnds(s) \/ ChunkComes(s) \/ StreamCloses(s) \/ StreamBreaks(s)
               \/ ChatSent(s) \/ ChatFails(s)
        PROVE  UNCHANGED vars
    BY <1>4 DEF WaitEnds, ChunkComes, StreamCloses, StreamBreaks, ChatSent, ChatFails,
                Goes
  <1>. QED
    BY <1>1, <1>2, <1>3, <1>4 DEF CaptionsNext

\* Captions implements Player.
THEOREM ImplementsPlayer == CaptionsSpec => Spec
  <1>1. CaptionsInit => Init
    BY DEF CaptionsInit
  <1>2. [CaptionsNext]_<<vars, captionVars>> => [Next]_vars
    BY CaptionsNextIsNext
  <1>. QED
    BY <1>1, <1>2, PTL DEF CaptionsSpec, Spec

\* So the transcript's streams, which may adopt the agent before it is announced,
\* neither leave a confirm request open nor revive a call.
THEOREM CallWithCaptions ==
    CaptionsSpec => []OneRequest /\ []NothingAskedAfterEnd /\ EndIsFinal
  <1>. QED
    BY ImplementsPlayer, OneRequestOpen, EndAnswers, EndStays, PTL

LEMMA CaptionsStepGood ==
    CaptionIInv /\ [CaptionsNext]_<<vars, captionVars>> => CaptionIInv'
  <1>. SUFFICES ASSUME CaptionIInv, [CaptionsNext]_<<vars, captionVars>>
                PROVE  CaptionIInv'
    OBVIOUS
  <1>0. CaptionTypes
    BY DEF CaptionIInv
  <1>1. room = "left" => room' = "left"
    <2>1. CASE CaptionsNext
      <3>1. Next \/ UNCHANGED vars
        BY <2>1, CaptionsNextIsNext
      <3>. QED
        BY <3>1, LeftStays DEF vars, roomVars
    <2>2. CASE UNCHANGED <<vars, captionVars>>
      BY <2>2 DEF vars, roomVars
    <2>. QED
      BY <2>1, <2>2
  <1>2. CASE UNCHANGED captionVars
    <2>1. streams' = streams /\ lines' = lines
      BY <1>2 DEF captionVars
    <2>2. StreamsKept
      BY <1>0, <2>1 DEF StreamsKept, CaptionTypes
    <2>. QED
      BY <1>1, <2>1, <2>2, LinesStay
  <1>3. CASE CaptionsNext
    <2>1. CaptionStep
      BY <1>3, StepOfStreams
    <2>2. CASE streams' = <<>> /\ lines' = <<>>
      <3>1. (streams = <<>> /\ lines = <<>> => CaptionIInv)'
        BY NoLines, PTL
      <3>. QED
        BY <2>2, <3>1
    <2>3. CASE StreamsKept /\ lines' = lines
      BY <1>1, <2>3, LinesStay
    <2>4. CASE OpensStream
      BY <1>1, <2>4, OpensGood
    <2>5. ASSUME NEW s \in DOMAIN streams, NEW text \in BOOLEAN, NEW final \in BOOLEAN,
                 Folds(s, text, final)
          PROVE  CaptionIInv'
      BY <1>1, <2>5, LinesFold
    <2>. QED
      BY <1>2, <2>1, <2>2, <2>3, <2>4, <2>5 DEF CaptionStep
  <1>4. CASE UNCHANGED <<vars, captionVars>>
    BY <1>2, <1>4
  <1>. QED
    BY <1>3, <1>4

\* The streams and the lines they are folded into fit together.
THEOREM CaptionsInvariance == CaptionsSpec => []CaptionIInv
  <1>1. CaptionsInit => CaptionIInv
    BY NoLines DEF CaptionsInit
  <1>. QED
    BY <1>1, CaptionsStepGood, PTL DEF CaptionsSpec

\* Folding keeps what was answered and what is finished.
LEMMA TurnsStandFolded ==
    ASSUME CaptionIInv, NEW s \in DOMAIN streams, NEW d \in {0, 1},
           NEW text \in BOOLEAN, NEW final \in BOOLEAN,
           Folds(s, text, final), Folded(s, text, final, d),
           NEW m \in 1..Len(lines), NEW n \in 1..Len(lines'),
           lines[m].segment = lines'[n].segment, lines[m].turn = lines'[n].turn
    PROVE  /\ lines[m].final => lines'[n].final
           /\ Answered(m) => lines'[n].utterance = lines[m].utterance
  <1>. DEFINE g == streams[s].segment
              i == LastLine(g)
  <1>0. CaptionTypes /\ StreamsInv /\ TurnOrder /\ Finished
    BY DEF CaptionIInv
  <1>1. /\ DOMAIN lines = 1..Len(lines) /\ Len(lines) \in Nat
        /\ \A k \in 1..Len(lines) : lines[k].turn \in Nat
    BY <1>0, Domains
  <1>2. /\ n + d \in 1..Len(lines) =>
              /\ lines'[n].segment = lines[n + d].segment
              /\ lines'[n].turn = lines[n + d].turn
              /\ lines[n + d].final => lines'[n].final
        /\ n + d \notin 1..Len(lines) => n = Len(lines') /\ Adds(d)
    BY <1>0, FoldedLines
  <1>3. n + d \in 1..Len(lines)
    <2>. SUFFICES ASSUME n + d \notin 1..Len(lines) PROVE FALSE
      OBVIOUS
    <2>1. n = Len(lines') /\ Adds(d)
      BY <1>2
    <2>2. lines'[n].segment = g
      BY <2>1 DEF Folded
    <2>3. lines[m].turn < lines'[Len(lines')].turn
      BY <1>0, <2>1, <2>2, FoldedTurns
    <2>. QED
      BY <1>1, <2>1, <2>3
  <1>4. n + d = m
    <2>. DEFINE k == n + d
    <2>1. k \in 1..Len(lines) /\ lines[k].segment = lines[m].segment
          /\ lines[k].turn = lines[m].turn /\ lines[m].turn \in Nat
      BY <1>1, <1>2, <1>3
    <2>. HIDE DEF k
    <2>2. ~(k < m) /\ ~(m < k)
      BY <1>0, <1>1, <2>1 DEF TurnOrder
    <2>3. k = m
      BY <1>1, <2>1, <2>2
    <2>. QED
      BY <2>3 DEF k
  <1>5. lines[m].final => lines'[n].final
    BY <1>2, <1>3, <1>4
  <1>6. ASSUME Answered(m) PROVE lines'[n].utterance = lines[m].utterance
    <2>1. CASE m # i
      <3>1. lines'[n] = lines[m]
        BY <1>3, <1>4, <2>1 DEF Folded
      <3>. QED
        BY <3>1
    <2>2. CASE m = i /\ Adds(d)
      BY <1>3, <1>4, <2>2 DEF Folded
    <2>3. CASE m = i /\ ~Adds(d) /\ ~text
      BY <1>3, <1>4, <2>3 DEF Folded
    <2>4. CASE m = i /\ ~Adds(d) /\ text
      <3>1. lines'[n].utterance = streams[s].utterance
        BY <1>3, <1>4, <2>4 DEF Folded
      <3>2. CASE ~lines[m].final
        <4>1. lines[m].utterance = streams[s].utterance
          BY <1>6, <2>4, <3>2 DEF Folded
        <4>. QED
          BY <3>1, <4>1
      <3>3. CASE lines[m].final
        <4>1. \A k \in 1..Len(lines) : k > m => lines[k].segment # g
          BY <1>0, <2>4, LastLineIs
        <4>2. m # 0 /\ lines[m].segment = g
          <5>1. m # 0
            BY <1>1
          <5>. QED
            BY <1>0, <2>4, <5>1, LastLineIs
        <4>3. IsLastLine(m)
          BY <1>1, <4>1, <4>2 DEF IsLastLine
        <4>4. OfSegment(s, m) /\ streams[s].at # "done"
          BY <4>2 DEF OfSegment, Folds
        <4>5. streams[s].utterance = lines[m].utterance
          BY <1>0, <1>1, <3>3, <4>3, <4>4 DEF Finished
        <4>. QED
          BY <3>1, <4>5
      <3>. QED
        BY <3>2, <3>3
    <2>. QED
      BY <2>1, <2>2, <2>3, <2>4
  <1>. QED
    BY <1>5, <1>6

\* Whatever streams there are, however their chunks and ends interleave with the
\* other side's, and whatever append() drops: what was answered keeps its words.
THEOREM TurnsCorrect == CaptionsSpec => TurnsStand
  <1>. DEFINE Stand ==
          \A m \in DOMAIN lines, n \in DOMAIN lines' :
              lines[m].segment = lines'[n].segment /\ lines[m].turn = lines'[n].turn
                  => /\ lines[m].final => lines'[n].final
                     /\ Answered(m) => lines'[n].utterance = lines[m].utterance
  <1>1. CaptionIInv /\ [CaptionsNext]_<<vars, captionVars>> => [Stand]_lines
    <2>. SUFFICES ASSUME CaptionIInv, CaptionsNext, lines' # lines
                  PROVE  Stand
      BY DEF captionVars
    <2>0. CaptionTypes
      BY DEF CaptionIInv
    <2>1. CaptionStep
      BY StepOfStreams
    <2>2. CASE lines' = <<>>
      <3>1. DOMAIN lines' = {}
        BY <2>2, EmptySeq
      <3>. QED
        BY <3>1
    <2>3. ASSUME NEW s \in DOMAIN streams, NEW text \in BOOLEAN, NEW final \in BOOLEAN,
                 Folds(s, text, final)
          PROVE  Stand
      <3>1. PICK d \in {0, 1} : Folded(s, text, final, d)
        <4>1. lines' = Upsert(s, text, final)
          BY <2>3 DEF Folds
        <4>. QED
          BY <2>0, <4>1, UpsertFolds
      <3>2. DOMAIN lines = 1..Len(lines) /\ DOMAIN lines' = 1..Len(lines')
        BY <2>0, <3>1, Domains, FoldedLines
      <3>. QED
        BY <2>3, <3>1, <3>2, TurnsStandFolded
    <2>4. lines' = <<>> \/ \E s \in DOMAIN streams, text \in BOOLEAN, final \in BOOLEAN :
              Folds(s, text, final)
      BY <2>1 DEF CaptionStep, OpensStream, captionVars
    <2>. QED
      BY <2>2, <2>3, <2>4
  <1>. QED
    BY <1>1, CaptionsInvariance, PTL DEF CaptionsSpec, TurnsStand

=============================================================================
