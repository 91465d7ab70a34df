---------------------------- MODULE ReportsProofs ----------------------------
(***************************************************************************)
(* Theorems about Reports for any set of requests and any caps: its state  *)
(* is well typed, and it implements ViewerRecord, which reports one after  *)
(* the other would make.                                                   *)
(***************************************************************************)
EXTENDS Reports, TLAPS

\* A request inside its transaction owns the row, so at most one is, and what it
\* read is what is stored: there was room for it, and it was news.
Serialized ==
    \A r \in Req :
        /\ pc[r] \in {"locked", "writing"} => lock = r /\ body[r] # "unknown"
        /\ pc[r] = "writing" =>
              saw[r] = Now /\ ~ Full(r) /\ feedback # body[r]

IInv == TypeOK /\ Serialized

-----------------------------------------------------------------------------

LEMMA InitIInv == Init => IInv
<1>. SUFFICES ASSUME Init PROVE IInv
  OBVIOUS
<1>1. TypeOK
  BY ReportsAssumption DEF Init, TypeOK, Now, Seen, Bodies
<1>2. Serialized
  BY DEF Init, Serialized
<1>. QED
  BY <1>1, <1>2 DEF IInv

LEMMA ElsewhereGood == IInv /\ (AgentStarts \/ Expires) => IInv'
  BY DEF IInv, TypeOK, Serialized, Now, Full, AgentStarts, Expires, record,
         requestVars

LEMMA ArrivesGood ==
    ASSUME IInv, NEW r \in Req, NEW b \in Bodies, Arrives(r, b)
    PROVE  IInv'
<1>. USE DEF Arrives, record, IInv
<1>1. TypeOK'
  BY DEF TypeOK, Now
<1>2. Serialized'
  BY DEF TypeOK, Serialized, Now, Full
<1>. QED
  BY <1>1, <1>2

\* A request that ends its transaction and leaves the record alone.
LEMMA AnswerGood ==
    ASSUME IInv, NEW r \in Req, NEW how \in {"done", "refused"},
           Answer(r, how), UNCHANGED <<session, record>>,
           lock \in {r, NoOne}
    PROVE  IInv'
<1>. USE DEF Answer, record, IInv
<1>1. TypeOK'
  BY DEF TypeOK, Now
<1>2. Serialized'
  BY ReportsAssumption DEF TypeOK, Serialized, Now, Full
<1>. QED
  BY <1>1, <1>2

LEMMA LocksGood ==
    ASSUME IInv, NEW r \in Req, Locks(r)
    PROVE  IInv'
<1>1. CASE Unfit(r)
  BY <1>1, AnswerGood DEF Locks
<1>2. CASE ~ Unfit(r)
  <2>. USE <1>2 DEF Locks, record, IInv
  <2>1. TypeOK'
    BY DEF TypeOK, Now
  <2>2. Serialized'
    BY ReportsAssumption DEF TypeOK, Serialized, Now, Full, Unfit
  <2>. QED
    BY <2>1, <2>2
<1>. QED
  BY <1>1, <1>2

LEMMA ReadsGood ==
    ASSUME IInv, NEW r \in Req, Reads(r)
    PROVE  IInv'
<1>0. lock = r /\ body[r] # "unknown"
  BY DEF Reads, IInv, Serialized
<1>1. CASE Full(r) \/ feedback = body[r]
  BY <1>0, <1>1, AnswerGood DEF Reads
<1>2. CASE ~ (Full(r) \/ feedback = body[r])
  <2>. USE <1>0, <1>2 DEF Reads, record, IInv
  <2>1. TypeOK'
    BY DEF TypeOK, Now, Seen
  <2>2. Serialized'
    BY ReportsAssumption DEF TypeOK, Serialized, Now, Full
  <2>. QED
    BY <2>1, <2>2
<1>. QED
  BY <1>1, <1>2

LEMMA CommitsGood ==
    ASSUME IInv, NEW r \in Req, Commits(r)
    PROVE  IInv'
<1>. USE DEF Commits, Answer, IInv
<1>1. lock = r /\ body[r] # "unknown" /\ saw[r] = Now /\ ~ Full(r)
  BY DEF Serialized
<1>2. TypeOK'
  <2>1. CASE body[r] = "click"
    BY <1>1, <2>1, ReportsAssumption DEF TypeOK, Now, Full, Seen
  <2>2. CASE body[r] # "click"
    <3>1. body[r] \in Answers
      BY <1>1, <2>2 DEF TypeOK, Bodies
    <3>2. edits' \in 0..MaxEdits
      BY <1>1, <2>2, ReportsAssumption DEF TypeOK, Now, Full, Seen
    <3>. QED
      BY <1>1, <2>2, <3>1, <3>2 DEF TypeOK, Now, Seen
  <2>. QED
    BY <2>1, <2>2
<1>3. Serialized'
  BY <1>1, ReportsAssumption DEF TypeOK, Serialized
<1>. QED
  BY <1>2, <1>3

LEMMA StepGood == IInv /\ [Next]_vars => IInv'
<1>. SUFFICES ASSUME IInv, [Next]_vars PROVE IInv'
  OBVIOUS
<1>1. ASSUME NEW r \in Req, Handles(r) PROVE IInv'
  <2>1. CASE Aborts(r)
    <3>1. lock = r
      BY <2>1 DEF Aborts, IInv, Serialized
    <3>. QED
      BY <2>1, <3>1, AnswerGood DEF Aborts
  <2>. QED
    BY <1>1, <2>1, LocksGood, ReadsGood, CommitsGood DEF Handles
<1>2. CASE UNCHANGED vars
  BY <1>2 DEF IInv, TypeOK, Serialized, Now, Full, vars, record, requestVars
<1>. QED
  BY <1>1, <1>2, ElsewhereGood, ArrivesGood DEF Next

-----------------------------------------------------------------------------
(* Theorems. *)

\* The strengthening of the properties below, inductive.
THEOREM Invariance == Spec => []IInv
<1>. QED
  BY InitIInv, StepGood, PTL DEF Spec

\* The rows and the requests are well typed: with it, the caps hold.
THEOREM TypeCorrect == Spec => []TypeOK
<1>1. IInv => TypeOK
  BY DEF IInv
<1>. QED
  BY <1>1, Invariance, PTL

\* Transactions of any number of overlapping requests leave the record that they
\* would leave one after the other: no click or edit beyond the cap, and an
\* announcement with each.
THEOREM ImplementsViewerRecord == Spec => KeepsRecord
<1>1. Init => Promise!Init
  BY DEF Init, Promise!Init
<1>2. IInv /\ [Next]_vars => [Promise!Next]_Promise!record
  <2>. SUFFICES ASSUME IInv, Next, ~ UNCHANGED Promise!record
                PROVE  Promise!Next
    BY DEF vars, record, Promise!record
  <2>. USE DEF Promise!record
  <2>1. PICK r \in Req : Commits(r)
    BY DEF Next, AgentStarts, Expires, Arrives, Handles, Locks, Reads, Aborts,
           record
  <2>2. /\ ~ Full(r) /\ feedback # body[r] /\ saw[r] = Now
        /\ body[r] \in {"click"} \cup Answers
    BY <2>1 DEF Commits, IInv, TypeOK, Serialized, Bodies
  <2>3. CASE body[r] = "click"
    BY <2>1, <2>2, <2>3, ReportsAssumption
       DEF Commits, Full, IInv, TypeOK, Promise!Next, Promise!Click
  <2>4. CASE body[r] # "click"
    <3>1. Promise!Rate(body[r])
      BY <2>1, <2>2, <2>4, ReportsAssumption
         DEF Commits, Full, Now, IInv, TypeOK, Seen, Promise!Rate
    <3>. QED
      BY <2>2, <2>4, <3>1 DEF Promise!Next
  <2>. QED
    BY <2>3, <2>4
<1>. QED
  BY <1>1, <1>2, Invariance, PTL DEF Spec, KeepsRecord, Promise!Spec
=============================================================================
