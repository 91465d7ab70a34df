--------------------------- MODULE OperatorProofs ---------------------------
(***************************************************************************)
(* Theorems about Operator for every number of requests and every          *)
(* capacity: its state is well typed, capacity is held, the counter counts *)
(* the start handlers, only overdue sandboxes are reaped, and, if closing  *)
(* does not raise, no browser is orphaned.                                 *)
(***************************************************************************)
EXTENDS Operator, FiniteSetTheorems, TLAPS

\* What makes StartingCounted and NoOrphanBrowser inductive: a client that
\* still asks has no handler, and the close of a failed start is awaited
\* exactly while its handler is aborting.
HandlersConsistent ==
    \A s \in Sbx :
        /\ client[s] \in {"new", "waiting"} => req[s] = "none"
        /\ "abort" \in closers[s] <=> req[s] = "aborting"

Starting(r) == {s \in Sbx : r[s] \in InStart}

IInv == TypeOK /\ HandlersConsistent /\ StartingCounted /\ CapacityHeld

-----------------------------------------------------------------------------

\* A handler that begins adds one to the number of handlers under way.
LEMMA StartingGrows ==
    ASSUME NEW r \in [Sbx -> ReqStates], NEW s \in Sbx, NEW p \in InStart,
           r[s] \notin InStart
    PROVE  Cardinality(Starting([r EXCEPT ![s] = p]))
             = Cardinality(Starting(r)) + 1
<1>1. Starting([r EXCEPT ![s] = p]) = Starting(r) \cup {s}
  BY DEF Starting
<1>2. IsFiniteSet(Starting(r))
  BY FS_Subset, OperatorAssumption DEF Starting
<1>3. s \notin Starting(r)
  BY DEF Starting
<1> QED
  BY <1>1, <1>2, <1>3, FS_AddElement

\* A handler that ends takes one away, and there was one to take.
LEMMA StartingShrinks ==
    ASSUME NEW r \in [Sbx -> ReqStates], NEW s \in Sbx, NEW p \in ReqStates,
           r[s] \in InStart, p \notin InStart
    PROVE  /\ Cardinality(Starting([r EXCEPT ![s] = p]))
                = Cardinality(Starting(r)) - 1
           /\ Cardinality(Starting([r EXCEPT ![s] = p])) \in Nat
<1>1. Starting([r EXCEPT ![s] = p]) = Starting(r) \ {s}
  BY DEF Starting
<1>2. IsFiniteSet(Starting(r))
  BY FS_Subset, OperatorAssumption DEF Starting
<1>3. s \in Starting(r)
  BY DEF Starting
<1>4. IsFiniteSet(Starting(r) \ {s})
  BY <1>2, FS_RemoveElement
<1> QED
  BY <1>1, <1>2, <1>3, <1>4, FS_RemoveElement, FS_CardinalityType

\* A handler that moves on without ending leaves the number alone.
LEMMA StartingSame ==
    ASSUME NEW r \in [Sbx -> ReqStates], NEW s \in Sbx, NEW p \in ReqStates,
           r[s] \in InStart <=> p \in InStart
    PROVE  Cardinality(Starting([r EXCEPT ![s] = p])) = Cardinality(Starting(r))
<1>1. Starting([r EXCEPT ![s] = p]) = Starting(r)
  BY DEF Starting
<1> QED
  BY <1>1

\* The registry is finite; popping never enlarges it, registering adds at
\* most one.
LEMMA RegistryCount ==
    ASSUME NEW S \in SUBSET Sbx, NEW s \in Sbx
    PROVE  /\ Cardinality(S) \in Nat
           /\ Cardinality(S \ {s}) \in Nat
           /\ Cardinality(S \ {s}) <= Cardinality(S)
           /\ Cardinality(S \cup {s}) \in Nat
           /\ Cardinality(S \cup {s}) <= Cardinality(S) + 1
<1>1. IsFiniteSet(S)
  BY FS_Subset, OperatorAssumption
<1>2. /\ Cardinality(S) \in Nat
      /\ IsFiniteSet(S \ {s}) /\ IsFiniteSet(S \cup {s})
  BY <1>1, FS_CardinalityType, FS_RemoveElement, FS_AddElement
<1>3. Cardinality(S \ {s}) \in Nat /\ Cardinality(S \cup {s}) \in Nat
  BY <1>2, FS_CardinalityType
<1>4. Cardinality(S \ {s}) <= Cardinality(S)
  BY <1>1, <1>2, FS_RemoveElement
<1>5. Cardinality(S \cup {s}) <= Cardinality(S) + 1
  BY <1>1, <1>2, FS_AddElement
<1> QED
  BY <1>2, <1>3, <1>4, <1>5

LEMMA InitIInv == Init => IInv
<1> SUFFICES ASSUME Init PROVE IInv
  OBVIOUS
<1>1. TypeOK
  BY OperatorAssumption DEF Init, TypeOK, ClientStates, ReqStates, Closer
<1>2. HandlersConsistent
  BY DEF Init, HandlersConsistent
<1>3. {s \in Sbx : req[s] \in InStart} = {}
  BY DEF Init, InStart
<1>4. StartingCounted /\ CapacityHeld
  BY <1>3, FS_EmptySet, OperatorAssumption
     DEF Init, StartingCounted, CapacityHeld
<1> QED
  BY <1>1, <1>2, <1>4 DEF IInv

-----------------------------------------------------------------------------
(* Every step keeps the state well typed and the handlers consistent. *)

LEMMA StepTypeOK == IInv /\ [Next]_vars => TypeOK'
<1> SUFFICES ASSUME IInv, [Next]_vars PROVE TypeOK'
  OBVIOUS
<1> USE OperatorAssumption DEF IInv, TypeOK, ClientStates, ReqStates, Closer,
        clientVars, clockVars, reaperVars
<1>1. CASE UNCHANGED vars
  BY <1>1 DEF vars
<1>2. ASSUME NEW s \in Sbx, Client(s) PROVE TypeOK'
  <2>1. CASE StartAdmit(s)   BY <2>1 DEF StartAdmit
  <2>2. CASE StartRefused(s) BY <2>2 DEF StartRefused
  <2>3. CASE ClientGone(s)   BY <2>3 DEF ClientGone
  <2>4. CASE Use(s)          BY <2>4 DEF Use
  <2>5. CASE Stop(s)         BY <2>5 DEF Stop, Pop
  <2> QED BY <1>2, <2>1, <2>2, <2>3, <2>4, <2>5 DEF Client
<1>3. ASSUME NEW s \in Sbx, req[s] \in InStart PROVE starting - 1 \in Nat
  <2>1. starting = Cardinality(Starting(req))
    BY DEF StartingCounted, Starting
  <2>2. "failed" \in ReqStates /\ "failed" \notin InStart
    BY DEF InStart
  <2>3. /\ Cardinality(Starting([req EXCEPT ![s] = "failed"]))
             = Cardinality(Starting(req)) - 1
        /\ Cardinality(Starting([req EXCEPT ![s] = "failed"])) \in Nat
    BY <1>3, <2>2, StartingShrinks
  <2> QED BY <2>1, <2>3
<1>4. ASSUME NEW s \in Sbx, Handler(s) PROVE TypeOK'
  <2>1. CASE Launched(s)     BY <2>1 DEF Launched
  <2>2. CASE LaunchFailed(s) BY <2>2, <1>3 DEF LaunchFailed, InStart
  <2>3. CASE StartFailed(s)  BY <2>3 DEF StartFailed
  <2>4. CASE Registered(s)   BY <2>4, <1>3 DEF Registered, InStart
  <2>5. CASE Answered(s)     BY <2>5 DEF Answered
  <2>6. CASE AnswerFailed(s) BY <2>6 DEF AnswerFailed
  <2>7. CASE OpeningRaises(s) BY <2>7, <1>3 DEF OpeningRaises, InStart
  <2> QED BY <1>4, <2>1, <2>2, <2>3, <2>4, <2>5, <2>6, <2>7 DEF Handler
<1>5. ASSUME NEW s \in Sbx, Close(s) PROVE TypeOK'
  <2>1. PICK c \in Closer : CloseReturns(s, c) \/ CloseRaises(s, c)
    BY <1>5 DEF Close
  <2>2. c = "abort" /\ c \in closers[s] => starting - 1 \in Nat
    BY <1>3 DEF HandlersConsistent, InStart
  <2>3. CASE CloseReturns(s, c) BY <2>2, <2>3 DEF CloseReturns, Ended
  <2>4. CASE CloseRaises(s, c)  BY <2>2, <2>4 DEF CloseRaises, Ended
  <2> QED BY <2>1, <2>3, <2>4
<1>6. ASSUME NEW s \in Sbx, Clock(s) PROVE TypeOK'
  BY <1>6 DEF Clock, BecomesIdle, BecomesOld
<1>7. ASSUME Reaper PROVE TypeOK'
  <2>1. CASE ReaperWakes BY <2>1 DEF ReaperWakes
  <2>2. ASSUME NEW s \in Sbx, ReaperReaps(s) PROVE TypeOK'
    BY <2>2 DEF ReaperReaps, Pop
  <2> QED BY <1>7, <2>1, <2>2 DEF Reaper
<1> QED
  BY <1>1, <1>2, <1>4, <1>5, <1>6, <1>7 DEF Next

LEMMA StepHandlers == IInv /\ [Next]_vars => HandlersConsistent'
<1> SUFFICES ASSUME IInv, [Next]_vars PROVE HandlersConsistent'
  OBVIOUS
<1> USE DEF IInv, TypeOK, HandlersConsistent, ReqStates, Closer,
        clientVars, clockVars, reaperVars
<1>1. CASE UNCHANGED vars
  BY <1>1 DEF vars
<1>2. ASSUME NEW s \in Sbx, Client(s) PROVE HandlersConsistent'
  <2>1. CASE StartAdmit(s)   BY <2>1 DEF StartAdmit
  <2>2. CASE StartRefused(s) BY <2>2 DEF StartRefused
  <2>3. CASE ClientGone(s)   BY <2>3 DEF ClientGone
  <2>4. CASE Use(s)          BY <2>4 DEF Use
  <2>5. CASE Stop(s)         BY <2>5 DEF Stop, Pop
  <2> QED BY <1>2, <2>1, <2>2, <2>3, <2>4, <2>5 DEF Client
<1>3. ASSUME NEW s \in Sbx, Handler(s) PROVE HandlersConsistent'
  <2>1. CASE Launched(s)     BY <2>1 DEF Launched
  <2>2. CASE LaunchFailed(s) BY <2>2 DEF LaunchFailed
  <2>3. CASE StartFailed(s)  BY <2>3 DEF StartFailed
  <2>4. CASE Registered(s)   BY <2>4 DEF Registered
  <2>5. CASE Answered(s)     BY <2>5 DEF Answered
  <2>6. CASE AnswerFailed(s) BY <2>6 DEF AnswerFailed
  <2>7. CASE OpeningRaises(s) BY <2>7 DEF OpeningRaises
  <2> QED BY <1>3, <2>1, <2>2, <2>3, <2>4, <2>5, <2>6, <2>7 DEF Handler
<1>4. ASSUME NEW s \in Sbx, Close(s) PROVE HandlersConsistent'
  <2>1. PICK c \in Closer : CloseReturns(s, c) \/ CloseRaises(s, c)
    BY <1>4 DEF Close
  <2>2. CASE c = "abort" BY <2>1, <2>2 DEF CloseReturns, CloseRaises, Ended
  <2>3. CASE c # "abort" BY <2>1, <2>3 DEF CloseReturns, CloseRaises, Ended
  <2> QED BY <2>2, <2>3
<1>5. ASSUME NEW s \in Sbx, Clock(s) PROVE HandlersConsistent'
  BY <1>5 DEF Clock, BecomesIdle, BecomesOld
<1>6. ASSUME Reaper PROVE HandlersConsistent'
  <2>1. CASE ReaperWakes BY <2>1 DEF ReaperWakes
  <2>2. ASSUME NEW s \in Sbx, ReaperReaps(s) PROVE HandlersConsistent'
    BY <2>2 DEF ReaperReaps, Pop
  <2> QED BY <1>6, <2>1, <2>2 DEF Reaper
<1> QED
  BY <1>1, <1>2, <1>3, <1>4, <1>5, <1>6 DEF Next

-----------------------------------------------------------------------------
(* Every step keeps the counter exact and the capacity held. *)

LEMMA StepCapacity ==
    IInv /\ [Next]_vars => StartingCounted' /\ CapacityHeld'
<1> DEFINE Goal == StartingCounted' /\ CapacityHeld'
<1> SUFFICES ASSUME IInv, [Next]_vars PROVE Goal
  OBVIOUS
<1>0. /\ starting = Cardinality(Starting(req))
      /\ starting \in Nat
      /\ Cardinality(sandboxes) \in Nat
      /\ Cardinality(sandboxes) + starting <= MaxSandboxes
      /\ req \in [Sbx -> ReqStates]
      /\ sandboxes \in SUBSET Sbx
  BY FS_Subset, FS_CardinalityType, OperatorAssumption
     DEF IInv, StartingCounted, CapacityHeld, Starting, TypeOK
\* A step that keeps the handlers and at most pops from the registry.
<1>1. ASSUME UNCHANGED <<req, starting>>,
             sandboxes' = sandboxes \/ \E s \in Sbx : sandboxes' = sandboxes \ {s}
      PROVE  Goal
  <2>1. \A s \in Sbx : /\ Cardinality(sandboxes \ {s}) \in Nat
                       /\ Cardinality(sandboxes \ {s}) <= Cardinality(sandboxes)
    BY <1>0, RegistryCount
  <2>2. /\ Cardinality(sandboxes') <= Cardinality(sandboxes)
        /\ Cardinality(sandboxes') \in Nat
    BY <1>0, <1>1, <2>1
  <2> QED
    BY <1>0, <1>1, <2>2, OperatorAssumption
       DEF StartingCounted, CapacityHeld, Starting
\* A step that only moves one handler on.
<1>2. ASSUME NEW s \in Sbx, NEW p \in ReqStates,
             req' = [req EXCEPT ![s] = p], req[s] \in InStart <=> p \in InStart,
             UNCHANGED <<sandboxes, starting>>
      PROVE  Goal
  <2>1. Cardinality(Starting(req')) = Cardinality(Starting(req))
    BY <1>0, <1>2, StartingSame
  <2> QED
    BY <1>0, <1>2, <2>1 DEF StartingCounted, CapacityHeld, Starting
\* A step that ends one handler and registers at most that sandbox.
<1>3. ASSUME NEW s \in Sbx, NEW p \in ReqStates, req[s] \in InStart,
             p \notin InStart, req' = [req EXCEPT ![s] = p],
             starting' = starting - 1,
             sandboxes' = sandboxes \/ sandboxes' = sandboxes \cup {s}
      PROVE  Goal
  <2>1. /\ Cardinality(Starting(req')) = starting - 1
        /\ Cardinality(Starting(req')) \in Nat
    BY <1>0, <1>3, StartingShrinks
  <2>2. /\ Cardinality(sandboxes \cup {s}) \in Nat
        /\ Cardinality(sandboxes \cup {s}) <= Cardinality(sandboxes) + 1
    BY <1>0, RegistryCount
  <2>3. /\ Cardinality(sandboxes') <= Cardinality(sandboxes) + 1
        /\ Cardinality(sandboxes') \in Nat
    <3>1. CASE sandboxes' = sandboxes          BY <1>0, <3>1
    <3>2. CASE sandboxes' = sandboxes \cup {s} BY <2>2, <3>2
    <3> QED BY <1>3, <3>1, <3>2
  <2>4. starting' + Cardinality(sandboxes') <= MaxSandboxes
    BY <1>0, <1>3, <2>1, <2>3, OperatorAssumption
  <2> QED
    BY <1>0, <1>3, <2>1, <2>3, <2>4, OperatorAssumption
       DEF StartingCounted, CapacityHeld, Starting
<1>4. CASE UNCHANGED vars
  BY <1>4, <1>1 DEF vars
<1>5. ASSUME NEW s \in Sbx, Client(s) PROVE Goal
  <2>1. CASE StartAdmit(s)
    <3>1. req[s] = "none"
      BY <2>1 DEF StartAdmit, IInv, HandlersConsistent
    <3>2. Cardinality(Starting(req')) = Cardinality(Starting(req)) + 1
      BY <1>0, <2>1, <3>1, StartingGrows DEF StartAdmit, InStart
    <3> QED
      BY <1>0, <2>1, <3>2, OperatorAssumption
         DEF StartAdmit, AtCapacity, StartingCounted, CapacityHeld, Starting
  <2>2. CASE StartRefused(s) \/ ClientGone(s) \/ Use(s)
    BY <2>2, <1>1 DEF StartRefused, ClientGone, Use
  <2>3. CASE Stop(s)
    BY <2>3, <1>1 DEF Stop, Pop
  <2> QED BY <1>5, <2>1, <2>2, <2>3 DEF Client
<1>6. ASSUME NEW s \in Sbx, Handler(s) PROVE Goal
  <2>1. CASE Launched(s)
    BY <2>1, <1>2 DEF Launched, InStart, ReqStates
  <2>2. CASE LaunchFailed(s)
    BY <2>2, <1>3 DEF LaunchFailed, InStart, ReqStates
  <2>3. CASE StartFailed(s)
    BY <2>3, <1>2 DEF StartFailed, InStart, ReqStates
  <2>4. CASE Registered(s)
    BY <2>4, <1>3 DEF Registered, InStart, ReqStates
  <2>5. CASE Answered(s)
    BY <2>5, <1>2 DEF Answered, InStart, ReqStates
  <2>6. CASE AnswerFailed(s)
    BY <2>6, <1>2 DEF AnswerFailed, InStart, ReqStates
  <2>7. CASE OpeningRaises(s)
    BY <2>7, <1>3 DEF OpeningRaises, InStart, ReqStates
  <2> QED BY <1>6, <2>1, <2>2, <2>3, <2>4, <2>5, <2>6, <2>7 DEF Handler
<1>7. ASSUME NEW s \in Sbx, Close(s) PROVE Goal
  <2>1. PICK c \in Closer : CloseReturns(s, c) \/ CloseRaises(s, c)
    BY <1>7 DEF Close
  <2>2. c \in closers[s] /\ Ended(s, c) /\ UNCHANGED sandboxes
    BY <2>1 DEF CloseReturns, CloseRaises
  <2>3. CASE c = "abort"
    <3>1. req[s] = "aborting"
      BY <2>2, <2>3 DEF IInv, HandlersConsistent
    <3> QED
      BY <2>2, <2>3, <3>1, <1>3 DEF Ended, InStart, ReqStates
  <2>4. CASE c # "abort"
    BY <2>2, <2>4, <1>1 DEF Ended
  <2> QED BY <2>3, <2>4
<1>8. ASSUME NEW s \in Sbx, Clock(s) PROVE Goal
  BY <1>8, <1>1 DEF Clock, BecomesIdle, BecomesOld
<1>9. ASSUME Reaper PROVE Goal
  <2>1. CASE ReaperWakes BY <2>1, <1>1 DEF ReaperWakes
  <2>2. ASSUME NEW s \in Sbx, ReaperReaps(s) PROVE Goal
    BY <2>2, <1>1 DEF ReaperReaps, Pop
  <2> QED BY <1>9, <2>1, <2>2 DEF Reaper
<1> QED
  BY <1>4, <1>5, <1>6, <1>7, <1>8, <1>9 DEF Next

-----------------------------------------------------------------------------

THEOREM Invariance == Spec => []IInv
<1>1. IInv /\ [Next]_vars => IInv'
  BY StepTypeOK, StepHandlers, StepCapacity DEF IInv
<1> QED
  BY InitIInv, <1>1, PTL DEF Spec

\* For every capacity and any number of overlapping start requests, the state
\* of the service is well typed.
THEOREM TypeCorrect == Spec => []TypeOK
<1>1. IInv => TypeOK
  BY DEF IInv
<1> QED
  BY Invariance, <1>1, PTL

\* Registered and starting sandboxes never exceed max_sandboxes.
THEOREM CapacityCorrect == Spec => []CapacityHeld
<1>1. IInv => CapacityHeld
  BY DEF IInv
<1> QED
  BY Invariance, <1>1, PTL

\* `starting` is exact: every way out of the start handler gives its place
\* back once.
THEOREM CounterCorrect == Spec => []StartingCounted
<1>1. IInv => StartingCounted
  BY DEF IInv
<1> QED
  BY Invariance, <1>1, PTL

-----------------------------------------------------------------------------

\* If the steps the code does not guard do not raise, every live browser has an
\* owner that will close it.
THEOREM NoOrphan ==
    ASSUME ~UnguardedRaises PROVE Spec => []NoOrphanBrowser
<1>1. Init => NoOrphanBrowser
  BY DEF Init, NoOrphanBrowser
<1>2. IInv /\ NoOrphanBrowser /\ [Next]_vars => NoOrphanBrowser'
  <2> SUFFICES ASSUME IInv, NoOrphanBrowser, [Next]_vars
               PROVE  NoOrphanBrowser'
    OBVIOUS
  <2> USE DEF IInv, TypeOK, HandlersConsistent, NoOrphanBrowser,
          clientVars, clockVars, reaperVars
  <2>1. CASE UNCHANGED vars
    BY <2>1 DEF vars
  <2>2. ASSUME NEW s \in Sbx, Client(s) PROVE NoOrphanBrowser'
    <3>1. CASE StartAdmit(s)   BY <3>1 DEF StartAdmit
    <3>2. CASE StartRefused(s) BY <3>2 DEF StartRefused
    <3>3. CASE ClientGone(s)   BY <3>3 DEF ClientGone
    <3>4. CASE Use(s)          BY <3>4 DEF Use
    <3>5. CASE Stop(s)         BY <3>5 DEF Stop, Pop
    <3> QED BY <2>2, <3>1, <3>2, <3>3, <3>4, <3>5 DEF Client
  <2>3. ASSUME NEW s \in Sbx, Handler(s) PROVE NoOrphanBrowser'
    <3>1. CASE Launched(s)     BY <3>1 DEF Launched
    <3>2. CASE LaunchFailed(s) BY <3>2 DEF LaunchFailed
    <3>3. CASE StartFailed(s)  BY <3>3 DEF StartFailed
    <3>4. CASE Registered(s)   BY <3>4 DEF Registered
    <3>5. CASE Answered(s)     BY <3>5 DEF Answered
    <3>6. CASE AnswerFailed(s) BY <3>6 DEF AnswerFailed
    <3>7. CASE OpeningRaises(s) BY <3>7 DEF OpeningRaises
    <3> QED BY <2>3, <3>1, <3>2, <3>3, <3>4, <3>5, <3>6, <3>7 DEF Handler
  <2>4. ASSUME NEW s \in Sbx, Close(s) PROVE NoOrphanBrowser'
    <3>1. PICK c \in Closer : CloseReturns(s, c)
      BY <2>4 DEF Close, CloseRaises
    <3>2. CASE c = "abort" BY <3>1, <3>2 DEF CloseReturns, Ended
    <3>3. CASE c # "abort" BY <3>1, <3>3 DEF CloseReturns, Ended
    <3> QED BY <3>2, <3>3
  <2>5. ASSUME NEW s \in Sbx, Clock(s) PROVE NoOrphanBrowser'
    BY <2>5 DEF Clock, BecomesIdle, BecomesOld
  <2>6. ASSUME Reaper PROVE NoOrphanBrowser'
    <3>1. CASE ReaperWakes BY <3>1 DEF ReaperWakes
    <3>2. ASSUME NEW s \in Sbx, ReaperReaps(s) PROVE NoOrphanBrowser'
      BY <3>2 DEF ReaperReaps, Pop
    <3> QED BY <2>6, <3>1, <3>2 DEF Reaper
  <2> QED
    BY <2>1, <2>2, <2>3, <2>4, <2>5, <2>6 DEF Next
<1> QED
  BY Invariance, <1>1, <1>2, PTL DEF Spec

-----------------------------------------------------------------------------

\* What the reaper still has to visit is overdue as long as it is registered, and
\* what is registered, overdue or to be visited has its start behind it, so that it
\* is not registered a second time under the reaper.
ScanConsistent ==
    /\ scan \cap sandboxes \subseteq idle \cup old
    /\ \A s \in scan \cup idle \cup old \cup sandboxes :
          req[s] \in {"answering", "done", "failed"}

LEMMA ScanInvariant == Spec => []ScanConsistent
<1>1. Init => ScanConsistent
  BY DEF Init, ScanConsistent
<1>2. IInv /\ ScanConsistent /\ [Next]_vars => ScanConsistent'
  <2> SUFFICES ASSUME IInv, ScanConsistent, [Next]_vars
               PROVE  ScanConsistent'
    OBVIOUS
  <2> USE DEF IInv, TypeOK, HandlersConsistent, ScanConsistent, ReqStates,
          clientVars, clockVars, reaperVars
  <2>1. CASE UNCHANGED vars
    BY <2>1 DEF vars
  <2>2. ASSUME NEW s \in Sbx, Client(s) PROVE ScanConsistent'
    <3>1. CASE StartAdmit(s)   BY <3>1 DEF StartAdmit
    <3>2. CASE StartRefused(s) BY <3>2 DEF StartRefused
    <3>3. CASE ClientGone(s)   BY <3>3 DEF ClientGone
    <3>4. CASE Use(s)          BY <3>4 DEF Use
    <3>5. CASE Stop(s)         BY <3>5 DEF Stop, Pop
    <3> QED BY <2>2, <3>1, <3>2, <3>3, <3>4, <3>5 DEF Client
  <2>3. ASSUME NEW s \in Sbx, Handler(s) PROVE ScanConsistent'
    <3>1. CASE Launched(s)     BY <3>1 DEF Launched
    <3>2. CASE LaunchFailed(s) BY <3>2 DEF LaunchFailed
    <3>3. CASE StartFailed(s)  BY <3>3 DEF StartFailed
    <3>4. CASE Registered(s)   BY <3>4 DEF Registered
    <3>5. CASE Answered(s)     BY <3>5 DEF Answered
    <3>6. CASE AnswerFailed(s) BY <3>6 DEF AnswerFailed
    <3>7. CASE OpeningRaises(s) BY <3>7 DEF OpeningRaises
    <3> QED BY <2>3, <3>1, <3>2, <3>3, <3>4, <3>5, <3>6, <3>7 DEF Handler
  <2>4. ASSUME NEW s \in Sbx, Close(s) PROVE ScanConsistent'
    <3>1. PICK c \in Closer : CloseReturns(s, c) \/ CloseRaises(s, c)
      BY <2>4 DEF Close
    <3>2. CASE c = "abort" BY <3>1, <3>2 DEF CloseReturns, CloseRaises, Ended
    <3>3. CASE c # "abort" BY <3>1, <3>3 DEF CloseReturns, CloseRaises, Ended
    <3> QED BY <3>2, <3>3
  <2>5. ASSUME NEW s \in Sbx, Clock(s) PROVE ScanConsistent'
    BY <2>5 DEF Clock, BecomesIdle, BecomesOld
  <2>6. ASSUME Reaper PROVE ScanConsistent'
    <3>1. CASE ReaperWakes BY <3>1 DEF ReaperWakes
    <3>2. ASSUME NEW s \in Sbx, ReaperReaps(s) PROVE ScanConsistent'
      BY <3>2 DEF ReaperReaps, Pop
    <3> QED BY <2>6, <3>1, <3>2 DEF Reaper
  <2> QED
    BY <2>1, <2>2, <2>3, <2>4, <2>5, <2>6 DEF Next
<1> QED
  BY Invariance, <1>1, <1>2, PTL DEF Spec

\* A sandbox leaves the registry by a DELETE of the agent that holds it, or
\* because it is overdue at that moment: one that is used while the reaper is on its
\* way stays, for every number of sandboxes and order of closes.
THEOREM OverdueOnly == Spec => OnlyOverdueReaped
<1> DEFINE Leaves ==
      \A s \in sandboxes \ sandboxes' :
         \/ client[s] = "holds" /\ client'[s] = "gone"
         \/ s \in idle \cup old
<1>1. IInv /\ ScanConsistent /\ [Next]_vars => [Leaves]_vars
  <2> SUFFICES ASSUME IInv, ScanConsistent, Next,
                      NEW s \in sandboxes, s \notin sandboxes'
               PROVE  \/ client[s] = "holds" /\ client'[s] = "gone"
                      \/ s \in idle \cup old
    OBVIOUS
  <2> USE DEF IInv, TypeOK, ScanConsistent, clientVars, clockVars, reaperVars
  <2>1. ASSUME NEW t \in Sbx, Client(t)
        PROVE  client[s] = "holds" /\ client'[s] = "gone"
    BY <2>1 DEF Client, StartAdmit, StartRefused, ClientGone, Use, Stop, Pop
  <2>2. ASSUME NEW t \in Sbx, Handler(t) \/ Close(t) \/ Clock(t) PROVE FALSE
    BY <2>2 DEF Handler, Launched, LaunchFailed, StartFailed, OpeningRaises,
         Registered, Answered, AnswerFailed, Close, CloseReturns, CloseRaises, Clock, BecomesIdle, BecomesOld
  <2>3. ASSUME Reaper PROVE s \in idle \cup old
    BY <2>3 DEF Reaper, ReaperWakes, ReaperReaps, Pop
  <2> QED
    BY <2>1, <2>2, <2>3 DEF Next
<1> QED
  BY Invariance, ScanInvariant, <1>1, PTL DEF Spec, OnlyOverdueReaped

=============================================================================
