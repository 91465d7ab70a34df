---------------------------- MODULE SessionProofs ----------------------------
(***************************************************************************)
(* Proofs about Session, for any number of jobs, lines and units of usage. *)
(***************************************************************************)
EXTENDS Session, FiniteSetTheorems, TLAPS

-----------------------------------------------------------------------------
(* Requests. *)

\* Each request the agent makes is one, and says what it was made to say.
LEMMA Requests ==
    /\ \A j \in Jobs : /\ Started(j) \in Request
                        /\ Started(j).kind = "started" /\ Started(j).job = j
    /\ \A j \in Jobs, batch \in SUBSET Seqs :
          /\ Lines(j, batch) \in Request
          /\ Lines(j, batch).kind = "lines" /\ Lines(j, batch).lines = batch
          /\ Lines(j, batch).job = j
    /\ \A j \in Jobs, n, total \in Nat :
          /\ Cost(j, n, total) \in Request
          /\ Cost(j, n, total).kind = "cost" /\ Cost(j, n, total).job = j
    /\ \A j \in Jobs, why \in Reasons :
          /\ EndedAs(j, why) \in Request
          /\ EndedAs(j, why).kind = "ended" /\ EndedAs(j, why).reason = why
          /\ EndedAs(j, why).job = j
  <1>1. "error" \in Reasons /\ {} \in SUBSET Seqs /\ 0 \in Nat
    BY DEF Reasons
  <1>. QED
    BY <1>1 DEF Started, Lines, Cost, EndedAs, Request

\* A process starts from well-typed nothing.
LEMMA BlankTypes ==
    Blank =>
        /\ fin' \in {"no", "flushing", "posting", "stopped"}
        /\ reason' \in Reasons
        /\ seq' = 0
        /\ buf' \in SUBSET Seqs
        /\ spawned' \in BOOLEAN
        /\ flights' \in SUBSET [lines : SUBSET Seqs, by : {"spawn", "finalize"}]
        /\ unreported' \in Nat
        /\ ticking' \in SUBSET Request
        /\ last' \in SUBSET Request
  <1>. SUFFICES ASSUME Blank
                PROVE  /\ reason' \in Reasons
                       /\ seq' = 0
                       /\ spawned' \in BOOLEAN
                       /\ unreported' \in Nat
    BY DEF Blank
  <1>1. reason' \in Reasons /\ spawned' \in BOOLEAN
    BY DEF Blank, Reasons
  <1>2. seq' = 0 /\ unreported' \in Nat
    BY SessionAssumption DEF Blank
  <1>. QED
    BY <1>1, <1>2

\* No process, or one that has not registered finalize, holds nothing.
Quiet ==
    pc \in {"off", "loading"} =>
        fin = "no" /\ seq = 0 /\ buf = {} /\ ~spawned /\ flights = {}

\* What is known of a session once a request or a reply is under way.
OnTheWay ==
    /\ \A m \in net : m.kind = "ended" /\ m.reason # "error" => status # "created"
    /\ \A m \in replies : m.kind = "started" => status # "created"
    /\ \A m \in replies : m.kind = "lines" =>
          \A i \in m.lines : i \in Seqs => stored[i] # 0
    /\ reason # "error" \/ pc \in {"live", "closing"} => status # "created"

\* Each line is somewhere; whose line is stored under its number, Numbered tells.
Kept ==
    \A i \in Seqs : i < seq =>
        \/ i \in buf
        \/ \E f \in flights : i \in f.lines
        \/ stored[i] # 0

\* The inductive invariant.
IInv == TypeOK /\ Quiet /\ OnTheWay /\ Kept

LEMMA InitIInv == Init => IInv
  <1>. SUFFICES ASSUME Init PROVE IInv
    OBVIOUS
  <1>. USE SessionAssumption DEF Init
  <1>0. events \in Seq({"created", "started", "ended"})
    OBVIOUS
  <1>. HIDE DEF Init
  <1>1. TypeOK
    <2>1. stored \in [Seqs -> 0..MaxJobs]
      BY DEF Init, Seqs
    <2>2. /\ job \in 0..MaxJobs /\ used \in 0..MaxUsage
          /\ said \in 0..MaxLines /\ seq \in 0..said
      BY DEF Init
    <2>. QED
      BY <1>0, <2>1, <2>2 DEF Init, TypeOK, PcStates, Reasons
  <1>. USE DEF Init
  <1>2. Quiet /\ OnTheWay
    BY DEF Quiet, OnTheWay
  <1>3. Kept
    BY DEF Kept, Seqs
  <1>. QED
    BY <1>1, <1>2, <1>3 DEF IInv

-----------------------------------------------------------------------------
(* Steps. *)

\* A flush moves lines from the buffer to a request and loses none.
LEMMA FlushKeeps ==
    ASSUME TypeOK, job \in Jobs, NEW by \in {"spawn", "finalize"}, Flush(by)
    PROVE  /\ buf' \in SUBSET Seqs
           /\ flights' \in SUBSET [lines : SUBSET Seqs,
                                   by : {"spawn", "finalize"}]
           /\ net' \in SUBSET Request
           /\ replies' = replies
           /\ \A m \in net' : m \in net \/ m.kind = "lines"
           /\ \A i \in Seqs :
                 i \in buf \/ (\E f \in flights : i \in f.lines) =>
                     i \in buf' \/ (\E f \in flights' : i \in f.lines)
  <1>. DEFINE new == [lines |-> buf, by |-> by]
  <1>1. CASE buf = {}
    BY <1>1 DEF TypeOK, Flush, netVars
  <1>2. CASE buf # {}
    <2>1. /\ buf' = {}
          /\ flights' = flights \cup {new}
          /\ net' = net \cup {Lines(job, buf)}
          /\ replies' = replies
      BY <1>2 DEF Flush, Post
    <2>2. new \in [lines : SUBSET Seqs, by : {"spawn", "finalize"}]
      BY DEF TypeOK
    <2>3. Lines(job, buf) \in Request /\ Lines(job, buf).kind = "lines"
      BY Requests DEF TypeOK
    <2>4. new.lines = buf
      OBVIOUS
    <2>. HIDE DEF new
    <2>. QED
      BY <2>1, <2>2, <2>3, <2>4 DEF TypeOK
  <1>. QED
    BY <1>1, <1>2

LEMMA DispatchGood == IInv /\ Dispatch => IInv'
  <1>. SUFFICES ASSUME IInv, Dispatch PROVE IInv'
    OBVIOUS
  <1>. USE DEF IInv, Dispatch,
            dbVars, netVars, agentVars, lineVars, costVars
  <1>1. TypeOK'
    BY SessionAssumption DEF TypeOK, PcStates
  <1>2. Quiet'
    BY DEF Quiet
  <1>3. OnTheWay'
    BY DEF OnTheWay
  <1>4. Kept'
    BY DEF Kept
  <1>. QED
    BY <1>1, <1>2, <1>3, <1>4

LEMMA ContextFailsGood == IInv /\ ContextFails => IInv'
  <1>. SUFFICES ASSUME IInv, ContextFails PROVE IInv'
    OBVIOUS
  <1>. USE DEF IInv, ContextFails, Blank,
            dbVars, netVars, agentVars, lineVars, costVars
  <1>1. TypeOK'
    BY BlankTypes DEF TypeOK, PcStates
  <1>2. Quiet'
    BY DEF Quiet
  <1>3. OnTheWay'
    BY DEF OnTheWay
  <1>4. Kept'
    BY SessionAssumption DEF Kept, Seqs
  <1>. QED
    BY <1>1, <1>2, <1>3, <1>4

LEMMA ContextLoadedGood == IInv /\ ContextLoaded => IInv'
  <1>. SUFFICES ASSUME IInv, ContextLoaded PROVE IInv'
    OBVIOUS
  <1>. USE DEF IInv, ContextLoaded, EntryGoes,
            dbVars, netVars, agentVars, lineVars, costVars
  <1>1. TypeOK'
    BY DEF TypeOK, PcStates
  <1>2. Quiet'
    BY DEF Quiet
  <1>3. OnTheWay'
    BY DEF OnTheWay
  <1>4. Kept'
    BY DEF Kept
  <1>. QED
    BY <1>1, <1>2, <1>3, <1>4

LEMMA OpeningFailsGood == IInv /\ OpeningFails => IInv'
  <1>. SUFFICES ASSUME IInv, OpeningFails PROVE IInv'
    OBVIOUS
  <1>. USE DEF IInv, OpeningFails, EntryGoes,
            dbVars, netVars, agentVars, lineVars, costVars
  <1>1. TypeOK'
    BY DEF TypeOK, PcStates
  <1>2. Quiet'
    BY DEF Quiet
  <1>3. OnTheWay'
    BY DEF OnTheWay
  <1>4. Kept'
    BY DEF Kept
  <1>. QED
    BY <1>1, <1>2, <1>3, <1>4

LEMMA OpenedGood == IInv /\ Opened => IInv'
  <1>. SUFFICES ASSUME IInv, Opened PROVE IInv'
    OBVIOUS
  <1>. USE DEF IInv, Opened, EntryGoes, Post,
            dbVars, netVars, agentVars, lineVars, costVars
  <1>0. job \in Jobs
    BY DEF TypeOK, Jobs, Quiet
  <1>1. TypeOK'
    BY <1>0, Requests DEF TypeOK, PcStates
  <1>2. Quiet'
    BY DEF Quiet
  <1>3. OnTheWay'
    <2>1. Started(job).kind # "ended"
      BY <1>0, Requests
    <2>. QED
      BY <2>1 DEF OnTheWay
  <1>4. Kept'
    BY DEF Kept
  <1>. QED
    BY <1>1, <1>2, <1>3, <1>4

LEMMA StartedReturnsGood == IInv /\ StartedReturns => IInv'
  <1>. SUFFICES ASSUME IInv, StartedReturns PROVE IInv'
    OBVIOUS
  <1>. USE DEF IInv, StartedReturns, EntryGoes, Answered,
            dbVars, netVars, agentVars, lineVars, costVars
  <1>0. job \in Jobs
    BY DEF TypeOK, Jobs, Quiet
  <1>1. TypeOK'
    BY DEF TypeOK, PcStates, Reasons
  <1>2. Quiet'
    BY DEF Quiet
  <1>3. OnTheWay'
    <2>1. Started(job).kind = "started"
      BY <1>0, Requests
    <2>. QED
      BY <2>1 DEF OnTheWay
  <1>4. Kept'
    BY DEF Kept
  <1>. QED
    BY <1>1, <1>2, <1>3, <1>4

LEMMA StartedRaisesGood == IInv /\ StartedRaises => IInv'
  <1>. SUFFICES ASSUME IInv, StartedRaises PROVE IInv'
    OBVIOUS
  <1>. USE DEF IInv, StartedRaises, EntryGoes, GivenUp,
            dbVars, netVars, agentVars, lineVars, costVars
  <1>1. TypeOK'
    BY DEF TypeOK, PcStates
  <1>2. Quiet'
    BY DEF Quiet
  <1>3. OnTheWay'
    BY DEF OnTheWay
  <1>4. Kept'
    BY DEF Kept
  <1>. QED
    BY <1>1, <1>2, <1>3, <1>4

LEMMA CallEndsGood == IInv /\ CallEnds => IInv'
  <1>. SUFFICES ASSUME IInv, CallEnds PROVE IInv'
    OBVIOUS
  <1>. USE DEF IInv, CallEnds, EntryGoes,
            dbVars, netVars, agentVars, lineVars, costVars
  <1>1. TypeOK'
    BY DEF TypeOK, PcStates, Reasons
  <1>2. Quiet'
    BY DEF Quiet
  <1>3. OnTheWay'
    BY DEF OnTheWay
  <1>4. Kept'
    BY DEF Kept
  <1>. QED
    BY <1>1, <1>2, <1>3, <1>4

LEMMA EntryReturnsGood == IInv /\ EntryReturns => IInv'
  <1>. SUFFICES ASSUME IInv, EntryReturns PROVE IInv'
    OBVIOUS
  <1>. USE DEF IInv, EntryReturns, EntryGoes,
            dbVars, netVars, agentVars, lineVars, costVars
  <1>1. TypeOK'
    BY DEF TypeOK, PcStates
  <1>2. Quiet'
    BY DEF Quiet
  <1>3. OnTheWay'
    BY DEF OnTheWay
  <1>4. Kept'
    BY DEF Kept
  <1>. QED
    BY <1>1, <1>2, <1>3, <1>4

LEMMA SaysGood == IInv /\ Says => IInv'
  <1>. SUFFICES ASSUME IInv, Says PROVE IInv'
    OBVIOUS
  <1>. USE DEF IInv, Says, Talking,
            dbVars, netVars, agentVars, lineVars, costVars
  <1>1. TypeOK'
    BY SessionAssumption DEF TypeOK, Seqs
  <1>2. Quiet'
    BY DEF Quiet
  <1>3. OnTheWay'
    BY DEF OnTheWay
  <1>4. Kept'
    BY SessionAssumption DEF Kept, TypeOK, Seqs
  <1>. QED
    BY <1>1, <1>2, <1>3, <1>4

LEMMA UsesGood == IInv /\ Uses => IInv'
  <1>. SUFFICES ASSUME IInv, Uses PROVE IInv'
    OBVIOUS
  <1>1. used' \in 0..MaxUsage /\ unreported' \in Nat
    BY SessionAssumption DEF IInv, TypeOK, Uses
  <1>2. UNCHANGED <<ticking, agentVars, lineVars, last, dbVars, netVars>>
    BY DEF Uses
  <1>. USE DEF dbVars, netVars, agentVars, lineVars
  <1>3. TypeOK'
    BY <1>1, <1>2 DEF IInv, TypeOK
  <1>. QED
    BY <1>2, <1>3 DEF IInv, Quiet, OnTheWay, Kept

LEMMA FlushBeginsGood == IInv /\ FlushBegins => IInv'
  <1>. SUFFICES ASSUME IInv, FlushBegins PROVE IInv'
    OBVIOUS
  <1>. USE SessionAssumption
       DEF IInv, FlushBegins, dbVars, agentVars, costVars
  <1>1. job \in Jobs
    BY DEF TypeOK, Jobs, Quiet
  <1>2. TypeOK'
    BY <1>1, FlushKeeps DEF TypeOK
  <1>3. OnTheWay'
    BY <1>1, FlushKeeps DEF OnTheWay
  <1>4. Kept'
    BY <1>1, FlushKeeps DEF Kept
  <1>5. Quiet'
    BY DEF Quiet
  <1>. QED
    BY <1>2, <1>3, <1>4, <1>5

LEMMA TickerPostsGood == IInv /\ TickerPosts => IInv'
  <1>. SUFFICES ASSUME IInv, TickerPosts PROVE IInv'
    OBVIOUS
  <1>. USE DEF IInv, TickerPosts, Post,
            dbVars, netVars, agentVars, lineVars, costVars
  <1>0. job \in Jobs
    BY DEF TypeOK, Jobs, Quiet
  <1>a. /\ Cost(job, unreported, used) \in Request
        /\ Cost(job, unreported, used).kind = "cost"
    BY <1>0, Requests DEF TypeOK
  <1>1. TypeOK'
    BY <1>a DEF TypeOK
  <1>2. Quiet'
    BY DEF Quiet
  <1>3. OnTheWay'
    BY <1>a DEF OnTheWay
  <1>4. Kept'
    BY DEF Kept
  <1>. QED
    BY <1>1, <1>2, <1>3, <1>4

LEMMA TickerReturnsGood == IInv /\ TickerReturns => IInv'
  <1>. SUFFICES ASSUME IInv, TickerReturns PROVE IInv'
    OBVIOUS
  <1>. USE DEF IInv, TickerReturns, Answered,
            dbVars, netVars, agentVars, lineVars, costVars
  <1>1. TypeOK'
    BY DEF TypeOK, PcStates
  <1>2. Quiet'
    BY DEF Quiet
  <1>3. OnTheWay'
    BY DEF OnTheWay
  <1>4. Kept'
    BY DEF Kept
  <1>. QED
    BY <1>1, <1>2, <1>3, <1>4

LEMMA TickerRaisesGood == IInv /\ TickerRaises => IInv'
  <1>. SUFFICES ASSUME IInv, TickerRaises PROVE IInv'
    OBVIOUS
  <1>. USE DEF IInv, TickerRaises, GivenUp,
            dbVars, netVars, agentVars, lineVars, costVars
  <1>1. TypeOK'
    BY DEF TypeOK, PcStates
  <1>2. Quiet'
    BY DEF Quiet
  <1>3. OnTheWay'
    BY DEF OnTheWay
  <1>4. Kept'
    BY DEF Kept
  <1>. QED
    BY <1>1, <1>2, <1>3, <1>4

LEMMA ExitsGood == IInv /\ Exits => IInv'
  <1>. SUFFICES ASSUME IInv, Exits PROVE IInv'
    OBVIOUS
  <1>. USE DEF IInv, Exits, Blank,
            dbVars, netVars, agentVars, lineVars, costVars
  <1>1. TypeOK'
    BY BlankTypes DEF TypeOK, PcStates
  <1>2. Quiet'
    BY DEF Quiet
  <1>3. OnTheWay'
    BY DEF OnTheWay
  <1>4. Kept'
    BY SessionAssumption DEF Kept, Seqs
  <1>. QED
    BY <1>1, <1>2, <1>3, <1>4

LEMMA CrashGood == IInv /\ Crash => IInv'
  <1>. SUFFICES ASSUME IInv, Crash PROVE IInv'
    OBVIOUS
  <1>. USE DEF IInv, Crash, Blank,
            dbVars, netVars, agentVars, lineVars, costVars
  <1>1. TypeOK'
    BY BlankTypes DEF TypeOK, PcStates
  <1>2. Quiet'
    BY DEF Quiet
  <1>3. OnTheWay'
    BY DEF OnTheWay
  <1>4. Kept'
    BY SessionAssumption DEF Kept, Seqs
  <1>. QED
    BY <1>1, <1>2, <1>3, <1>4

LEMMA UnchangedGood == IInv /\ UNCHANGED vars => IInv'
  BY DEF IInv, TypeOK, Quiet, OnTheWay, Kept, vars, dbVars, netVars,
         agentVars, lineVars, costVars

LEMMA EventsAppended ==
    ASSUME TypeOK, NEW why \in Reasons, MarkStarted \/ MarkEnded(why)
    PROVE  events' \in Seq({"created", "started", "ended"})
  <1>1. events \in Seq({"created", "started", "ended"})
    BY DEF TypeOK
  <1>2. events' \in {events, Append(events, "started"), Append(events, "ended")}
    BY DEF MarkStarted, MarkEnded
  <1>. QED
    BY <1>1, <1>2

LEMMA DeliverGood ==
    ASSUME IInv, NEW m \in net, Deliver(m)
    PROVE  IInv'
  <1>. USE SessionAssumption
       DEF IInv, Deliver, Applied, agentVars, lineVars, costVars
  <1>1. m \in Request
    BY DEF TypeOK
  <1>2. CASE m.kind = "started"
    <2>0. MarkStarted /\ events' \in Seq({"created", "started", "ended"})
      BY <1>1, <1>2, EventsAppended DEF Request, Reasons
    <2>. USE <2>0, <1>2 DEF MarkStarted
    <2>1. TypeOK'
      BY <1>1, <2>0 DEF TypeOK
    <2>2. OnTheWay'
      BY DEF OnTheWay
    <2>. QED
      BY <2>1, <2>2 DEF Quiet, Kept
  <1>3. CASE m.kind = "ended"
    <2>0. MarkEnded(m.reason) /\ events' \in Seq({"created", "started", "ended"})
      BY <1>1, <1>3, EventsAppended DEF Request, Reasons
    <2>. USE <2>0, <1>3 DEF MarkEnded
    <2>1. TypeOK'
      BY <1>1, <2>0 DEF TypeOK
    <2>2. OnTheWay'
      BY DEF OnTheWay
    <2>. QED
      BY <2>1, <2>2 DEF Quiet, Kept
  <1>4. CASE m.kind = "lines"
    <2>. USE <1>4 DEF AppendTranscript
    <2>1. m.job \in 0..MaxJobs /\ m.job # 0 /\ m.lines \in SUBSET Seqs
      BY <1>1 DEF Request, Jobs
    <2>2. TypeOK'
      BY <1>1, <2>1 DEF TypeOK
    <2>3. \A i \in Seqs : stored'[i] # 0 <=> stored[i] # 0 \/ i \in m.lines
      BY <2>1 DEF TypeOK
    <2>4. OnTheWay'
      BY <2>3 DEF OnTheWay
    <2>5. Kept'
      BY <2>3 DEF Kept
    <2>. QED
      BY <2>2, <2>4, <2>5 DEF Quiet
  <1>5. CASE m.kind = "cost"
    <2>. USE <1>5 DEF AppendCost
    <2>1. TypeOK'
      BY <1>1 DEF TypeOK, Request
    <2>2. OnTheWay'
      BY DEF OnTheWay
    <2>. QED
      BY <2>1, <2>2 DEF Quiet, Kept
  <1>. QED
    BY <1>1, <1>2, <1>3, <1>4, <1>5 DEF Request

LEMMA FlushReturnsGood ==
    ASSUME IInv, NEW f \in flights, FlushReturns(f)
    PROVE  IInv'
  <1>. USE SessionAssumption
       DEF IInv, FlushReturns, Answered, dbVars, agentVars, costVars
  <1>1. TypeOK'
    BY DEF TypeOK
  <1>2. Quiet' /\ OnTheWay'
    BY DEF Quiet, OnTheWay
  <1>3. job \in Jobs /\ f.lines \in SUBSET Seqs
    BY DEF TypeOK, Jobs, Quiet
  <1>4. Lines(job, f.lines).kind = "lines" /\ Lines(job, f.lines).lines = f.lines
    BY <1>3, Requests
  <1>5. \A i \in f.lines : stored[i] # 0
    BY <1>3, <1>4 DEF OnTheWay
  <1>6. Kept'
    BY <1>5 DEF Kept
  <1>. QED
    BY <1>1, <1>2, <1>6

LEMMA FlushRaisesGood ==
    ASSUME IInv, NEW f \in flights, FlushRaises(f)
    PROVE  IInv'
  <1>. USE SessionAssumption
       DEF IInv, FlushRaises, GivenUp, dbVars, agentVars, costVars
  <1>1. TypeOK'
    BY DEF TypeOK
  <1>2. Quiet' /\ OnTheWay'
    BY DEF Quiet, OnTheWay
  <1>3. Kept'
    BY DEF Kept
  <1>. QED
    BY <1>1, <1>2, <1>3

\* finalize's last requests are well typed, and an end that is not an error is
\* reported only for a session that was recorded as started.
LEMMA PostLastGood ==
    ASSUME IInv, pc \notin {"off", "loading"}, PostLast,
           UNCHANGED <<job, pc, reason, lineVars, dbVars>>
    PROVE  IInv'
  <1>. USE DEF IInv, PostLast, Post, lineVars, dbVars
  <1>1. job \in Jobs
    BY DEF TypeOK, Jobs
  <1>2. /\ EndedAs(job, reason) \in Request
        /\ EndedAs(job, reason).reason = reason
    BY <1>1, Requests DEF TypeOK
  <1>3. /\ Cost(job, unreported, used) \in Request
        /\ Cost(job, unreported, used).kind = "cost"
    BY <1>1, Requests DEF TypeOK
  <1>4. TypeOK'
    BY <1>2, <1>3 DEF TypeOK
  <1>5. OnTheWay'
    BY <1>2, <1>3 DEF OnTheWay
  <1>6. Quiet' /\ Kept'
    BY DEF Quiet, Kept
  <1>. QED
    BY <1>4, <1>5, <1>6

LEMMA FinalizeBeginsGood == IInv /\ FinalizeBegins => IInv'
  <1>. SUFFICES ASSUME IInv, FinalizeBegins PROVE IInv'
    OBVIOUS
  <1>1. CASE buf = {}
    BY <1>1, PostLastGood DEF FinalizeBegins, lineVars, dbVars
  <1>2. CASE buf # {}
    <2>. USE <1>2 DEF IInv, FinalizeBegins, costVars, dbVars
    <2>1. job \in Jobs /\ Flush("finalize")
      BY SessionAssumption DEF TypeOK, Jobs
    <2>2. TypeOK'
      BY <2>1, FlushKeeps DEF TypeOK
    <2>3. OnTheWay'
      BY <2>1, FlushKeeps DEF OnTheWay
    <2>4. Kept'
      BY <2>1, FlushKeeps DEF Kept
    <2>. QED
      BY <2>2, <2>3, <2>4 DEF Quiet
  <1>. QED
    BY <1>1, <1>2

LEMMA FinalizePostsGood == IInv /\ FinalizePosts => IInv'
  <1>. SUFFICES ASSUME IInv, FinalizePosts PROVE IInv'
    OBVIOUS
  <1>1. pc \notin {"off", "loading"}
    BY DEF IInv, Quiet, FinalizePosts
  <1>. QED
    BY <1>1, PostLastGood DEF FinalizePosts

LEMMA LastGood ==
    ASSUME IInv, NEW m \in last, LastReturns(m) \/ LastRaises(m)
    PROVE  IInv'
  BY DEF IInv, TypeOK, Quiet, OnTheWay, Kept, LastReturns, LastRaises,
         Answered, GivenUp, agentVars, lineVars, costVars, dbVars

LEMMA StopEndsGood == IInv /\ StopEnds => IInv'
  BY DEF IInv, TypeOK, Quiet, OnTheWay, Kept, StopEnds, lineVars, costVars,
         dbVars, netVars

LEMMA StepGood == IInv /\ [Next]_vars => IInv'
  <1>. SUFFICES ASSUME IInv, [Next]_vars PROVE IInv'
    OBVIOUS
  <1>1. CASE \E m \in net : Deliver(m)
    BY <1>1, DeliverGood
  <1>2. CASE Entry
    BY <1>2, ContextFailsGood, ContextLoadedGood, OpeningFailsGood, OpenedGood,
       StartedReturnsGood, StartedRaisesGood, CallEndsGood, EntryReturnsGood
       DEF Entry
  <1>3. CASE Flushing
    BY <1>3, FlushBeginsGood, FlushReturnsGood, FlushRaisesGood DEF Flushing
  <1>4. CASE Ticker
    BY <1>4, TickerPostsGood, TickerReturnsGood, TickerRaisesGood DEF Ticker
  <1>5. CASE Finalize
    BY <1>5, FinalizeBeginsGood, FinalizePostsGood, LastGood, StopEndsGood,
       ExitsGood DEF Finalize
  <1>6. CASE Dispatch \/ Says \/ Uses \/ Crash
    BY <1>6, DispatchGood, SaysGood, UsesGood, CrashGood
  <1>7. CASE UNCHANGED vars
    BY <1>7, UnchangedGood
  <1>. QED
    BY <1>1, <1>2, <1>3, <1>4, <1>5, <1>6, <1>7 DEF Next

-----------------------------------------------------------------------------
(* Theorems. *)

\* The strengthening of the properties below, inductive.
THEOREM Invariance == Spec => []IInv
  <1>. QED
    BY InitIInv, StepGood, PTL DEF Spec

\* The session's rows, the requests and the agent's process are well typed.
THEOREM TypeCorrect == Spec => []TypeOK
  <1>1. IInv => TypeOK
    BY DEF IInv
  <1>. QED
    BY <1>1, Invariance, PTL

\* Nothing is sent or stored for a job that has not begun.
Numbered ==
    /\ \A m \in net : m.job <= job
    /\ \A i \in Seqs : stored[i] <= job

\* Steps that store nothing, and post for the present job at most.
LEMMA NumberedStays ==
    ASSUME TypeOK, Numbered, UNCHANGED stored, job' \in {job, job + 1},
           \A m \in net' : m \in net \/ m.job = job
    PROVE  Numbered'
  <1>1. job \in Nat /\ job' \in Nat /\ job <= job'
    BY SessionAssumption DEF TypeOK
  <1>2. \A m \in net : m.job \in Nat
    BY DEF TypeOK, Request, Jobs
  <1>3. \A i \in Seqs : stored[i] \in Nat
    BY DEF TypeOK
  <1>4. ASSUME NEW m \in net' PROVE m.job <= job'
    BY <1>1, <1>2 DEF Numbered
  <1>5. ASSUME NEW i \in Seqs PROVE stored'[i] <= job'
    BY <1>1, <1>3 DEF Numbered
  <1>. QED
    BY <1>4, <1>5 DEF Numbered

LEMMA StepNumbered == IInv /\ Numbered /\ [Next]_vars => Numbered'
  <1>. SUFFICES ASSUME IInv, TypeOK, Quiet, Numbered, [Next]_vars
                PROVE  Numbered'
    BY DEF IInv
  <1>0. pc \notin {"off", "loading"} => job \in Jobs
    BY DEF TypeOK, Jobs
  <1>. USE DEF dbVars, netVars, agentVars
  <1>1. ASSUME NEW m \in net, Deliver(m) PROVE Numbered'
    <2>1. net' = net \ {m} /\ job' = job /\ m.job <= job
      BY <1>1 DEF Deliver, Numbered
    <2>2. ASSUME NEW i \in Seqs PROVE stored'[i] \in {stored[i], m.job}
      BY <1>1, <2>2 DEF Deliver, Applied, MarkStarted, MarkEnded,
                        AppendTranscript, AppendCost, TypeOK, Request
    <2>. QED
      BY <2>1, <2>2 DEF Numbered
  <1>2. CASE Opened
    <2>1. Started(job).job = job
      BY <1>0, <1>2, Requests DEF Opened, EntryGoes
    <2>. QED
      BY <1>2, <2>1, NumberedStays DEF Opened, EntryGoes, Post
  <1>3. CASE FlushBegins \/ (FinalizeBegins /\ buf # {})
    <2>1. job \in Jobs /\ buf \in SUBSET Seqs
      BY <1>0, <1>3 DEF FlushBegins, FinalizeBegins, Quiet, TypeOK
    <2>2. Lines(job, buf).job = job
      BY <2>1, Requests
    <2>. QED
      BY <1>3, <2>2, NumberedStays DEF FlushBegins, FinalizeBegins, Flush, Post
  <1>4. CASE TickerPosts
    <2>1. Cost(job, unreported, used).job = job
      BY <1>0, <1>4, Requests DEF TickerPosts, TypeOK
    <2>. QED
      BY <1>4, <2>1, NumberedStays DEF TickerPosts, Post
  <1>5. CASE FinalizePosts \/ (FinalizeBegins /\ buf = {})
    <2>1. job \in Jobs
      BY <1>0, <1>5 DEF FinalizePosts, FinalizeBegins, Quiet
    <2>2. Cost(job, unreported, used).job = job /\ EndedAs(job, reason).job = job
      BY <2>1, Requests DEF TypeOK
    <2>. QED
      BY <1>5, <2>2, NumberedStays
         DEF FinalizePosts, FinalizeBegins, PostLast, Post
  <1>6. CASE \/ Dispatch \/ Says \/ Uses \/ Crash \/ Exits \/ StopEnds
             \/ ContextFails \/ ContextLoaded \/ OpeningFails
             \/ StartedReturns \/ StartedRaises \/ CallEnds \/ EntryReturns
             \/ TickerReturns \/ TickerRaises \/ UNCHANGED vars
    <2>1. UNCHANGED <<stored, net>> /\ job' \in {job, job + 1}
      BY <1>6 DEF Dispatch, Says, Uses, Crash, Exits, StopEnds, ContextFails,
                  ContextLoaded, OpeningFails, StartedReturns, StartedRaises,
                  CallEnds, EntryReturns, TickerReturns, TickerRaises, vars,
                  EntryGoes, Answered, GivenUp
    <2>. QED
      BY <2>1, NumberedStays
  <1>7. CASE \/ \E f \in flights : FlushReturns(f) \/ FlushRaises(f)
             \/ \E m \in last : LastReturns(m) \/ LastRaises(m)
    <2>1. UNCHANGED <<stored, net, job>>
      BY <1>7 DEF FlushReturns, FlushRaises, LastReturns, LastRaises, Answered,
                  GivenUp
    <2>. QED
      BY <2>1, NumberedStays
  <1>8. CASE Entry
    BY <1>2, <1>6, <1>8 DEF Entry
  <1>9. CASE Flushing \/ Ticker
    BY <1>3, <1>4, <1>6, <1>7, <1>9 DEF Flushing, Ticker
  <1>10. CASE Finalize
    BY <1>3, <1>5, <1>6, <1>7, <1>10 DEF Finalize
  <1>. QED
    BY <1>1, <1>6, <1>8, <1>9, <1>10 DEF Next

\* Each line of the running job stays buffered, in flight or stored as this job's,
\* however many flushes overlap and fail and whatever arrives late, unless an
\* earlier job's line has taken its number.
THEOREM LinesKept == Spec => []NoLineLost
  <1>1. IInv /\ Numbered => NoLineLost
    <2>. SUFFICES ASSUME IInv, Numbered, NEW i \in Seqs, i < seq, stored[i] # 0
                  PROVE  stored[i] = job \/ Taken(i)
      BY DEF IInv, Kept, NoLineLost
    <2>1. job \in Nat /\ stored[i] \in Nat /\ stored[i] <= job
      BY SessionAssumption DEF IInv, TypeOK, Numbered
    <2>. QED
      BY <2>1 DEF Taken
  <1>2. Init => Numbered
    BY DEF Init, Numbered, Seqs
  <1>3. Spec => []Numbered
    BY <1>2, StepNumbered, Invariance, PTL DEF Spec
  <1>. QED
    BY <1>1, <1>3, Invariance, PTL

\* The agent and the api together implement Lifecycle: for any number of jobs,
\* late, lost or repeated requests, a session recorded as ended was live, an end is
\* final, and each change is announced once.
THEOREM ImplementsLifecycle == Spec => KeepsLifecycle
  <1>1. Init => Promise!Init
    BY DEF Init, Promise!Init
  <1>2. IInv /\ [Next]_vars => [Promise!Next]_Promise!record
    <2>. SUFFICES ASSUME IInv, Next, ~ UNCHANGED Promise!record
                  PROVE  Promise!Next
      BY DEF vars, dbVars, Promise!record
    <2>. USE DEF Promise!record
    <2>1. PICK m \in net : Deliver(m)
      BY DEF Next, Dispatch, Entry, ContextFails, ContextLoaded, OpeningFails,
             Opened, StartedReturns, StartedRaises, CallEnds, EntryReturns,
             Says, Uses, Flushing, FlushBegins, FlushReturns, FlushRaises,
             Ticker, TickerPosts, TickerReturns, TickerRaises, Finalize,
             FinalizeBegins, FinalizePosts, StopEnds, Exits, LastReturns, LastRaises,
             Crash, dbVars
    <2>2. m.kind \in {"started", "ended"} /\ status \in {"created", "live"}
      BY <2>1 DEF Deliver, Applied, MarkStarted, MarkEnded, AppendTranscript,
                  AppendCost, IInv, TypeOK, Request
    <2>3. CASE m.kind = "started"
      BY <2>1, <2>3 DEF Deliver, Applied, MarkStarted, Promise!Next,
                        Promise!Start, Promise!Becomes
    <2>4. CASE m.kind = "ended"
      <3>1. m.reason # "error" => status = "live"
        BY <2>2, <2>4 DEF IInv, OnTheWay
      <3>2. MarkEnded(m.reason)
        BY <2>1, <2>4 DEF Deliver, Applied
      <3>. QED
        BY <2>2, <3>1, <3>2 DEF MarkEnded, Promise!Next, Promise!End,
                                Promise!Fail, Promise!Becomes
    <2>. QED
      BY <2>2, <2>3, <2>4
  <1>. QED
    BY <1>1, <1>2, Invariance, PTL DEF Spec, KeepsLifecycle, Promise!Spec

-----------------------------------------------------------------------------
(* Billing. *)

\* The units of usage that a cost request reports, numbered as they were used;
\* none for a request of another kind.
Units(m) == (m.upto - m.qty + 1)..m.upto

\* B are units that were billed: none of them is still unreported or under way, and
\* no two requests under way report the same unit.
Ledger(B) ==
    /\ IsFiniteSet(B)
    /\ Cardinality(B) = billed
    /\ \A b \in B : b \in 1..used /\ b + unreported <= used
    /\ \A m \in net : B \cap Units(m) = {}

Reported ==
    /\ unreported <= used
    /\ \A m \in net : m.qty <= m.upto /\ m.upto + unreported <= used
    /\ \A m, n \in net : m # n => Units(m) \cap Units(n) = {}

\* The ledger only has a sum; which units it stands for is a history that the
\* invariant claims to exist.
Billing == Reported /\ \E B : Ledger(B)

LEMMA Quantities ==
    /\ \A j \in Jobs : Started(j).qty = 0 /\ Started(j).upto = 0
    /\ \A j \in Jobs, batch \in SUBSET Seqs :
          Lines(j, batch).qty = 0 /\ Lines(j, batch).upto = 0
    /\ \A j \in Jobs, why \in Reasons :
          EndedAs(j, why).qty = 0 /\ EndedAs(j, why).upto = 0
    /\ \A j \in Jobs, n, total \in Nat :
          Cost(j, n, total).qty = n /\ Cost(j, n, total).upto = total
  BY DEF Started, Lines, Cost, EndedAs

\* Only requests that report nothing are posted, and usage may be forgotten.
PostsNothing ==
    /\ billed' = billed /\ used' = used
    /\ unreported' \in {0, unreported}
    /\ \A m \in net' : m \in net \/ (m.qty = 0 /\ m.upto = 0)

LEMMA BillingStays == TypeOK /\ Billing /\ PostsNothing => Billing'
  <1>. SUFFICES ASSUME TypeOK, Billing, PostsNothing PROVE Billing'
    OBVIOUS
  <1>. USE DEF PostsNothing
  <1>1. PICK B : Ledger(B)
    BY DEF Billing
  <1>2. \A m : m.qty = 0 /\ m.upto = 0 => Units(m) = {}
    BY DEF Units
  <1>3. unreported' <= unreported /\ unreported' \in Nat /\ used \in Nat
    BY SessionAssumption DEF TypeOK
  <1>4. \A m \in net : m.upto \in Nat
    BY DEF TypeOK, Request
  <1>5. Reported'
    BY <1>2, <1>3, <1>4 DEF TypeOK, Billing, Reported, Units
  <1>6. Ledger(B)'
    BY <1>1, <1>2, <1>3 DEF TypeOK, Ledger, Units
  <1>. QED
    BY <1>5, <1>6 DEF Billing

\* What was used and not reported is posted: these units are new to the network.
PostsUsage ==
    /\ job \in Jobs
    /\ billed' = billed /\ used' = used
    /\ unreported' = 0
    /\ \A m \in net' : \/ m \in net
                       \/ m.qty = 0 /\ m.upto = 0
                       \/ m = Cost(job, unreported, used)

LEMMA BillingPosts == TypeOK /\ Billing /\ PostsUsage => Billing'
  <1>. SUFFICES ASSUME TypeOK, Billing, PostsUsage PROVE Billing'
    OBVIOUS
  <1>. USE DEF PostsUsage
  <1>. DEFINE c == Cost(job, unreported, used)
  <1>1. PICK B : Ledger(B)
    BY DEF Billing
  <1>2. unreported \in Nat /\ used \in Nat /\ unreported <= used
    BY SessionAssumption DEF TypeOK, Billing, Reported
  <1>3. Units(c) = (used - unreported + 1)..used /\ c.qty = unreported /\ c.upto = used
    BY <1>2, Quantities DEF Units
  <1>4. \A m : m.qty = 0 /\ m.upto = 0 => Units(m) = {}
    BY DEF Units
  <1>5. \A m \in net : m.upto \in Nat /\ m.qty \in Nat
    BY DEF TypeOK, Request
  <1>6. \A m \in net : Units(m) \cap Units(c) = {}
    BY <1>2, <1>3, <1>5 DEF Units, Billing, Reported
  <1>. HIDE DEF c
  <1>7. Reported'
    <2>1. \A m \in net' : m.qty <= m.upto /\ m.upto + unreported' <= used'
      BY <1>2, <1>3, <1>5 DEF c, Billing, Reported
    <2>2. ASSUME NEW m \in net', NEW n \in net', m # n
          PROVE  Units(m) \cap Units(n) = {}
      BY <1>4, <1>6, <2>2 DEF c, Billing, Reported
    <2>. QED
      BY <1>2, <2>1, <2>2 DEF Reported, Units
  <1>8. Ledger(B)'
    <2>1. \A b \in B : b \in 1..used /\ b + unreported <= used
      BY <1>1 DEF Ledger
    <2>2. B \cap Units(c) = {}
      BY <1>2, <1>3, <2>1
    <2>3. ASSUME NEW m \in net' PROVE B \cap Units(m) = {}
      BY <1>1, <1>4, <2>2 DEF c, Ledger
    <2>4. \A b \in B : b \in 1..used' /\ b + unreported' <= used'
      BY <1>2, <2>1
    <2>. QED
      BY <1>1, <2>3, <2>4 DEF Ledger, Units
  <1>. QED
    BY <1>7, <1>8 DEF Billing

\* One more unit is used.
LEMMA BillingUses == TypeOK /\ Billing /\ Uses => Billing'
  <1>. SUFFICES ASSUME TypeOK, Billing, Uses PROVE Billing'
    OBVIOUS
  <1>1. PICK B : Ledger(B)
    BY DEF Billing
  <1>2. /\ used \in Nat /\ unreported \in Nat
        /\ used' = used + 1 /\ unreported' = unreported + 1
        /\ net' = net /\ billed' = billed
    BY SessionAssumption DEF TypeOK, Uses, netVars, dbVars
  <1>3. \A m \in net : m.upto \in Nat
    BY DEF TypeOK, Request
  <1>4. Reported'
    BY <1>2, <1>3 DEF Billing, Reported, Units
  <1>5. Ledger(B)'
    BY <1>1, <1>2 DEF Ledger, Units
  <1>. QED
    BY <1>4, <1>5 DEF Billing

\* The api bills the units of a request, each of them for the first time.
LEMMA BillingDelivers ==
    ASSUME TypeOK, Billing, NEW m \in net, Deliver(m)
    PROVE  Billing'
  <1>1. /\ net' = net \ {m}
        /\ UNCHANGED <<used, unreported>>
        /\ billed' = billed + m.qty \/ billed' = billed
    BY DEF Deliver, Applied, MarkStarted, MarkEnded, AppendTranscript, AppendCost,
           costVars, TypeOK, Request
  <1>2. CASE billed' = billed
    <2>1. PostsNothing
      BY <1>1, <1>2 DEF PostsNothing
    <2>. QED
      BY <2>1, BillingStays
  <1>3. CASE billed' = billed + m.qty
    <2>1. PICK B : Ledger(B)
      BY DEF Billing
    <2>2. /\ m.qty \in Nat /\ m.upto \in Nat /\ used \in Nat /\ unreported \in Nat
          /\ m.qty <= m.upto /\ m.upto + unreported <= used
      BY SessionAssumption DEF TypeOK, Request, Billing, Reported
    <2>3. IsFiniteSet(Units(m)) /\ Cardinality(Units(m)) = m.qty
      <3>1. m.upto - m.qty + 1 \in Int /\ m.upto \in Int
        BY <2>2
      <3>2. /\ IsFiniteSet((m.upto - m.qty + 1)..m.upto)
            /\ Cardinality((m.upto - m.qty + 1)..m.upto) =
                  IF m.upto - m.qty + 1 > m.upto THEN 0
                  ELSE m.upto - (m.upto - m.qty + 1) + 1
        BY <3>1, FS_Interval
      <3>3. m.upto - m.qty + 1 > m.upto => m.qty = 0
        BY <2>2
      <3>4. m.upto - (m.upto - m.qty + 1) + 1 = m.qty
        BY <2>2
      <3>. QED
        BY <3>2, <3>3, <3>4 DEF Units
    <2>4. B \cap Units(m) = {} /\ IsFiniteSet(B) /\ Cardinality(B) = billed
      BY <2>1 DEF Ledger
    <2>5. IsFiniteSet(B \cup Units(m)) /\ Cardinality(B \cup Units(m)) = billed'
      <3>1. /\ IsFiniteSet(B \cup Units(m))
            /\ Cardinality(B \cup Units(m)) =
                  Cardinality(B) + Cardinality(Units(m)) - Cardinality(B \cap Units(m))
        BY <2>3, <2>4, FS_Union
      <3>2. Cardinality(B \cap Units(m)) = 0
        BY <2>4, FS_EmptySet
      <3>3. billed \in Nat
        BY DEF TypeOK
      <3>. QED
        BY <1>3, <2>2, <2>3, <2>4, <3>1, <3>2, <3>3
    <2>6. Reported'
      BY <1>1 DEF Billing, Reported, Units
    <2>7. \A b \in Units(m) : b \in 1..used /\ b + unreported <= used
      BY <2>2 DEF Units
    <2>8. \A n \in net' : (B \cup Units(m)) \cap Units(n) = {}
      BY <1>1, <2>1 DEF Ledger, Billing, Reported
    <2>9. Ledger(B \cup Units(m))'
      BY <1>1, <2>1, <2>5, <2>7, <2>8 DEF Ledger, Units
    <2>. QED
      BY <2>6, <2>9 DEF Billing
  <1>. QED
    BY <1>1, <1>2, <1>3

\* What finalize and the ticker post.
LEMMA PostLastBills ==
    TypeOK /\ Billing /\ job \in Jobs /\ PostLast /\ UNCHANGED dbVars => Billing'
  <1>. SUFFICES ASSUME TypeOK, Billing, job \in Jobs, PostLast, UNCHANGED dbVars
                PROVE  Billing'
    OBVIOUS
  <1>1. /\ UNCHANGED <<billed, used>>
        /\ unreported' = 0
        /\ \A m \in net' : \/ m \in net
                           \/ m = EndedAs(job, reason)
                           \/ m = Cost(job, unreported, used)
    BY DEF PostLast, Post, dbVars
  <1>2. EndedAs(job, reason).qty = 0 /\ EndedAs(job, reason).upto = 0
    BY Quantities DEF TypeOK
  <1>3. PostsUsage
    BY <1>1, <1>2 DEF PostsUsage
  <1>. QED
    BY <1>3, BillingPosts

LEMMA StepBills == IInv /\ Billing /\ [Next]_vars => Billing'
  <1>. SUFFICES ASSUME IInv, TypeOK, Quiet, Billing, [Next]_vars PROVE Billing'
    BY DEF IInv
  <1>0. pc \notin {"off", "loading"} => job \in Jobs
    BY DEF TypeOK, Jobs
  <1>. USE DEF dbVars, netVars, costVars
  <1>1. CASE \E m \in net : Deliver(m)
    BY <1>1, BillingDelivers
  <1>2. CASE Entry
    <2>1. CASE Opened
      <3>1. Started(job).qty = 0 /\ Started(job).upto = 0
        BY <1>0, <2>1, Quantities DEF Opened, EntryGoes
      <3>2. PostsNothing
        BY <2>1, <3>1 DEF PostsNothing, Opened, Post
      <3>. QED
        BY <3>2, BillingStays
    <2>2. CASE ContextFails
      <3>1. PostsNothing
        BY <2>2 DEF PostsNothing, ContextFails, Blank
      <3>. QED
        BY <3>1, BillingStays
    <2>3. CASE \/ ContextLoaded \/ OpeningFails \/ StartedReturns
               \/ StartedRaises \/ CallEnds \/ EntryReturns
      <3>1. PostsNothing
        BY <2>3 DEF PostsNothing, ContextLoaded, OpeningFails, StartedReturns,
                    StartedRaises, CallEnds, EntryReturns, Answered, GivenUp
      <3>. QED
        BY <3>1, BillingStays
    <2>. QED
      BY <1>2, <2>1, <2>2, <2>3 DEF Entry
  <1>3. CASE Flushing
    <2>1. CASE FlushBegins
      <3>1. job \in Jobs
        BY <1>0, <2>1 DEF Quiet, FlushBegins
      <3>2. Lines(job, buf).qty = 0 /\ Lines(job, buf).upto = 0
        BY <3>1, Quantities DEF TypeOK
      <3>3. PostsNothing
        BY <2>1, <3>2 DEF PostsNothing, FlushBegins, Flush, Post
      <3>. QED
        BY <3>3, BillingStays
    <2>2. CASE \E f \in flights : FlushReturns(f) \/ FlushRaises(f)
      <3>1. PostsNothing
        BY <2>2 DEF PostsNothing, FlushReturns, FlushRaises, Answered, GivenUp
      <3>. QED
        BY <3>1, BillingStays
    <2>. QED
      BY <1>3, <2>1, <2>2 DEF Flushing
  <1>4. CASE Ticker
    <2>1. CASE TickerPosts
      <3>1. PostsUsage
        BY <1>0, <2>1 DEF PostsUsage, TickerPosts, Post
      <3>. QED
        BY <3>1, BillingPosts
    <2>2. CASE TickerReturns \/ TickerRaises
      <3>1. PostsNothing
        BY <2>2 DEF PostsNothing, TickerReturns, TickerRaises, Answered, GivenUp
      <3>. QED
        BY <3>1, BillingStays
    <2>. QED
      BY <1>4, <2>1, <2>2 DEF Ticker
  <1>5. CASE Finalize
    <2>1. CASE FinalizeBegins /\ buf # {}
      <3>1. Lines(job, buf).qty = 0 /\ Lines(job, buf).upto = 0
        BY <1>0, <2>1, Quantities DEF FinalizeBegins, TypeOK
      <3>2. PostsNothing
        BY <2>1, <3>1 DEF PostsNothing, FinalizeBegins, Flush, Post
      <3>. QED
        BY <3>2, BillingStays
    <2>2. CASE FinalizeBegins /\ buf = {}
      BY <1>0, <2>2, PostLastBills DEF FinalizeBegins
    <2>3. CASE FinalizePosts
      BY <1>0, <2>3, PostLastBills DEF FinalizePosts, Quiet
    <2>4. CASE StopEnds \/ Exits
      <3>1. PostsNothing
        BY <2>4 DEF PostsNothing, StopEnds, Exits, Blank
      <3>. QED
        BY <3>1, BillingStays
    <2>5. CASE \E m \in last : LastReturns(m) \/ LastRaises(m)
      <3>1. PostsNothing
        BY <2>5 DEF PostsNothing, LastReturns, LastRaises, Answered, GivenUp
      <3>. QED
        BY <3>1, BillingStays
    <2>. QED
      BY <1>5, <2>1, <2>2, <2>3, <2>4, <2>5 DEF Finalize
  <1>6. CASE Dispatch \/ Says
    <2>1. PostsNothing
      BY <1>6 DEF PostsNothing, Dispatch, Says
    <2>. QED
      BY <2>1, BillingStays
  <1>7. CASE Uses
    BY <1>7, BillingUses
  <1>8. CASE Crash
    <2>1. PostsNothing
      BY <1>8 DEF PostsNothing, Crash, Blank
    <2>. QED
      BY <2>1, BillingStays
  <1>9. CASE UNCHANGED vars
    <2>1. PostsNothing
      BY <1>9 DEF PostsNothing, vars
    <2>. QED
      BY <2>1, BillingStays
  <1>. QED
    BY <1>1, <1>2, <1>3, <1>4, <1>5, <1>6, <1>7, <1>8, <1>9 DEF Next

LEMMA InitBills == Init => Billing
  <1>. SUFFICES ASSUME Init PROVE Billing
    OBVIOUS
  <1>1. Reported
    BY DEF Init, Reported
  <1>2. Ledger({})
    BY FS_EmptySet DEF Init, Ledger
  <1>. QED
    BY <1>1, <1>2 DEF Billing

\* The ledger never exceeds what was used, though reports are repeated by nobody
\* and lost, delayed and forgotten by crashes: each unit is posted once, by the
\* ticker or by finalize, and billed once at most.
THEOREM BilledOnce == Spec => []NeverOverbilled
  <1>1. TypeOK /\ Billing => NeverOverbilled
    <2>. SUFFICES ASSUME TypeOK, Billing PROVE billed <= used
      BY DEF NeverOverbilled
    <2>1. PICK B : Ledger(B)
      BY DEF Billing
    <2>2. used \in Nat
      BY SessionAssumption DEF TypeOK
    <2>3. IsFiniteSet(1..used) /\ Cardinality(1..used) = used
      BY <2>2, FS_Interval
    <2>4. B \in SUBSET (1..used) /\ Cardinality(B) = billed
      BY <2>1 DEF Ledger
    <2>. QED
      BY <2>3, <2>4, FS_Subset
  <1>2. Spec => []Billing
    BY InitBills, StepBills, Invariance, PTL DEF Spec
  <1>. QED
    BY <1>1, <1>2, TypeCorrect, PTL
=============================================================================
