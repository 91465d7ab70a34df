---------------------------- MODULE StreamerProofs ----------------------------
(***************************************************************************)
(* Theorems about Streamer for any number of paints, of frames ahead of    *)
(* their acknowledgement and of viewers: its state is well typed, and what *)
(* the track shows keeps the promise of Picture.                           *)
(***************************************************************************)
EXTENDS Streamer, FiniteSetTheorems, TLAPS

\* Chrome counts what is on its way or not acknowledged yet.
Unacknowledged == Cardinality(frames) + acks <= MaxUnacked

\* Frames are in the order of their paints: what is shown is the last frame, or
\* older when its capture raised; that is older than what is decoded, then comes
\* what waits, and then what is on its way.  Each of the places may be empty.
InOrder ==
    /\ shown <= lastFrame
    /\ \A n \in {lastFrame, decoding, latest} \cup frames : n <= sent
    /\ sent <= painted
    /\ decoding # 0 => lastFrame < decoding
    /\ latest # 0 => lastFrame < latest /\ decoding < latest
    /\ \A f \in frames : lastFrame < f /\ decoding < f /\ latest < f
    /\ pump = "decoding" <=> decoding # 0
    /\ life \in {"connecting", "casting"} => pump = "off"

IInv == TypeOK /\ Unacknowledged /\ InOrder

-----------------------------------------------------------------------------

\* A set of frames is finite, and counts change by one.
LEMMA FramesCount ==
    ASSUME NEW S \in SUBSET (1..MaxPaints), NEW f
    PROVE  /\ Cardinality(S) \in Nat
           /\ Cardinality(S \cup {f}) <= Cardinality(S) + 1
           /\ Cardinality(S \cup {f}) \in Nat
           /\ f \in S => Cardinality(S \ {f}) = Cardinality(S) - 1
           /\ Cardinality(S \ {f}) \in Nat
<1>1. IsFiniteSet(S)
  <2>1. IsFiniteSet(1..MaxPaints)
    BY FS_Interval, StreamerAssumption
  <2>. QED
    BY <2>1, FS_Subset
<1>2. IsFiniteSet(S \cup {f}) /\ IsFiniteSet(S \ {f})
  <2>1. IsFiniteSet(S \cup {f})
    BY <1>1, FS_AddElement
  <2>2. IsFiniteSet(S \ {f})
    BY <1>1, FS_RemoveElement
  <2>. QED
    BY <2>1, <2>2
<1>3. /\ Cardinality(S) \in Nat
      /\ Cardinality(S \cup {f}) \in Nat
      /\ Cardinality(S \ {f}) \in Nat
  BY <1>1, <1>2, FS_CardinalityType
<1>4. Cardinality(S \cup {f}) = IF f \in S THEN Cardinality(S)
                                ELSE Cardinality(S) + 1
  BY <1>1, FS_AddElement
<1>5. f \in S => Cardinality(S \ {f}) = Cardinality(S) - 1
  BY <1>1, FS_RemoveElement
<1>. QED
  BY <1>3, <1>4, <1>5

LEMMA InitIInv == Init => IInv
<1>. SUFFICES ASSUME Init PROVE IInv
  OBVIOUS
<1>. USE StreamerAssumption DEF Init
<1>1. TypeOK
  <2>1. 0 \in Frames /\ 0 \in 0..MaxUnacked /\ 0 \in 0..MaxViews
    BY DEF Frames
  <2>. QED
    BY <2>1 DEF TypeOK
<1>2. Unacknowledged
  <2>1. Cardinality({}) = 0
    BY FS_EmptySet
  <2>. QED
    BY <2>1 DEF Unacknowledged
<1>3. InOrder
  BY DEF InOrder
<1>. QED
  BY <1>1, <1>2, <1>3 DEF IInv

-----------------------------------------------------------------------------

LEMMA RepaintsGood == IInv /\ Repaints => IInv'
  BY StreamerAssumption
     DEF IInv, TypeOK, Frames, Unacknowledged, InOrder, Repaints, frameVars,
         pumpVars, viewVars

LEMMA SendsFrameGood == IInv /\ SendsFrame => IInv'
<1>. SUFFICES ASSUME IInv, SendsFrame PROVE IInv'
  OBVIOUS
<1>. USE DEF IInv, TypeOK, Frames, frameVars, pumpVars, viewVars
<1>1. TypeOK'
  BY DEF SendsFrame, InOrder
<1>2. Unacknowledged'
  BY FramesCount, StreamerAssumption DEF SendsFrame, Unacknowledged
<1>3. InOrder'
  BY DEF SendsFrame, InOrder
<1>. QED
  BY <1>1, <1>2, <1>3

LEMMA OnFrameGood ==
    ASSUME IInv, NEW f \in frames, OnFrame(f)
    PROVE  IInv'
<1>. USE DEF IInv, TypeOK, Frames, OnFrame, pumpVars, viewVars
<1>1. Cardinality(frames \ {f}) = Cardinality(frames) - 1
      /\ Cardinality(frames) \in Nat /\ Cardinality(frames \ {f}) \in Nat
  BY FramesCount
<1>2. Unacknowledged'
  BY <1>1, StreamerAssumption DEF Unacknowledged
<1>3. TypeOK'
  BY <1>1, <1>2, StreamerAssumption DEF Unacknowledged
<1>4. InOrder'
  BY DEF InOrder
<1>. QED
  BY <1>2, <1>3, <1>4

LEMMA AckGood == IInv /\ Ack => IInv'
<1>1. ASSUME IInv PROVE Cardinality(frames) \in Nat
  BY <1>1, FramesCount DEF IInv, TypeOK
<1>. QED
  BY <1>1, StreamerAssumption
     DEF IInv, TypeOK, Frames, Unacknowledged, InOrder, Ack, chromeVars,
         pumpVars, viewVars

LEMMA PumpWakesGood == IInv /\ PumpWakes => IInv'
  BY StreamerAssumption
     DEF IInv, TypeOK, Frames, Unacknowledged, InOrder, PumpWakes, Take,
         chromeVars, viewVars

LEMMA PumpSleptGood == IInv /\ PumpSlept => IInv'
  BY StreamerAssumption
     DEF IInv, TypeOK, Frames, Unacknowledged, InOrder, PumpSlept, Take,
         chromeVars, viewVars

LEMMA DecodedGood == IInv /\ Decoded => IInv'
  BY StreamerAssumption
     DEF IInv, TypeOK, Frames, Unacknowledged, InOrder, Decoded, Capture,
         chromeVars, frameVars

LEMMA ResendsGood == IInv /\ Resends => IInv'
  BY StreamerAssumption
     DEF IInv, TypeOK, Frames, Unacknowledged, InOrder, Resends, Capture,
         chromeVars, frameVars, pumpVars

\* The steps that move no frame, or throw one away.
LEMMA OthersGood ==
    ASSUME IInv,
           \/ DecodeRaises \/ CaptureRaises \/ TimePasses \/ Subscribes
           \/ StartsCast \/ Started \/ StartRaises \/ StopBegins \/ CastStopped \/ Closed
           \/ UNCHANGED vars
    PROVE  IInv'
<1>. USE StreamerAssumption
     DEF IInv, TypeOK, Frames, Unacknowledged, InOrder, chromeVars, frameVars,
         pumpVars, viewVars
<1>1. CASE DecodeRaises
  BY <1>1 DEF DecodeRaises
<1>2. CASE TimePasses
  BY <1>2 DEF TimePasses
<1>3. CASE Subscribes
  BY <1>3 DEF Subscribes
<1>4. CASE StartsCast \/ Started \/ StartRaises
  BY <1>4 DEF StartsCast, Started, StartRaises
<1>5. CASE StopBegins
  BY <1>5 DEF StopBegins
<1>6. CASE CastStopped
  BY <1>6 DEF CastStopped
<1>7. CASE Closed
  BY <1>7 DEF Closed
<1>8. CASE UNCHANGED vars
  <2>. USE <1>8 DEF vars
  <2>1. TypeOK'
    OBVIOUS
  <2>2. Unacknowledged'
    OBVIOUS
  <2>3. InOrder'
    OBVIOUS
  <2>. QED
    BY <2>1, <2>2, <2>3
<1>9. CASE CaptureRaises
  <2>. USE <1>9 DEF CaptureRaises
  <2>1. TypeOK'
    OBVIOUS
  <2>2. Unacknowledged'
    OBVIOUS
  <2>3. InOrder'
    OBVIOUS
  <2>. QED
    BY <2>1, <2>2, <2>3
<1>. QED
  BY <1>1, <1>2, <1>3, <1>4, <1>5, <1>6, <1>7, <1>8, <1>9

LEMMA StepGood == IInv /\ [Next]_vars => IInv'
  BY RepaintsGood, SendsFrameGood, OnFrameGood, AckGood, PumpWakesGood,
     PumpSleptGood, DecodedGood, ResendsGood, OthersGood
     DEF Next

-----------------------------------------------------------------------------
(* Theorems. *)

\* The strengthening of the properties below, inductive.
THEOREM Invariance == Spec => []IInv
<1>. QED
  BY InitIInv, StepGood, PTL DEF Spec

\* The streamer's state is well typed, and Chrome is never acknowledged more
\* frames than it sent.
THEOREM TypeCorrect == Spec => []TypeOK
<1>1. IInv => TypeOK
  BY DEF IInv
<1>. QED
  BY <1>1, Invariance, PTL

\* However the pump, its thread, the keepalive and new frames interleave, the
\* track goes forward through the paints of the page.
THEOREM ImplementsPicture == Spec => KeepsPicture
<1>1. Init => Promise!Init
  BY DEF Init, Promise!Init
<1>2. IInv /\ [Next]_vars => [Promise!Next]_<<painted, shown>>
  <2>. SUFFICES ASSUME IInv, Next, ~ UNCHANGED <<painted, shown>>
                PROVE  Promise!Next
    BY DEF vars, chromeVars, viewVars
  <2>1. Repaints \/ Decoded \/ Resends
    BY DEF Next, SendsFrame, OnFrame, Ack, PumpWakes, PumpSlept, DecodeRaises,
           CaptureRaises, TimePasses, Subscribes, StartsCast, Started, StartRaises,
           StopBegins, CastStopped, Closed, chromeVars, viewVars
  <2>2. CASE Repaints
    BY <2>2 DEF Repaints, viewVars, Promise!Next, Promise!Paint
  <2>3. CASE Decoded
    BY <2>3 DEF Decoded, Capture, chromeVars, IInv, TypeOK, Frames, InOrder,
                Promise!Next, Promise!Show
  <2>4. CASE Resends
    BY <2>4 DEF Resends, Capture, chromeVars, IInv, TypeOK, Frames, InOrder,
                Promise!Next, Promise!Show
  <2>. QED
    BY <2>1, <2>2, <2>3, <2>4
<1>. QED
  BY <1>1, <1>2, Invariance, PTL DEF Spec, KeepsPicture, Promise!Spec
=============================================================================
