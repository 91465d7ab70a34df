------------------------------- MODULE Streamer -------------------------------
(***************************************************************************)
(* The screen share of one sandbox (operator, streamer.py): Chrome's       *)
(* screencast (external) sends a frame per repaint while frames are        *)
(* acknowledged, the pump publishes the newest at a bounded rate, and the  *)
(* keepalive repeats the last one for whoever subscribed since.  One       *)
(* asyncio loop: an action is what runs between two awaits.                *)
(*                                                                         *)
(* A frame is the number of the paint it shows, 0 is None.  A viewer gets  *)
(* only what is captured while subscribed.                                 *)
(***************************************************************************)
EXTENDS Naturals, FiniteSets

CONSTANTS
    MaxPaints,      \* bound: paints of the page
    MaxUnacked,     \* frames that Chrome sends ahead of acknowledgements
    MaxViews        \* bound: times a viewer subscribes to the track

ASSUME StreamerAssumption ==
    /\ MaxPaints \in Nat
    /\ MaxUnacked \in Nat \ {0}
    /\ MaxViews \in Nat

VARIABLES
    life,       \* where start() or stop() is
    painted,    \* the page's last paint
    casting,    \* whether Chrome's screencast runs
    sent,       \* the last paint Chrome sent a frame of
    frames,     \* frames on their way from Chrome, as the set of their paints
    acks,       \* spawned _ack tasks
    latest,     \* _latest
    wake,       \* _wake
    pump,       \* where _pump is
    decoding,   \* the frame that _decode works on
    lastFrame,  \* _last_frame
    since,      \* the time since _last_sent: "slot" below 1/MAX_FPS, "due",
                \* "old" above 2 s
    shown,      \* the last frame captured
    views,      \* subscriptions so far
    seen        \* the last frame the subscribed viewer got, 0 for none

chromeVars == <<painted, casting, sent, frames>>
frameVars == <<acks, latest, wake>>
pumpVars == <<pump, decoding, lastFrame, since>>
viewVars == <<shown, views, seen>>
vars == <<life, chromeVars, frameVars, pumpVars, viewVars>>

Frames == 0..MaxPaints

TypeOK ==
    /\ life \in {"connecting", "casting", "running", "stopping", "closing",
                 "closed"}
    /\ painted \in Frames
    /\ casting \in BOOLEAN
    /\ sent \in Frames
    /\ frames \in SUBSET (1..MaxPaints)
    /\ acks \in 0..MaxUnacked
    /\ latest \in Frames
    /\ wake \in BOOLEAN
    /\ pump \in {"off", "waiting", "sleeping", "decoding", "failed"}
    /\ decoding \in Frames
    /\ lastFrame \in Frames
    /\ since \in {"slot", "due", "old"}
    /\ shown \in Frames
    /\ views \in 0..MaxViews
    /\ seen \in Frames

Init ==
    /\ life = "connecting"
    /\ painted = 0
    /\ casting = FALSE
    /\ sent = 0
    /\ frames = {}
    /\ acks = 0
    /\ latest = 0
    /\ wake = FALSE
    /\ pump = "off"
    /\ decoding = 0
    /\ lastFrame = 0
    /\ since = "old"
    /\ shown = 0
    /\ views = 0
    /\ seen = 0

-----------------------------------------------------------------------------
(* The page and Chrome. *)

Repaints ==
    /\ painted < MaxPaints
    /\ painted' = painted + 1
    /\ UNCHANGED <<life, casting, sent, frames, frameVars, pumpVars, viewVars>>

\* A frame of the page as it is, unless too many wait for their acknowledgement.
SendsFrame ==
    /\ casting
    /\ sent < painted
    /\ Cardinality(frames) + acks < MaxUnacked
    /\ sent' = painted
    /\ frames' = frames \cup {painted}
    /\ UNCHANGED <<life, painted, casting, frameVars, pumpVars, viewVars>>

-----------------------------------------------------------------------------
(* Frames as they arrive. *)

\* Mutant: the frame is acknowledged again once it is published.
OnFrameMutant(f) ==
    /\ \A g \in frames : f <= g
    /\ frames' = frames \ {f}
    /\ latest' = f
    /\ wake' = TRUE
    /\ acks' = acks + 2
    /\ UNCHANGED <<life, painted, casting, sent, pumpVars, viewVars>>

\* _on_frame, in the order of the socket: the newest replaces what waits.
OnFrame(f) ==
    /\ \A g \in frames : f <= g
    /\ frames' = frames \ {f}
    /\ latest' = f
    /\ wake' = TRUE
    /\ acks' = acks + 1
    /\ UNCHANGED <<life, painted, casting, sent, pumpVars, viewVars>>

\* One of the spawned _ack tasks.
Ack ==
    /\ acks > 0
    /\ acks' = acks - 1
    /\ UNCHANGED <<life, chromeVars, latest, wake, pumpVars, viewVars>>

-----------------------------------------------------------------------------
(* _pump. *)

\* capture_frame: the viewer gets it if there is one.
Capture(f) ==
    /\ shown' = f
    /\ seen' = IF views = 0 THEN 0 ELSE f
    /\ UNCHANGED views

\* Take the newest frame, if it was not taken before the event was set again.
Take ==
    /\ pump' = IF latest = 0 THEN "waiting" ELSE "decoding"
    /\ decoding' = latest
    /\ latest' = 0

\* Mutant: a frame that comes too soon after the last one is dropped.
PumpWakesMutant ==
    /\ pump = "waiting"
    /\ wake
    /\ wake' = FALSE
    /\ IF since = "slot"
       THEN latest' = 0 /\ UNCHANGED <<pump, decoding>>
       ELSE Take
    /\ UNCHANGED <<life, chromeVars, acks, lastFrame, since, viewVars>>

\* The event is set: wait for the slot to be over, or take the frame at once.
PumpWakes ==
    /\ pump = "waiting"
    /\ wake
    /\ wake' = FALSE
    /\ IF since = "slot"
       THEN pump' = "sleeping" /\ UNCHANGED <<latest, decoding>>
       ELSE Take
    /\ UNCHANGED <<life, chromeVars, acks, lastFrame, since, viewVars>>

PumpSlept ==
    /\ pump = "sleeping"
    /\ since # "slot"
    /\ Take
    /\ UNCHANGED <<life, chromeVars, acks, wake, lastFrame, since, viewVars>>

\* Mutant: only the first frame is kept for the keepalive.
DecodedMutant ==
    /\ pump = "decoding"
    /\ pump' = "waiting"
    /\ decoding' = 0
    /\ since' = "slot"
    /\ lastFrame' = IF lastFrame = 0 THEN decoding ELSE lastFrame
    /\ Capture(decoding)
    /\ UNCHANGED <<life, chromeVars, frameVars>>

\* The thread is done: the frame is published and becomes the last one.
Decoded ==
    /\ pump = "decoding"
    /\ pump' = "waiting"
    /\ decoding' = 0
    /\ since' = "slot"
    /\ lastFrame' = decoding
    /\ Capture(decoding)
    /\ UNCHANGED <<life, chromeVars, frameVars>>

\* The frame cannot be decoded: the exception ends the task.
DecodeRaises ==
    /\ pump = "decoding"
    /\ pump' = "failed"
    /\ decoding' = 0
    /\ UNCHANGED <<life, chromeVars, frameVars, lastFrame, since, viewVars>>

\* capture_frame raises and ends the task: no viewer got the frame, and it is the
\* last one that the keepalive will repeat.
CaptureRaises ==
    /\ pump = "decoding"
    /\ pump' = "failed"
    /\ decoding' = 0
    /\ since' = "slot"
    /\ lastFrame' = decoding
    /\ UNCHANGED <<life, chromeVars, frameVars, viewVars>>

-----------------------------------------------------------------------------
(* Time, the keepalive and the viewer. *)

TimePasses ==
    /\ since # "old"
    /\ since' = IF since = "slot" THEN "due" ELSE "old"
    /\ UNCHANGED <<life, chromeVars, frameVars, pump, decoding, lastFrame,
                   viewVars>>

\* _resend_last, every 2 s.
Resends ==
    /\ life = "running"
    /\ lastFrame # 0
    /\ since = "old"
    /\ Capture(lastFrame)
    /\ UNCHANGED <<life, chromeVars, frameVars, pumpVars>>

\* A viewer subscribes, or does so again: nothing shows until the next capture.
Subscribes ==
    /\ views < MaxViews
    /\ views' = views + 1
    /\ seen' = 0
    /\ UNCHANGED <<life, chromeVars, frameVars, pumpVars, shown>>

-----------------------------------------------------------------------------
(* start() and stop(). *)

\* The room is joined and the track published; Chrome takes startScreencast, and
\* may send frames before its answer is read.
StartsCast ==
    /\ life = "connecting"
    /\ life' = "casting"
    /\ casting' = TRUE
    /\ UNCHANGED <<painted, sent, frames, frameVars, pumpVars, viewVars>>

\* The answer is here: the two tasks are created.
Started ==
    /\ life = "casting"
    /\ life' = "running"
    /\ pump' = "waiting"
    /\ UNCHANGED <<chromeVars, frameVars, decoding, lastFrame, since, viewVars>>

\* An await of start() raises: the operator closes the browser.
StartRaises ==
    /\ life \in {"connecting", "casting"}
    /\ life' = "closed"
    /\ casting' = FALSE
    /\ UNCHANGED <<painted, sent, frames, frameVars, pumpVars, viewVars>>

\* Both tasks are cancelled; a thread that still decodes does so for nothing.
StopBegins ==
    /\ life = "running"
    /\ life' = "stopping"
    /\ pump' = "off"
    /\ decoding' = 0
    /\ UNCHANGED <<chromeVars, frameVars, lastFrame, since, viewVars>>

\* stopScreencast is answered, or raised since the page is gone.
CastStopped ==
    /\ life = "stopping"
    /\ life' = "closing"
    /\ casting' = FALSE
    /\ UNCHANGED <<painted, sent, frames, frameVars, pumpVars, viewVars>>

\* The source is closed and the room left.
Closed ==
    /\ life = "closing"
    /\ life' = "closed"
    /\ UNCHANGED <<chromeVars, frameVars, pumpVars, viewVars>>

-----------------------------------------------------------------------------

Next ==
    \/ Repaints \/ SendsFrame
    \/ \E f \in frames : OnFrame(f)
    \/ Ack
    \/ PumpWakes \/ PumpSlept \/ Decoded \/ DecodeRaises \/ CaptureRaises
    \/ TimePasses \/ Resends \/ Subscribes
    \/ StartsCast \/ Started \/ StartRaises
    \/ StopBegins \/ CastStopped \/ Closed

Spec == Init /\ [][Next]_vars

\* Chrome casts and its frames arrive, the tasks of the loop run, a thread ends,
\* and time passes.  Nobody owes a start, a stop or a repaint.
Fairness ==
    /\ WF_vars(SendsFrame)
    /\ WF_vars(\E f \in frames : OnFrame(f))
    /\ WF_vars(Ack)
    /\ WF_vars(PumpWakes \/ PumpSlept \/ Decoded \/ DecodeRaises \/ CaptureRaises)
    /\ WF_vars(TimePasses)
    /\ WF_vars(Resends)

FairSpec == Spec /\ Fairness

-----------------------------------------------------------------------------
(* Properties. *)

\* Neither the pump, which takes a frame and captures it after two awaits, nor the
\* keepalive, which runs in between, takes the track back to an earlier paint.
Promise == INSTANCE Picture
KeepsPicture == Promise!Spec

\* "so the pump always ends on the page's final paint instead of dropping it for
\* arriving too soon after the last send": whoever watches gets the page as it is,
\* also when they subscribe after its last repaint, unless the share stops or a
\* frame could not be decoded or captured, which ends the pump.
LastPaintShown ==
    life = "running" /\ views > 0 /\ seen # painted
        ~> seen = painted \/ life # "running" \/ pump = "failed"
=============================================================================
