---------------------------- MODULE PanelBridge ----------------------------
(***************************************************************************)
(* quest-spatial/.../jni_bridge.cpp: the UI thread that starts and stops a *)
(* session and attaches surfaces to panel slots, the run loop that adopts  *)
(* them, and the decoder (HevcDecoder) the loop keeps for the slot that    *)
(* has a stream.                                                           *)
(*                                                                         *)
(* A window is a reference: attachSurface makes a new one (Refs in all),   *)
(* and whoever holds it must release it once.  The session is what         *)
(* NetSession shows of itself here: whether it connects, streams or is     *)
(* finished, and it has one stream, so slot 0 gets a decoder and the other *)
(* slots only keep their window.                                           *)
(***************************************************************************)
EXTENDS HevcDecoder

CONSTANTS
  Slots,         \* the panel slots Kotlin lays out, 0 among them
  MaxRefs,       \* bound on the windows attached
  MaxViewports,  \* bound on the taps on "Match to window"
  MaxDetaches,   \* bound on the surfaces detached
  MaxSessions    \* bound on the starts

Refs == 1..MaxRefs

ASSUME PanelAssumption ==
  0 \in Slots /\ MaxRefs \in Nat /\ MaxViewports \in Nat /\ MaxDetaches \in Nat /\ None \notin Refs

VARIABLES
  bridge,      \* "none", "live", or "stopping": stop() waits for the thread
  stopping,    \* Bridge::stop
  events,      \* Bridge::surface_events
  viewport,    \* Bridge::viewport, 0 for none
  rl,          \* where the run loop is; "off" without a thread, "ended" after it
  sess,        \* the session: "connecting", "streaming" or "finished"
  batch,       \* run: the events swapped out of the queue
  window,      \* run: Panel::window of each slot
  target,      \* the window the slot's codec was configured with
  live,        \* the windows not yet released
  late,        \* the windows attached when no loop was left to adopt them
  refs, detaches, sessions   \* the bounded counters

uivars == <<bridge, viewport, late, refs, detaches, sessions>>
runvars == <<rl, sess, batch, window, target>>
pvars == <<uivars, stopping, events, live, runvars, hvars>>

PInit ==
  /\ HInit
  /\ bridge = "none" /\ stopping = FALSE /\ events = << >> /\ viewport = 0
  /\ rl = "off" /\ sess = "connecting" /\ batch = << >>
  /\ window = [s \in Slots |-> None] /\ target = None
  /\ live = {} /\ late = {} /\ refs = 0 /\ detaches = 0 /\ sessions = 0

Event(slot, w) == [slot |-> slot, window |-> w]
Held(q) == {q[i].window : i \in DOMAIN q} \ {None}
Panels == {window[s] : s \in Slots} \ {None}

-----------------------------------------------------------------------------
\* The UI thread.  A new session has new receivers, so the decoder's world is new too.
start ==
  /\ bridge = "none" /\ sessions < MaxSessions
  /\ bridge' = "live" /\ sessions' = sessions + 1
  /\ stopping' = FALSE /\ events' = << >> /\ viewport' = 0
  /\ rl' = "init" /\ sess' = "connecting" /\ batch' = << >>
  /\ window' = [s \in Slots |-> None] /\ target' = None
  /\ au_queue' = << >> /\ stop' = FALSE
  /\ UNCHANGED <<live, late, refs, detaches, fed, owner, running, loop, codec>>

attachSurface(slot) ==
  /\ bridge = "live" /\ refs < MaxRefs
  /\ refs' = refs + 1
  /\ live' = live \cup {refs'}
  /\ events' = Append(events, Event(slot, refs'))
  /\ late' = IF rl = "ended" THEN late \cup {refs'} ELSE late
  /\ UNCHANGED <<bridge, viewport, detaches, sessions, stopping, runvars, hvars>>

detachSurface(slot) ==
  /\ bridge = "live" /\ detaches < MaxDetaches
  /\ detaches' = detaches + 1
  /\ events' = Append(events, Event(slot, None))
  /\ UNCHANGED <<bridge, viewport, late, refs, sessions, stopping, live, runvars, hvars>>

setViewport ==
  /\ bridge = "live" /\ viewport < MaxViewports
  /\ viewport' = viewport + 1
  /\ UNCHANGED <<bridge, late, refs, detaches, sessions, stopping, events, live, runvars, hvars>>

stopBridge ==
  /\ bridge = "live"
  /\ bridge' = "stopping" /\ stopping' = TRUE
  /\ UNCHANGED <<viewport, late, refs, detaches, sessions, events, live, runvars, hvars>>

\* The join returns and the bridge is deleted, whatever its queue still holds.
stopJoined ==
  /\ bridge = "stopping" /\ rl = "ended"
  /\ bridge' = "none" /\ rl' = "off" /\ events' = << >>
  /\ UNCHANGED <<viewport, late, refs, detaches, sessions, stopping, live, sess, batch,
                 window, target, hvars>>

-----------------------------------------------------------------------------
\* run.  A session that does not start ends the loop at once, and its queue with it.
RunInit ==
  /\ rl = "init"
  /\ \/ rl' = "top" /\ UNCHANGED late
     \/ rl' = "ended" /\ late' = late \cup Held(events)
  /\ UNCHANGED <<bridge, viewport, refs, detaches, sessions, stopping, events, live, sess,
                 batch, window, target, hvars>>

\* The viewport is passed on to request_viewport (see NetSession) and pump lets the session
\* go on; while it streams, the receiver is fed by this thread.
Pump ==
  /\ rl = "top" /\ ~stopping /\ sess # "finished"
  /\ sess' \in {sess, "streaming", "finished"}
  /\ rl' = "swap"
  /\ UNCHANGED <<uivars, stopping, events, live, batch, window, target, hvars>>

PumpFeeds ==
  /\ rl = "top" /\ ~stopping /\ sess = "streaming"
  /\ HandOver
  /\ UNCHANGED <<uivars, stopping, events, live, runvars>>

SwapEvents ==
  /\ rl = "swap"
  /\ batch' = events /\ events' = << >>
  /\ rl' = "apply"
  /\ UNCHANGED <<uivars, stopping, live, sess, window, target, hvars>>

\* The decoder of a slot whose surface changes is stopped, and its receiver revived.
ApplyStops ==
  /\ rl = "apply" /\ batch # << >> /\ Head(batch).slot = 0
  /\ ClearRunning \/ StopReceiver \/ Join(TRUE)
  /\ UNCHANGED <<uivars, stopping, events, live, runvars>>

\* Fault: a new window is adopted while the old decoder still runs.
NoDecoderAssumed(slot) == TRUE

NoDecoder(slot) == slot = 0 => owner = "idle"

\* Then the old window is released and the event's one adopted.
ApplyAdopts ==
  /\ rl = "apply" /\ batch # << >>
  /\ LET e == Head(batch) IN
       /\ NoDecoder(e.slot)
       /\ live' = live \ {window[e.slot]}
       /\ window' = [window EXCEPT ![e.slot] = e.window]
  /\ batch' = Tail(batch)
  /\ UNCHANGED <<uivars, stopping, events, rl, sess, target, hvars>>

ApplyDone ==
  /\ rl = "apply" /\ batch = << >>
  /\ rl' = "bring"
  /\ UNCHANGED <<uivars, stopping, events, live, sess, batch, window, target, hvars>>

DecoderDue == sess = "streaming" /\ window[0] # None /\ owner = "idle"

\* A decoder is made once its slot has a surface and the session streams; a create that
\* fails is tried again by the next iteration.
BringUp ==
  /\ rl = "bring"
  /\ rl' = "top"
  /\ \/ ~DecoderDue /\ UNCHANGED <<target, hvars>>
     \/ DecoderDue /\ UNCHANGED <<target, hvars>>
     \/ DecoderDue /\ target' = window[0] /\ (Start \/ StartFails)
  /\ UNCHANGED <<uivars, stopping, events, live, sess, batch, window>>

\* The loop's end: the decoder is stopped for good ...
Leaves ==
  /\ rl = "top" /\ (stopping \/ sess = "finished")
  /\ rl' = "leave"
  /\ UNCHANGED <<uivars, stopping, events, live, sess, batch, window, target, hvars>>

LeaveStops ==
  /\ rl = "leave"
  /\ ClearRunning \/ StopReceiver \/ Join(FALSE)
  /\ UNCHANGED <<uivars, stopping, events, live, runvars>>

\* ... the panels' windows are released ...
LeaveReleases ==
  /\ rl = "leave" /\ owner = "idle"
  /\ live' = live \ Panels
  /\ window' = [s \in Slots |-> None]
  /\ rl' = "drain"
  /\ UNCHANGED <<uivars, stopping, events, sess, batch, target, hvars>>

\* Fault: what is still queued is forgotten.
QueuedWindowsNone == {}

QueuedWindows == Held(events)

\* ... and so is what is still queued.
LeaveDrains ==
  /\ rl = "drain"
  /\ live' = live \ QueuedWindows
  /\ events' = << >>
  /\ rl' = "ended"
  /\ UNCHANGED <<uivars, stopping, sess, batch, window, target, hvars>>

-----------------------------------------------------------------------------
DecodeStep == (LoopStep \/ Decode) /\ UNCHANGED <<uivars, stopping, events, live, runvars>>
RunStep == RunInit \/ Pump \/ SwapEvents \/ ApplyStops \/ ApplyAdopts \/ ApplyDone \/ BringUp
           \/ Leaves \/ LeaveStops \/ LeaveReleases \/ LeaveDrains
UiStep == start \/ setViewport \/ stopBridge \/ \E s \in Slots : attachSurface(s) \/ detachSurface(s)

PNext == UiStep \/ stopJoined \/ RunStep \/ PumpFeeds \/ DecodeStep

\* The threads are scheduled and the codec works; nobody has to call anything.
PSpec ==
  /\ PInit /\ [][PNext]_pvars
  /\ WF_pvars(RunStep) /\ WF_pvars(stopJoined)
  /\ WF_pvars(LoopStep /\ UNCHANGED <<uivars, stopping, events, live, runvars>>)
  /\ WF_pvars(Decode /\ UNCHANGED <<uivars, stopping, events, live, runvars>>)

-----------------------------------------------------------------------------
(***************************************************************************)
(* Properties                                                              *)
(***************************************************************************)
\* Every window reference has one owner, which alone releases it: the event that
\* carries it, until the run loop adopts it into a panel.  None is dropped or released
\* twice, whatever the UI thread does meanwhile; only the windows attached when the
\* loop had ended, or before a session that failed to start, have no owner left.
SoleOwner ==
  LET places == <<Held(events) \ late, Held(batch), Panels>> IN
  /\ live \ late = places[1] \cup places[2] \cup places[3]
  /\ \A i, j \in 1..3 : i # j => places[i] \cap places[j] = {}

\* A codec renders only into the window of its slot, which is not released before the
\* codec is gone.
CodecOnLiveWindow == owner # "idle" => target \in live /\ target = window[0]

\* stop() returns, whether the loop connects, adopts a surface or waits for a decode
\* thread that is gated, polls for a buffer or blocks in pop_au.
StopReturnsToUi == bridge = "stopping" ~> bridge = "none"
=============================================================================
