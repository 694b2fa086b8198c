------------------------------- MODULE XrApp -------------------------------
(***************************************************************************)
(* quest/src/main.cpp and xr_app.cpp: the Quest client's only thread of    *)
(* its own, driven from three sides that know nothing of each other: the   *)
(* Android looper (pause, resume, destroy), the OpenXR runtime (the        *)
(* session's life cycle, through xrPollEvent) and the network session.     *)
(*                                                                         *)
(* create and the destructor are sequences of platform calls, any of which *)
(* may fail; what they make is a set of handles <<kind, stream>>.  Images, *)
(* matrices, timestamps and the two debug toggles are left out: of a       *)
(* window's picture only what it shows is kept.  NetSession shows what     *)
(* pump does; here it is reduced to the edge XrApp looks at, and the STATS *)
(* that pump_network sends, which read counters only, are left out.        *)
(***************************************************************************)
EXTENDS Integers, Sequences, FiniteSets

CONSTANTS
  Extras,      \* the extra streams of the CONFIG, as a sequence
  Served,      \* the streams the session has receivers for
  MaxCmds,     \* bound on the commands Android sends
  MaxChanges   \* bound on the runtime's state changes

Streams == {0} \cup {Extras[i] : i \in DOMAIN Extras}

ASSUME XrAssumption ==
  /\ Extras \in Seq(Nat \ {0}) /\ Served \subseteq Streams
  /\ MaxCmds \in Nat /\ MaxChanges \in Nat

VARIABLES
  pc,               \* android_main: "loader", "create", the phases of its loop, "teardown", "gone"
                    \* or "crashed"
  cmds, ncmds,      \* the looper's queue, and how much was sent
  resumed,          \* AppState::resumed
  destroyRequested, \* android_app::destroyRequested
  rt, changes,      \* the runtime's session state, and how often it changed by itself
  xr_events,        \* the session states xrPollEvent has to report
  session_running,  \* session_running_
  exit_requested,
  net,              \* net_session_: "none", "connecting" or "streaming"
  windows,          \* windows_
  held,             \* the handles the members hold
  step              \* progress of the destructor

android == <<cmds, ncmds, resumed, destroyRequested>>
runtime == <<rt, changes, xr_events, session_running, exit_requested>>
scene == <<net, windows, held>>
xvars == <<pc, android, runtime, scene, step>>

Window(stream, surface) ==
  [stream |-> stream, surface |-> surface, active |-> FALSE, painted |-> FALSE,
   fresh |-> FALSE, shows |-> "nothing"]

XInit ==
  /\ pc = "loader"
  /\ cmds = << >> /\ ncmds = 0 /\ resumed = FALSE /\ destroyRequested = FALSE
  /\ rt = "idle" /\ changes = 0 /\ xr_events = << >>
  /\ session_running = FALSE /\ exit_requested = FALSE
  /\ net = "none" /\ windows = << >> /\ held = {} /\ step = 1

-----------------------------------------------------------------------------
(***************************************************************************)
(* Handles.  Needs gives what must still exist while a handle does: the    *)
(* decode thread reads its stream's receiver, which the session owns, and  *)
(* renders into its window's surface.                                      *)
(***************************************************************************)
H(kind) == <<kind, 0>>
Swap(s) == <<"swapchain", s>>
Surface(s) == <<"surface", s>>
Thread(s) == <<"thread", s>>

Needs(h) ==
  CASE h[1] \in {"space", "eyes", "swapchain", "overlay"} -> {H("session")}
    [] h[1] = "session" -> {H("instance"), H("egl")}
    [] h[1] \in {"gl", "surface"} -> {H("egl")}
    [] h[1] = "thread" -> {H("net"), Surface(h[2])}
    [] OTHER -> {}

\* What create makes, in its order; a failure of any of them ends it.
create_instance == <<H("instance")>>
create_session == <<H("session"), H("space")>>
create_swapchains == <<H("eyes")>>
create_cylinder_swapchain(s) == Swap(s)

Parts ==
  <<H("egl")>> \o create_instance \o create_session \o create_swapchains
    \o <<create_cylinder_swapchain(0), H("gl")>>

PrimaryAt == 6

init_loader(ok) ==
  /\ pc = "loader"
  /\ pc' = IF ok THEN "create" ELSE "gone"
  /\ UNCHANGED <<android, runtime, scene, step>>

\* No host file, an empty host or a transport that does not start: there is no session.
connect_from_config(connects) == IF connects THEN {H("net")} ELSE {}

\* n parts are made.  The primary window is kept once it has its swapchain, whether or
\* not its SurfaceTexture could be set up; the overlay and the connection may fail and
\* are done without.
create ==
  /\ pc = "create"
  /\ \E n \in 0..Len(Parts), ok, overlay, connects \in BOOLEAN :
       LET all == n = Len(Parts) IN
       /\ windows' = IF n >= PrimaryAt THEN <<Window(0, ok)>> ELSE << >>
       /\ held' = {Parts[i] : i \in 1..n}
                  \cup (IF n >= PrimaryAt THEN {Surface(0)} ELSE {})
                  \cup (IF all /\ overlay THEN {H("overlay")} ELSE {})
                  \cup connect_from_config(all /\ connects)
       /\ net' = IF all /\ connects THEN "connecting" ELSE "none"
       /\ pc' = IF all THEN "poll" ELSE "teardown"
  /\ UNCHANGED <<android, runtime, step>>

-----------------------------------------------------------------------------
\* The three environments, while the loop is there to notice.  The runtime signals READY
\* only to a resumed activity.
InLoop == pc \in {"poll", "events", "pump", "render"}

AndroidSends(c) ==
  /\ InLoop /\ ncmds < MaxCmds
  /\ cmds' = Append(cmds, c) /\ ncmds' = ncmds + 1
  /\ UNCHANGED <<pc, resumed, destroyRequested, runtime, scene, step>>

RuntimeMoves(to) ==
  /\ InLoop /\ changes < MaxChanges
  /\ \/ rt = "idle" /\ to = "ready" /\ resumed
     \/ rt = "begun" /\ to = "stopping"
     \/ rt = "idle" /\ to = "exiting"
     \/ rt # "lost" /\ to = "lost"
  /\ rt' = to /\ changes' = changes + 1
  /\ xr_events' = Append(xr_events, to)
  /\ UNCHANGED <<pc, android, session_running, exit_requested, scene, step>>

\* A decode thread renders a frame into its surface.
CodecRenders(k) ==
  /\ InLoop /\ k \in DOMAIN windows /\ windows[k].surface /\ Thread(windows[k].stream) \in held
  /\ windows' = [windows EXCEPT ![k].fresh = TRUE]
  /\ UNCHANGED <<pc, android, runtime, net, held, step>>

-----------------------------------------------------------------------------
\* Fault: the looper may block whenever no session runs.
BlocksUnlessRunning == ~session_running /\ ~destroyRequested

\* The looper waits for ever only in this case.
Blocks == ~resumed /\ ~session_running /\ ~destroyRequested

\* The inner loop of android_main: what the looper has is processed by
\* on_app_cmd, and an empty looper ends the loop, or blocks it.
Process ==
  /\ pc = "poll" /\ cmds # << >>
  /\ LET c == Head(cmds) IN
       /\ resumed' = ((resumed \/ c = "resume") /\ c # "pause")
       /\ destroyRequested' = (destroyRequested \/ c = "destroy")
  /\ cmds' = Tail(cmds)
  /\ UNCHANGED <<pc, ncmds, runtime, scene, step>>

PollEnds ==
  /\ pc = "poll" /\ cmds = << >> /\ ~Blocks
  /\ pc' = "events"
  /\ UNCHANGED <<android, runtime, scene, step>>

\* Fault: an ended session is still taken to run.
AfterStopRuns == session_running

AfterStop == FALSE

\* READY begins the session, which may fail; STOPPING ends it; EXITING and LOSS_PENDING
\* end the loop.
handle_session_state(s) ==
  \/ /\ s = "ready"
     /\ \/ rt = "ready" /\ rt' = "begun" /\ session_running' = TRUE
        \/ UNCHANGED rt /\ session_running' = FALSE
     /\ UNCHANGED exit_requested
  \/ /\ s = "stopping"
     /\ rt' = IF rt = "stopping" THEN "idle" ELSE rt
     /\ session_running' = AfterStop
     /\ UNCHANGED exit_requested
  \/ /\ s \in {"exiting", "lost"}
     /\ exit_requested' = TRUE
     /\ UNCHANGED <<rt, session_running>>

poll_events ==
  /\ pc = "events"
  /\ \/ /\ xr_events # << >>
        /\ handle_session_state(Head(xr_events))
        /\ xr_events' = Tail(xr_events)
        /\ UNCHANGED pc
     \/ /\ xr_events = << >>
        /\ pc' = "pump"
        /\ UNCHANGED <<rt, xr_events, session_running, exit_requested>>
  /\ UNCHANGED <<android, changes, scene, step>>

-----------------------------------------------------------------------------
\* start_decoder: a window for extra streams that are served and whose swapchain and
\* surface can be made (up, their places in the CONFIG), then a decoder for each window, of
\* which those in made could be created and those in run have a thread: start does not
\* report a failure.
Keeps(up, k) ==
  \A i \in 1..k : Extras[up[i]] \in Served /\ \A j \in 1..(i - 1) : up[j] < up[i]

ExtraWindows(up, k) == [i \in 1..k |-> Window(Extras[up[i]], TRUE)]

start_decoder(extra, made, run) ==
  LET ws == windows \o extra
      streams == {ws[i].stream : i \in DOMAIN ws}
  IN /\ windows' = [i \in DOMAIN ws |-> [ws[i] EXCEPT !.active = @ \/ ws[i].stream \in made]]
     /\ held' = held \cup {create_cylinder_swapchain(s) : s \in streams}
                     \cup {Surface(s) : s \in streams}
                     \cup {Thread(s) : s \in streams \cap made \cap run}

Idle == UNCHANGED <<windows, held>>

\* pump_network: the first pump that finds the session streaming starts the decoders.
pump_network ==
  /\ pc = "pump"
  /\ \/ UNCHANGED net /\ Idle
     \/ /\ net = "connecting" /\ net' = "streaming"
        /\ \E k \in 0..Len(Extras), made, run \in SUBSET Served :
             \E up \in [1..k -> DOMAIN Extras] :
               Keeps(up, k) /\ start_decoder(ExtraWindows(up, k), made, run)
  /\ pc' = "render"
  /\ UNCHANGED <<android, runtime, step>>

-----------------------------------------------------------------------------
\* Fault: the test image does not look at the decoder.
TestImageDueAnyway(w) == ~w.painted

TestImageDue(w) == ~w.active /\ ~w.painted

\* One window's turn: a new frame of its decoder is blitted, a window without a decoder
\* gets the test image once.  An image that cannot be acquired is not painted, but the
\* window counts as painted and the frame as taken.
Paint(w, acquired) ==
  CASE w.active /\ w.fresh ->
         [w EXCEPT !.fresh = FALSE, !.shows = IF acquired THEN "video" ELSE @]
    [] ~(w.active /\ w.fresh) /\ TestImageDue(w) ->
         [w EXCEPT !.painted = TRUE, !.shows = IF acquired THEN "test" ELSE @]
    [] OTHER -> w

\* Fault: an exiting session does not end the loop.
AfterFrameDestroyOnly == IF destroyRequested THEN "teardown" ELSE "poll"

AfterFrame == IF destroyRequested \/ exit_requested THEN "teardown" ELSE "poll"

\* update of a SurfaceTexture that was not set up reads through a null pointer.
NullSurface == \E k \in DOMAIN windows : windows[k].active /\ ~windows[k].surface

\* The frame is skipped without a running session, when xrWaitFrame or xrBeginFrame
\* fails, and when there is nothing to render; the loop then looks at its condition.
render_frame ==
  /\ pc = "render"
  /\ \/ UNCHANGED windows /\ pc' = AfterFrame
     \/ /\ session_running /\ ~NullSurface
        /\ \E got \in SUBSET DOMAIN windows :
             windows' = [k \in DOMAIN windows |-> Paint(windows[k], k \in got)]
        /\ pc' = AfterFrame
     \/ session_running /\ NullSurface /\ pc' = "crashed" /\ UNCHANGED windows
  /\ UNCHANGED <<android, runtime, net, held, step>>

-----------------------------------------------------------------------------
\* Fault: the windows are left to member destruction, which comes after the session's.
TeardownLate ==
  <<"gl", "eyes", "space", "session", "instance", "overlay", "net", "thread", "swapchain",
    "surface", "egl">>

\* The order of ~XrApp and, from "overlay" on, of the members it leaves to the compiler.
Teardown ==
  <<"gl", "eyes", "thread", "swapchain", "surface", "space", "session", "instance",
    "overlay", "net", "egl">>

DestroyApp ==
  /\ pc = "teardown"
  /\ held' = {h \in held : h[1] # Teardown[step]}
  /\ IF step < Len(Teardown) THEN step' = step + 1 /\ UNCHANGED pc
                             ELSE pc' = "gone" /\ UNCHANGED step
  /\ UNCHANGED <<android, runtime, net, windows>>

-----------------------------------------------------------------------------
MainStep ==
  \/ \E ok \in BOOLEAN : init_loader(ok)
  \/ create \/ Process \/ PollEnds \/ poll_events \/ pump_network \/ render_frame \/ DestroyApp

XNext ==
  \/ MainStep
  \/ \E c \in {"resume", "pause", "destroy"} : AndroidSends(c)
  \/ \E to \in {"ready", "stopping", "exiting", "lost"} : RuntimeMoves(to)
  \/ \E k \in 1..(Len(Extras) + 1) : CodecRenders(k)

\* The thread is scheduled: xrWaitFrame and the other calls return.
XSpec == XInit /\ [][XNext]_xvars /\ WF_xvars(MainStep)

-----------------------------------------------------------------------------
(***************************************************************************)
(* Properties                                                              *)
(***************************************************************************)
\* Frame calls are made only inside a begun session: session_running_ says so of the
\* runtime, through every order of events, failed begins and losses.
RunningIsBegun == session_running => rt \in {"begun", "stopping", "lost"}

\* Nothing outlives what it needs: no decode thread outlives the receivers and the
\* surface it uses, no handle its parent, whatever part of create failed.  (The overlay
\* is the exception: its swapchain is destroyed as a member, after session and instance.)
NothingDangles == \A h \in held : h[1] # "overlay" => Needs(h) \subseteq held

\* A desktop that has been shown is not replaced by the test image, and nothing shown
\* disappears.
PictureAdvances ==
  [][\A i \in DOMAIN windows :
       /\ windows[i].shows = "video" => windows'[i].shows = "video"
       /\ windows[i].shows = "test" => windows'[i].shows # "nothing"]_xvars

\* While the activity is resumed, an event of the runtime is taken: the looper does not
\* block the thread that has to begin the session.
EventsReachApp ==
  (resumed /\ xr_events # << >>) ~> (xr_events = << >> \/ ~resumed \/ pc \in {"teardown", "gone", "crashed"})

\* A destroyed activity, or a lost or exiting session once seen, ends the program.
AppEnds == (destroyRequested \/ exit_requested) ~> pc \in {"gone", "crashed"}
=============================================================================
