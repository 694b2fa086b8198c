----------------------------- MODULE SdlClient -----------------------------
(***************************************************************************)
(* The desktop client: sdl/src/main.cpp with its transport                 *)
(* (msquic_transport.cpp), its decode thread (video_pipeline.cpp) and the  *)
(* bookkeeping of its reports (metrics.hpp).  Three parties run at once:   *)
(* msquic's workers, which only queue events, the main loop, and the       *)
(* decode thread.                                                          *)
(*                                                                         *)
(* Datagrams are numbered as they arrive.  Each one is a whole keyframe:   *)
(* VideoReceiver is the module about the others, and here it is its        *)
(* hand-off.  Of the core session (module Session) the loop sees the       *)
(* actions it polls.                                                       *)
(***************************************************************************)
EXTENDS Integers, Sequences, SequencesExt

CONSTANTS
  MaxDatagrams,   \* bound on the datagrams the host sends
  MaxPendingAus,  \* kMaxPendingAus of the receiver
  MaxReports      \* bound on the STATS sent

ASSUME SdlAssumption ==
  MaxDatagrams \in Nat /\ MaxPendingAus \in Nat \ {0} /\ MaxReports \in Nat

VARIABLES
  opened,                \* the transport's handles, in the order they were opened
  control,               \* control_: the control stream is open
  conn,                  \* the connection: "idle", "up" or "shut"
  events, arrived,       \* the transport's queue; datagrams that came in
  host,                  \* what the host has heard and said: "deaf", "hello", "started", "done"
  pc, running, exit_code,
  session, actions,      \* the session's state, and what poll() will give
  pipeline, prebuffered, \* whether there is a pipeline, and what waits for one
  fed,                   \* datagrams given to the receiver
  au_queue, stop,        \* the receiver's hand-off and stop_
  received,              \* Counters::frames_received
  dpc, au,               \* the decode thread
  latest, has_new,       \* the newest-frame slot
  current,               \* the frame on screen
  clock,                 \* the session has a clock estimate
  n, base,               \* Metrics: frames of this window, counters at its start
  reports, reported      \* STATS sent, and the frames they reported

netvars == <<opened, control, conn, events, arrived, host>>
sessvars == <<session, actions, clock>>
rcvars == <<fed, au_queue, stop, received>>
decvars == <<dpc, au, latest, has_new>>
metvars == <<n, base, reports, reported>>
mainvars == <<pc, running, exit_code, pipeline, prebuffered, current>>
svars == <<netvars, sessvars, rcvars, decvars, metvars, mainvars>>

SInit ==
  /\ opened = << >> /\ control = FALSE /\ conn = "idle" /\ events = << >> /\ arrived = 0
  /\ host = "deaf"
  /\ pc = "start" /\ running = TRUE /\ exit_code = 0
  /\ session = "Connecting" /\ actions = << >> /\ clock = FALSE
  /\ pipeline = FALSE /\ prebuffered = << >>
  /\ fed = << >> /\ au_queue = << >> /\ stop = FALSE /\ received = 0
  /\ dpc = "off" /\ au = 0 /\ latest = 0 /\ has_new = FALSE /\ current = 0
  /\ n = 0 /\ base = 0 /\ reports = 0 /\ reported = 0

Event(kind, arg) == [kind |-> kind, arg |-> arg]

-----------------------------------------------------------------------------
(***************************************************************************)
(* MsQuicTransport                                                         *)
(***************************************************************************)
Handles == <<"api", "registration", "configuration", "connection">>

\* The constructor and start: k handles are opened, and with all of them the connection
\* may still fail to start.  main returns 1 then.
start ==
  /\ pc = "start"
  /\ \E k \in 0..Len(Handles), ok \in BOOLEAN :
       /\ opened' = SubSeq(Handles, 1, k)
       /\ \/ /\ k = Len(Handles) /\ ok
             /\ pc' = "pump" /\ UNCHANGED exit_code
          \/ /\ ~(k = Len(Handles) /\ ok)
             /\ pc' = "exit" /\ exit_code' = 1
  /\ UNCHANGED <<control, conn, events, arrived, host, sessvars, rcvars, decvars, metvars,
                 running, pipeline, prebuffered, current>>

\* on_connection and on_stream, on msquic's workers.
Listening == pc \notin {"start", "gone"} /\ Len(opened) = Len(Handles)

OnConnected ==
  /\ Listening /\ conn = "idle"
  /\ conn' = "up"
  /\ control' \in BOOLEAN
  /\ events' = Append(events, Event("Connected", 0))
  /\ UNCHANGED <<opened, arrived, host, sessvars, rcvars, decvars, metvars, mainvars>>

OnDatagram ==
  /\ Listening /\ conn = "up" /\ host \in {"hello", "started"} /\ arrived < MaxDatagrams
  /\ arrived' = arrived + 1
  /\ events' = Append(events, Event("Datagram", arrived'))
  /\ UNCHANGED <<opened, control, conn, host, sessvars, rcvars, decvars, metvars, mainvars>>

\* Control bytes: the end of the handshake, or a message that ends the session.
OnReceive(m) ==
  /\ Listening /\ conn = "up"
  /\ \/ host = "hello" /\ m = "START" /\ host' = "started"
     \/ host \in {"hello", "started"} /\ m \in {"BYE", "bad"} /\ host' = "done"
  /\ events' = Append(events, Event("ControlBytes", m))
  /\ UNCHANGED <<opened, control, conn, arrived, sessvars, rcvars, decvars, metvars, mainvars>>

\* The peer shuts down with an error code, or the transport with none.
OnShutdown(code) ==
  /\ Listening /\ conn # "shut"
  /\ conn' = "shut"
  /\ events' = Append(events, Event("Closed", code))
  /\ UNCHANGED <<opened, control, arrived, host, sessvars, rcvars, decvars, metvars, mainvars>>

\* send_control of HELLO: without a control stream the frame is dropped.
HelloHeard == IF control /\ host = "deaf" THEN "hello" ELSE host

-----------------------------------------------------------------------------
(***************************************************************************)
(* The receiver's hand-off (core::VideoReceiver, see that module)          *)
(***************************************************************************)
HandOff(q, a) == IF Len(q) >= MaxPendingAus THEN <<a>> ELSE Append(q, a)

feed_datagrams(ds) ==
  /\ fed' = fed \o ds
  /\ au_queue' = FoldLeft(HandOff, au_queue, ds)
  /\ received' = received + Len(ds)
  /\ UNCHANGED stop

-----------------------------------------------------------------------------
(***************************************************************************)
(* main                                                                    *)
(***************************************************************************)
Ended == session \in {"Failed", "Closed"}

\* The session's reaction to an event, as the actions that poll() will hand out.
SessionHears(m) ==
  \/ /\ Ended /\ UNCHANGED <<session, actions>>
  \/ /\ ~Ended /\ m = "Connected"
     /\ session' = "Negotiating" /\ actions' = Append(actions, "SendControl")
  \/ /\ ~Ended /\ m = "START"
     /\ session' = "Streaming" /\ actions' = Append(actions, "MediaExpected")
  \/ /\ ~Ended /\ m = "BYE"
     /\ session' = "Closed" /\ actions' = Append(actions, "Closed")
  \/ /\ ~Ended /\ m = "bad"
     /\ session' = "Failed" /\ actions' = Append(actions, "Fatal")

\* Fault: a datagram that is too early is thrown away.
TooEarlyDrops(d) == prebuffered

\* A datagram that comes before START waits for the pipeline.
TooEarly(d) == Append(prebuffered, d)

\* The inner loop over next_event.
NextEvent ==
  /\ pc = "pump" /\ events # << >>
  /\ LET e == Head(events) IN
       \/ /\ e.kind \in {"Connected", "ControlBytes"}
          /\ SessionHears(IF e.kind = "Connected" THEN "Connected" ELSE e.arg)
          /\ UNCHANGED <<rcvars, prebuffered, running, exit_code>>
       \/ /\ e.kind = "Datagram"
          /\ \/ pipeline /\ feed_datagrams(<<e.arg>>) /\ UNCHANGED prebuffered
             \/ ~pipeline /\ prebuffered' = TooEarly(e.arg) /\ UNCHANGED rcvars
          /\ UNCHANGED <<session, actions, running, exit_code>>
       \/ /\ e.kind = "Closed"
          /\ running' = FALSE
          /\ exit_code' = IF e.arg # 0 THEN 1 ELSE exit_code
          /\ UNCHANGED <<rcvars, prebuffered, session, actions>>
  /\ events' = Tail(events)
  /\ UNCHANGED <<opened, control, conn, arrived, host, clock, decvars, metvars, pc, pipeline,
                 current>>

PumpEnds ==
  /\ pc = "pump" /\ events = << >>
  /\ pc' = "poll"
  /\ clock' \in {clock, session = "Streaming" \/ clock}
  /\ UNCHANGED <<netvars, session, actions, rcvars, decvars, metvars, running, exit_code,
                 pipeline, prebuffered, current>>

\* start_media: the decode thread starts, and gets what was waiting.
start_media ==
  \/ pipeline /\ UNCHANGED <<pipeline, prebuffered, rcvars, dpc>>
  \/ /\ ~pipeline
     /\ pipeline' = TRUE /\ dpc' = "pop"
     /\ feed_datagrams(prebuffered)
     /\ prebuffered' = << >>

\* One action of session.poll().
PollAction ==
  /\ pc = "poll" /\ actions # << >>
  /\ LET a == Head(actions) IN
       /\ host' = IF a = "SendControl" THEN HelloHeard ELSE host
       /\ running' = (running /\ a \notin {"Fatal", "Closed"})
       /\ exit_code' = IF a = "Fatal" THEN 1 ELSE exit_code
       /\ IF a = "MediaExpected" THEN start_media
                                 ELSE UNCHANGED <<pipeline, prebuffered, rcvars, dpc>>
  /\ actions' = Tail(actions)
  /\ UNCHANGED <<opened, control, conn, events, arrived, session, clock, au, latest, has_new,
                 metvars, pc, current>>

PollEnds ==
  /\ pc = "poll" /\ actions = << >>
  /\ pc' = "stats"
  /\ UNCHANGED <<netvars, sessvars, rcvars, decvars, metvars, running, exit_code, pipeline,
                 prebuffered, current>>

\* Fault: the next window starts where this one did.
NextBaseOld == base

NextBase == received

\* take_window: the report counts from where the last one ended.
take_window ==
  /\ reported' = reported + (received - base)
  /\ base' = NextBase
  /\ n' = 0

\* STATS, when a second has passed since the last.
Stats ==
  /\ pc = "stats"
  /\ \/ UNCHANGED metvars
     \/ pipeline /\ reports < MaxReports /\ take_window /\ reports' = reports + 1
  /\ pc' = "render"
  /\ UNCHANGED <<netvars, sessvars, rcvars, decvars, running, exit_code, pipeline,
                 prebuffered, current>>

\* take_frame, on_frame (only with a clock), present, and perhaps the window's quit
\* button; then the loop's condition.
Render ==
  /\ pc = "render"
  /\ \/ /\ pipeline /\ has_new
        /\ current' = latest /\ has_new' = FALSE
        /\ n' = IF clock THEN n + 1 ELSE n
     \/ /\ ~(pipeline /\ has_new)
        /\ UNCHANGED <<current, has_new, n>>
  /\ running' \in IF pipeline THEN {running, FALSE} ELSE {running}
  /\ pc' = IF running' THEN "pump" ELSE "exit"
  /\ UNCHANGED <<netvars, sessvars, rcvars, dpc, au, latest, base, reports, reported,
                 exit_code, pipeline, prebuffered>>

\* Fault: the pipeline is destroyed without stopping its receiver.
StopRaisedNot == stop

StopRaised == TRUE

\* main returns: ~VideoPipeline stops the receiver and joins the decode thread ...
StopPipeline ==
  /\ pc = "exit"
  /\ stop' = StopRaised
  /\ pc' = "join"
  /\ UNCHANGED <<netvars, sessvars, fed, au_queue, received, decvars, metvars, running,
                 exit_code, pipeline, prebuffered, current>>

\* ... and ~MsQuicTransport closes what was opened, the youngest handle first.
Joined ==
  /\ pc = "join" /\ dpc \in {"off", "done"}
  /\ opened' = << >> /\ control' = FALSE
  /\ pc' = "gone"
  /\ UNCHANGED <<conn, events, arrived, host, sessvars, rcvars, decvars, metvars, running,
                 exit_code, pipeline, prebuffered, current>>

-----------------------------------------------------------------------------
(***************************************************************************)
(* VideoPipeline::decode_loop                                              *)
(***************************************************************************)
PopAu ==
  /\ dpc = "pop" /\ au_queue # << >>
  /\ au' = Head(au_queue) /\ au_queue' = Tail(au_queue)
  /\ dpc' = "decode"
  /\ UNCHANGED <<netvars, sessvars, fed, stop, received, latest, has_new, metvars, mainvars>>

PopEnds ==
  /\ dpc = "pop" /\ au_queue = << >> /\ stop
  /\ dpc' = "done"
  /\ UNCHANGED <<netvars, sessvars, rcvars, au, latest, has_new, metvars, mainvars>>

\* Fault: the slot is only marked when it was marked before.
MarkedNewNot == has_new

MarkedNew == TRUE

\* The frame is put into the slot; one that cannot be decoded is not.
Publish ==
  /\ dpc = "decode"
  /\ dpc' = "pop"
  /\ \/ latest' = au /\ has_new' = MarkedNew
     \/ UNCHANGED <<latest, has_new>>
  /\ UNCHANGED <<netvars, sessvars, rcvars, au, metvars, mainvars>>

-----------------------------------------------------------------------------
MainStep == start \/ NextEvent \/ PumpEnds \/ PollAction \/ PollEnds \/ Stats \/ Render
            \/ StopPipeline \/ Joined
DecodeStep == PopAu \/ PopEnds \/ Publish
Worker == OnConnected \/ OnDatagram \/ \E m \in {"START", "BYE", "bad"} : OnReceive(m)
          \/ \E code \in 0..1 : OnShutdown(code)

SNext == MainStep \/ DecodeStep \/ Worker

\* Both threads are scheduled; the network does what it likes.
SSpec == SInit /\ [][SNext]_svars /\ WF_svars(MainStep) /\ WF_svars(DecodeStep)

-----------------------------------------------------------------------------
(***************************************************************************)
(* Properties                                                              *)
(***************************************************************************)
Queued == {i \in DOMAIN events : events[i].kind = "Datagram"}

\* Every datagram reaches the receiver once and in the order of arrival, those that
\* overtake START too: what is fed and what waits for the pipeline are the first to have
\* come in, and the others are in the queue, in order.
DatagramsInOrder ==
  LET seen == fed \o prebuffered IN
  /\ seen = [i \in 1..Len(seen) |-> i] /\ Len(seen) <= arrived
  /\ {events[i].arg : i \in Queued} = (Len(seen) + 1)..arrived
  /\ \A i, j \in Queued : i < j => events[i].arg < events[j].arg

\* The windows of the STATS join without gap or overlap: together they report each frame
\* the receiver counted up to the last report once.
StatsExact == reported = base /\ base <= received /\ received = Len(fed)

\* A decoded frame is shown, or a later one in its place, unless the program ends.
NewestFrameShown ==
  \A f \in 1..MaxDatagrams : latest = f ~> current >= f \/ pc = "gone"

\* Once the loop is told to stop, the program ends: the decode thread is joined although
\* it may be blocked in pop_au.
ClientExits == ~running ~> pc = "gone"
=============================================================================
