----------------------------- MODULE NetSession -----------------------------
(***************************************************************************)
(* quest/src/quic_transport.cpp and net_session.cpp around the session:    *)
(* msquic's threads only queue events; the render thread pumps them into   *)
(* the session and the receivers, sends what the session asks for, and     *)
(* then (XrApp::pump_network) brings up one decoder per stream; the UI     *)
(* thread leaves a viewport size behind.                                   *)
(*                                                                         *)
(* Control bytes are chunks of whole messages: ControlStream shows that    *)
(* the cuts do not matter.  The session's inbox is the chunk that          *)
(* on_control_bytes is working on.  The clock only moves between pumps,    *)
(* which is when the render thread reads it.                               *)
(*                                                                         *)
(* The host answers HELLO with a script of messages, every CONFIG of which *)
(* lists the same extra streams, and sends media of a stream once the      *)
(* CONFIG that announces it is acknowledged.                               *)
(***************************************************************************)
EXTENDS Session, FiniteSets

CONSTANTS
  Extras,        \* the extra streams of CONFIG key 6, a sequence of ids >= 2
  MultiDisplay,  \* the features value with kFeatureMultiDisplay set
  Sizes,         \* viewport sizes the UI may ask for; 0 means none
  OpenResults,   \* what StreamOpen may return: {TRUE}, or BOOLEAN
  MaxDatagrams   \* bound on the datagrams in one run

ASSUME ExtrasAssumption ==
  /\ Extras \in Seq(Nat)
  /\ \A i, j \in DOMAIN Extras : Extras[i] >= 2 /\ (i # j => Extras[i] # Extras[j])
ASSUME SizesAssumption == 0 \notin Sizes
ASSUME OpenAssumption == OpenResults \subseteq BOOLEAN

VARIABLES
  link,               \* the connection: "starting", "up", "shut"
  control,            \* control_ is open
  events,             \* the transport's event queue
  script,             \* what the host has still to send
  got,                \* history: the types of control message that reached the host
  media,              \* history: datagrams the host sent
  pc,                 \* where the render thread is in pump
  receivers,          \* the stream ids of receivers_, primary first
  built,              \* extra_receivers_built_
  streaming, just_started, config_changed, closed, fatal_seen,
  requested,          \* requested_viewport_
  sent_viewport,
  asked,              \* history: the size of the last VIEWPORT queued
  windows,            \* stream ids of the application's windows
  decoders,           \* stream id -> generation of the CONFIG it was created at
  unserved            \* history: streams whose datagram met no receiver

tvars == <<link, control, events, script, got, media>>
fvars == <<receivers, built, streaming, just_started, config_changed, closed, fatal_seen>>
avars == <<windows, decoders, unserved>>
nvars == <<svars, tvars, fvars, avars, pc, requested, sent_viewport, asked>>

NetInit ==
  /\ SessionInit /\ inbox = << >>
  /\ link = "starting" /\ control = FALSE /\ events = << >>
  /\ script \in Scripts /\ got = {} /\ media = 0
  /\ pc = "idle"
  /\ receivers = <<0>> /\ built = FALSE
  /\ streaming = FALSE /\ just_started = FALSE /\ config_changed = FALSE
  /\ closed = FALSE /\ fatal_seen = FALSE
  /\ requested = 0 /\ sent_viewport = 0 /\ asked = 0
  /\ windows = <<0>> /\ decoders = << >> /\ unserved = {}

Served == {receivers[i] : i \in DOMAIN receivers}

-----------------------------------------------------------------------------
\* msquic's threads: every handler ends in one push under the queue's mutex.
Enqueue(ev) == events' = Append(events, ev)

\* on_connection, CONNECTED.  Connected is reported even when StreamOpen fails.
OnConnected ==
  /\ link = "starting"
  /\ link' = "up"
  /\ control' \in OpenResults
  /\ Enqueue([kind |-> "Connected"])
  /\ UNCHANGED <<svars, fvars, avars, pc, requested, sent_viewport, asked, script, got, media>>

\* on_stream, RECEIVE: n messages of the host's script in one chunk.
OnControl(n) ==
  /\ link = "up" /\ control /\ "HELLO" \in got
  /\ n <= Len(script)
  /\ Enqueue([kind |-> "ControlBytes", chunk |-> SubSeq(script, 1, n)])
  /\ script' = SubSeq(script, n + 1, Len(script))
  /\ UNCHANGED <<svars, fvars, avars, pc, requested, sent_viewport, asked, link, control, got, media>>

\* on_connection, DATAGRAM_RECEIVED.  Stream 1 is audio, which has no receiver.
OnDatagram(sid) ==
  /\ link = "up" /\ media < MaxDatagrams
  /\ "CONFIG_ACK" \in got
  /\ sid > 1 => active_features = MultiDisplay
  /\ Enqueue([kind |-> "Datagram", sid |-> sid])
  /\ media' = media + 1
  /\ UNCHANGED <<svars, fvars, avars, pc, requested, sent_viewport, asked, link, control, script, got>>

\* on_connection, SHUTDOWN_INITIATED: by the peer or by the transport.
OnShutdown ==
  /\ link # "shut"
  /\ link' = "shut"
  /\ Enqueue([kind |-> "Closed"])
  /\ UNCHANGED <<svars, fvars, avars, pc, requested, sent_viewport, asked, control, script, got, media>>

\* request_viewport, on the UI thread: only the most recent size matters.
request_viewport(size) ==
  /\ requested' = size
  /\ UNCHANGED <<svars, tvars, fvars, avars, pc, sent_viewport, asked>>

Clock ==
  /\ pc = "idle"
  /\ now' = now + 1 /\ now' \in Times
  /\ UNCHANGED <<score, last_ping, last_viewport, out, log, inbox,
                 tvars, fvars, avars, pc, requested, sent_viewport, asked>>

-----------------------------------------------------------------------------
\* Fault: the flags of the last pump are not reset.
ClearFlagsNot == UNCHANGED <<just_started, config_changed>>

ClearFlags == just_started' = FALSE /\ config_changed' = FALSE

\* pump, on the render thread.
PumpBegin ==
  /\ pc = "idle"
  /\ pc' = "drain"
  /\ ClearFlags
  /\ UNCHANGED <<svars, tvars, avars, receivers, built, streaming, closed, fatal_seen,
                 requested, sent_viewport, asked>>

\* next_event found one of this kind.
Take(kind) ==
  /\ pc = "drain" /\ events # << >>
  /\ Head(events).kind = kind
  /\ events' = Tail(events)
  /\ UNCHANGED <<link, control, script, got, media, requested, sent_viewport, asked>>

PumpConnected ==
  /\ Take("Connected")
  /\ IF Terminal THEN UNCHANGED svars ELSE Connected /\ UNCHANGED inbox
  /\ UNCHANGED <<fvars, avars, pc>>

\* Fault: only the first frame of a chunk is looked at.
ChunkFirst == <<Head(Head(events).chunk)>>

Chunk == Head(events).chunk

\* on_control_bytes: the chunk is dropped when the session has ended.
PumpControl ==
  /\ Take("ControlBytes")
  /\ inbox' = IF Terminal THEN << >> ELSE Chunk
  /\ pc' = "chunk"
  /\ UNCHANGED <<score, last_ping, last_viewport, out, log, now, fvars, avars>>

PumpFrame ==
  /\ pc = "chunk"
  /\ Receive
  /\ UNCHANGED <<tvars, fvars, avars, pc, requested, sent_viewport, asked>>

\* Fault: the extra receivers are built when streaming starts.
BuildDueAtStart == ~built /\ state = "Streaming"

BuildDue == ~built /\ config # None

\* build_extra_receivers, after every chunk.
PumpBuild ==
  /\ pc = "chunk" /\ inbox = << >>
  /\ pc' = "drain"
  /\ \/ /\ BuildDue
        /\ built' = TRUE
        /\ receivers' = IF active_features = MultiDisplay THEN receivers \o Extras ELSE receivers
     \/ /\ ~BuildDue
        /\ UNCHANGED <<built, receivers>>
  /\ UNCHANGED <<svars, tvars, avars, streaming, just_started, config_changed, closed,
                 fatal_seen, requested, sent_viewport, asked>>

\* Every receiver is offered the datagram and keeps its own stream's.
PumpDatagram ==
  /\ Take("Datagram")
  /\ unserved' = unserved \cup ({Head(events).sid} \ (Served \cup {1}))
  /\ UNCHANGED <<svars, fvars, windows, decoders, pc>>

\* Fault: the loss of the connection is only logged.
ClosedSeenNot == closed

ClosedSeen == TRUE

PumpClosed ==
  /\ Take("Closed")
  /\ closed' = ClosedSeen
  /\ UNCHANGED <<svars, receivers, built, streaming, just_started, config_changed, fatal_seen,
                 avars, pc>>

\* The queue is empty: on_tick, then the viewport request, then the actions.
PumpTick ==
  /\ pc = "drain" /\ events = << >>
  /\ on_tick(now)
  /\ pc' = "viewport"
  /\ UNCHANGED <<inbox, tvars, fvars, avars, requested, sent_viewport, asked>>

WantsViewport == requested # 0 /\ requested # sent_viewport

\* Fault: a size counts as sent when the session refused it.
StaysWantedNot == sent_viewport' = requested

\* What send_viewport refused is asked for again by the next pump.
StaysWanted == UNCHANGED sent_viewport

PumpViewport ==
  /\ pc = "viewport"
  /\ pc' = "poll"
  /\ \/ /\ WantsViewport
        /\ send_viewport(now)
        /\ UNCHANGED inbox
        /\ sent_viewport' = requested
        /\ asked' = requested
     \/ /\ ~(WantsViewport /\ ViewportDue(now))
        /\ StaysWanted
        /\ UNCHANGED <<svars, asked>>
  /\ UNCHANGED <<tvars, fvars, avars, requested>>

Polled(kind) == \E i \in DOMAIN out : out[i].kind = kind

\* send_control of every message among the actions; it is silent when the stream was
\* never opened or the connection is gone.
Delivers ==
  {out[i].msg : i \in {j \in DOMAIN out : out[j].kind = "SendControl" /\ control /\ link = "up"}}

FatalSeen == fatal_seen \/ Polled("Fatal")

PumpPoll ==
  /\ pc = "poll"
  /\ pc' = "app"
  /\ IF out = << >> THEN UNCHANGED svars ELSE poll /\ UNCHANGED inbox
  /\ got' = got \cup Delivers
  /\ streaming' = (streaming \/ Polled("MediaExpected"))
  /\ just_started' = (just_started \/ Polled("MediaExpected"))
  /\ config_changed' = (config_changed \/ Polled("ConfigChanged"))
  /\ fatal_seen' = FatalSeen
  /\ closed' = (closed \/ Polled("Closed"))
  /\ UNCHANGED <<receivers, built, link, control, events, script, media, avars,
                 requested, sent_viewport, asked>>

-----------------------------------------------------------------------------
\* XrApp::pump_network after the pump; start_decoder adds a window, in the order of the
\* CONFIG in force, for extra streams that have a receiver (a swapchain or a surface may
\* fail to come up), and tries to create a decoder for each window.
start_decoder ==
  /\ \E n \in 0..Len(Extras) : \E up \in [1..n -> DOMAIN Extras] :
       /\ \A k \in 1..n : Extras[up[k]] \in Served /\ \A j \in 1..(k - 1) : up[j] < up[k]
       /\ windows' = windows \o [k \in 1..n |-> Extras[up[k]]]
  /\ \E ok \in SUBSET {windows'[i] : i \in DOMAIN windows'} :
       decoders' = [s \in ok |-> config]

AppStep ==
  /\ pc = "app"
  /\ pc' = "idle"
  /\ \/ just_started /\ start_decoder
     \/ ~just_started /\ UNCHANGED <<windows, decoders>>
  /\ UNCHANGED <<svars, tvars, fvars, unserved, requested, sent_viewport, asked>>

Pump ==
  \/ PumpBegin \/ PumpConnected \/ PumpControl \/ PumpFrame \/ PumpBuild
  \/ PumpDatagram \/ PumpClosed \/ PumpTick \/ PumpViewport \/ PumpPoll \/ AppStep

Network ==
  \/ OnConnected
  \/ \E n \in 1..2 : OnControl(n)

NetNext ==
  \/ Network
  \/ \E sid \in {0, 1} \cup {Extras[i] : i \in DOMAIN Extras} : OnDatagram(sid)
  \/ OnShutdown
  \/ \E size \in Sizes : request_viewport(size)
  \/ Clock
  \/ Pump

NetSpec == NetInit /\ [][NetNext]_nvars

\* The render loop pumps on every iteration, time passes (whenever it can: strong
\* fairness, as the model stops the clock inside a pump), and while the connection is
\* up the host's bytes arrive.  Nothing is assumed of the UI, of datagrams or of a
\* shutdown.
NetFairSpec == NetSpec /\ WF_nvars(Pump) /\ SF_nvars(Clock) /\ WF_nvars(Network)

-----------------------------------------------------------------------------
(***************************************************************************)
(* Properties                                                              *)
(***************************************************************************)
Finished == closed \/ fatal_seen

Injective(s) == \A i, j \in DOMAIN s : i # j => s[i] # s[j]

\* No datagram of a negotiated stream meets a missing receiver: build_extra_receivers
\* runs before the CONFIG_ACK that lets the host send leaves the client.
ReadyBeforeMedia == unserved = {}

\* The fan-in stays one to one: one receiver per stream however often CONFIG
\* arrives, one window per stream with a receiver behind it, since START brings the
\* decoders up once.
FanIn ==
  /\ Injective(receivers) /\ receivers[1] = 0
  /\ Injective(windows) /\ {windows[i] : i \in DOMAIN windows} \subseteq Served
  /\ streaming /\ active_features = MultiDisplay => Served = {0} \cup {Extras[i] : i \in DOMAIN Extras}

ClosedQueued == \E i \in DOMAIN events : events[i].kind = "Closed"

\* The application hears of the end: after any pump, finished() is true if the session
\* has ended; once the connection is gone it is true, or the event that makes it so is
\* still queued, whatever phase the session believes to be in; and it is never true
\* while both the session and the connection last (pump, finished).
EndReachesApp ==
  /\ pc = "idle" /\ Terminal => Finished
  /\ link = "shut" => Finished \/ ClosedQueued
  /\ Finished => Terminal \/ link = "shut"

\* The last size the UI asked for is queued as a VIEWPORT, although the session's rate
\* limit may refuse it at first (pump: "Retry until Session accepts it").
SettledViewport ==
  (state = "Streaming" /\ WantsViewport /\ now + ViewportInterval \in Times)
    ~> (asked = requested \/ Terminal)

\* When the control stream opened and the host answers HELLO with a handshake, the client
\* gets to streaming or is told why not, however the bytes are cut and whatever else is
\* in the queue.
HandshakeCompletes ==
  (state = "Negotiating" /\ control) ~> (streaming \/ Finished \/ link = "shut")

\* net_session.hpp l.41-42: after a mid-session CONFIG "the app tears down and recreates
\* the decoder at the new config()".
DecoderMatchesConfig == pc = "idle" => \A s \in DOMAIN decoders : decoders[s] = config
=============================================================================
