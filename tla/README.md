# Loom client: a TLA+ verification development

The Loom client receives a desktop as HEVC video over QUIC and shows it on a
headset (`quest`, OpenXR), in Android panels (`quest-spatial`) or in a window
(`sdl`).  This directory holds TLA+ models of the parts that decide what is
shown and what is sent, the TLC configurations that check them on small
instances, and TLAPS proofs for every instance.  Paths are relative to `src/`;
`PROJECT.json` maps every definition to the lines it models.

## 1. The system

| Component | State it keeps | Operations | Talks to |
|---|---|---|---|
| `proto::reassembly::Reassembler` | window of two incomplete frames, newest completed and newest delivered frame, time of the last IDR request, counters, event log | `push`, `deliver`, `maybe_idr` | called by `VideoReceiver` |
| `core::VideoReceiver` | fragment payloads, hand-off queue with mutex and condition variable, wait for a keyframe, gate of IDR requests | `feed_datagram`, `deliver_frame`, `request_idr`, `prune`, `pop_au`, `stop`, `resume` | fed by the pump, drained by the decode thread, IDR callback to the transport |
| `core::Session` | phase and setup step, configuration, features, receive buffer, ping and viewport times, queued actions, clock estimate | `on_event`, `on_control_bytes`, `handle_frame`, `on_tick`, `send_viewport`, `poll` | driven by the pump, answers with actions |
| `proto::clocksync::ClockFilter` | last 16 samples | `push` | called for every CLOCK_PONG |
| `proto` codecs (datagram, control, CBOR) | none | encode, decode | session and receiver |
| `quest::QuicTransport` | event queue under a mutex, control stream | `on_connection`, `on_stream`, `push`, `next_event`, `send_control` | msquic's threads push, the pump takes |
| `quest::NetSession` | receivers by stream, flags for the application, requested and sent viewport | `pump`, `build_extra_receivers`, `request_viewport` | owns session, transport and receivers; read by the application |
| `quest::HevcDecoder` | codec, decode thread, timestamps in flight | `create`, `start`, `stop`, `decode_loop` | `pop_au` of a receiver |
| `quest::XrApp` and `android_main` | OpenXR instance and session, swapchains, windows with their surfaces and decoders | `create`, `poll_events`, `pump_network`, `start_decoder`, `render_frame`, destructor | Android's looper, the OpenXR runtime, `NetSession` |
| `quest-spatial` bridge | queue of surface events, panels by slot, stop flag, viewport | `start`, `attachSurface`, `detachSurface`, `setViewport`, `stop`, `run` | UI thread and run loop; `NetSession`, `HevcDecoder` |
| `sdl` client | QUIC handles and event queue, prebuffered datagrams, newest decoded frame, STATS window | `main`, `VideoPipeline`, `Metrics`, `MsQuicTransport` | `Session`, `VideoReceiver`, SDL, libavcodec |

What is hard about it:

- **The network.**  Datagrams are lost, duplicated and reordered, and are not
  ordered with the control stream; the control stream arrives in chunks cut
  anywhere.
- **Threads.**  msquic's threads, the render (or run-loop) thread, one decode
  thread per stream and the UI thread meet in queues, a condition variable, a
  slot for the newest frame and a few atomics.
- **Recovery.**  A frame whose reference is lost must not be decoded, a keyframe
  must be asked for, and not too often: two places ask, through one gate, with
  two timers.
- **Time.**  Rate limits on requests, pings and viewport sizes; clocks of two
  machines.
- **Lifecycle.**  Decoders and surfaces are replaced in mid-stream, the
  configuration changes in mid-session, set-up fails half way, and Android, the
  OpenXR runtime, the user and the host each end things at any point.
- **Edges of numbers.**  Argument widths, half floats, wrapping indices and
  negative clock differences.

What makes each part correct is stated by the properties of section 3; the
hazards they answer to are listed, line by line, in `PROJECT.json`.

## 2. Modules

| Module | Models | Built on |
|---|---|---|
| `Reassembler` | `proto/src/reassembly.cpp` | |
| `DecodableStream` | the promise of reassembly, an abstract specification | |
| `VideoReceiver` | `core/src/video_receiver.cpp`, and how `HevcDecoder` uses it | extends `Reassembler` |
| `Session` | `core/src/session.cpp`, message by message | |
| `ControlStream` | `Session::on_control_bytes`, cell by cell | instantiates `Session` |
| `ClockFilter` | `proto/src/clocksync.cpp` with the two machines around it | |
| `Datagram` | `proto/src/datagram.cpp`, byte by byte | |
| `DatagramLink` | one datagram encoded, perhaps cut and altered on the way, and decoded | extends `Datagram` |
| `CborHead` | the heads and integers of `proto/src/cbor.cpp` and the order of encoded keys | |
| `Codec` | the rest of `cbor.cpp` and `control.cpp`, byte by byte, on the same link | extends `DatagramLink` and `CborHead` |
| `NetSession` | `quest/src/quic_transport.cpp`, `net_session.cpp`, `XrApp::pump_network` and `start_decoder` | extends `Session` |
| `HevcDecoder` | `quest/src/hevc_decoder.cpp` with the codec | |
| `PanelBridge` | `quest-spatial/.../jni_bridge.cpp` | extends `HevcDecoder` |
| `XrApp` | `quest/src/main.cpp`, `xr_app.cpp` | |
| `SdlClient` | `sdl/src/main.cpp`, `msquic_transport.cpp`, `video_pipeline.cpp`, `metrics.hpp` | |
| `ReassemblerProofs`, `ClockFilterProofs`, `SdlClientProofs`, `XrAppProofs` | theorems | extend the module they are named after |
| `WireProofs` | theorems about the datagram header, CBOR heads and integers, and the control stream | extends `DatagramLink`, `CborHead` and `ControlStream` |
| `VideoReceiverProofs` | theorems about `VideoReceiver` | extends it and `ReassemblerProofs` |
| `SessionProofs` | theorems about `Session` and `NetSession` | extends `NetSession` |
| `PanelBridgeProofs` | theorems about `PanelBridge` and `HevcDecoder` | extends `PanelBridge` |
| `MC...` | small instances | extend the module they are named after |

Definitions whose comment begins with "Fault" are plausible bugs of the
definition that follows them.  No specification uses them: replacing the one by
the other must make the property listed with it in `PROJECT.json` fail.

**Reassembler.**  One action `push(t, f)` with an alternative for each way
through the function: stale, partial, completed and delivered, completed and
discarded.  `incomplete` is a function from the frames in flight to what they
need and have, `events` is the log the C++ object keeps.  `lost` and `gapped`
are history.  The network is the environment: any fragment of the set
`Fragments` may arrive at any time, any number of times, at a clock that never
goes back.  Frame numbers are unbounded (32 bits at 90 frames a second last more
than a year).

**VideoReceiver.**  Two threads share only `au_queue` and `stop_`, so the steps
are the critical sections of `mu_` and the notifications between them:
`feed_datagram` up to the first lock, `CheckOverrun`, `PushAu`, `NotifyOne`; on
the decode thread `PopAu`, `PopStopped`, `PopWait` and a spurious wake-up.
`Stop`, `NotifyAll`, `Resume` and `StartDecoder` are a decoder being replaced.
The host is honest: fragments of one frame agree on their header.  A payload is
its index; a body is empty or not.

**Session.**  One action per entry point and one alternative of `handle_frame`
per outcome.  A message is a type and the one field the state machine looks at;
the checks of `decode_frame` are the type `BAD` (rejected) or `UNKNOWN`
(ignored).  `log` is the history of all actions, `out` those not polled.

**ControlStream.**  A frame is two cells of prefix and a body, so that a chunk
may end inside the prefix, between prefix and body, inside a body or after
several frames.  `rx`, the loop and its early exits are those of
`on_control_bytes`; an over-long frame is rejected on its prefix.

**ClockFilter.**  The client sees four timestamps; the model also has the truth,
the difference `theta` of the clocks and the delays, which the properties are
about.  `floor_div2` is built on truncating division, as in C++.

**Datagram, CborHead and Codec.**  Datagrams, CBOR items and control frames are
sequences of bytes, and every function of the three files is an operator of the
same name.  A 64-bit number is its eight bytes, so that widths and signs are those
of the code although TLC's integers are smaller; a float is its sign, exponent and
mantissa, and a double that is not a float an opaque pattern.  `f16_to_f32` and
`f32_to_f16` work on the bits.  Items nest, so `Codec` is recursive; what does not
nest is in `CborHead`, where it can be reasoned about.  In `DatagramLink` a datagram
is encoded, cut or altered in its header up to `MaxHarm` times, and decoded; `Codec`
sends values and frames the same way, which lose their end or have one byte of a
prefix altered.

**NetSession.**  msquic's handlers append to `events`; `pump` is one action per
case and per phase (drain, tick, viewport, poll), so that handlers and the UI
thread interleave with it; `AppStep` is the rest of `XrApp::pump_network`.  The
host answers HELLO with a script, every CONFIG of which lists the same extra
streams, and sends media of a stream once the CONFIG is acknowledged.  The
control stream opens or fails to.

**HevcDecoder.**  One action per step of `decode_loop`, so that the codec, the
receiver and the owner's `stop` come between any two.  Access units are numbered,
and the number is the capture timestamp that keys `queued_ns`.  The codec is
external: it takes inputs in order and gives an output for each, except for those
of `Swallowed`.  The hand-off is that of `VideoReceiver`, reduced to its bound, its
overrun and the fact that `pop_au` blocks exactly while it is empty and not
stopped.

**PanelBridge.**  The UI thread's entry points are one action each; `run` is cut
where another thread can see it: at the pump, at the swap of the event queue, at
each adopted event, at each of the three parts of `HevcDecoder::stop`, at the
bring-up of the decoder and at the steps of its teardown.  A window is a
reference that must be released once.  One slot has a stream and a decoder, the
other only keeps its window.  `late` is history: the windows attached when no
loop was left to take them.

**XrApp.**  `pc` walks `android_main`.  What `create` makes is a sequence that
may end after any part, and the destructor a sequence over the kinds of handles,
with the members the compiler destroys at its end; `Needs` says what each handle
rests on.  Android sends commands, the runtime changes the session's state and
queues events, decode threads render into surfaces.  Of a window's picture the
model keeps what it shows: nothing, the test image or video.

**SdlClient.**  `pc` walks `main` from the transport to the destructors, one
action per event, per polled action and per phase; msquic's callbacks and the
decode thread interleave with it.  Each datagram is a whole keyframe, since what
happens to others is the subject of `VideoReceiver`.

## 3. Runs

| Run | What is asked | What it shows |
|---|---|---|
| `reassembler` | `WindowInv`, `OneFate`, `IdrDiscipline`, `DiscardIsAsked`, `RefinesStream` | Whatever the network does to the fragments of five frames, at most two frames are in flight, every frame has one fate and is counted once, deliveries form a decodable stream, and IDR requests are spaced, name the newest delivered frame and accompany every discard. |
| `receiver_handoff` | `HandOffChain`, `DeliveredAccounted`, `NoLostWakeup`, `IdrGate`, `StopReturns`, `DiscardIsRequested` | In every interleaving of the two threads the hand-off is bounded and decodable although check and push are two critical sections; no wake-up is lost; `stop` always ends the decode thread; the two sources of IDR requests respect one interval together and never stay silent for two while frames are discarded. |
| `session_protocol` | `EndsOnce`, `MilestoneOrder`, `ConfigAcked` | Every short script of the host and every order of calls: one end, after which nothing happens; HELLO first and milestones in order; the CONFIG in force is the one acknowledged last. |
| `control_stream` | `ChunkingInvisible` | The cutting of the control stream is invisible: the cell level implements `Session` (refinement). |
| `clock_filter` | `ErrorBound`, `BestOfWindow` | For clocks of either sign the estimate is the least-delayed recent exchange and errs by at most half its round trip. |
| `codec` | `RoundTrip`, `DamageRejected`, `CanonicalEncoding`, `AcceptedIsReceived` | Values, frames and datagrams at every boundary come back as they were sent, or are dropped for the rule they break; a value or frame that lost its end is rejected; a value is encoded in canonical order and in as many bytes as an independent count of the shortest form says, heads of every width included; an accepted datagram is what is in the bytes that arrived, whatever happened to its header. |
| `net_session` | `ReadyBeforeMedia`, `FanIn`, `EndReachesApp`, `SettledViewport`, `HandshakeCompletes` | With the msquic threads, the UI thread and the pump interleaved: a receiver exists before its media, the fan-in is one to one, the application learns of the end of the session and of the connection (a lost connection is in `finished()` or still queued), the last viewport size is sent in spite of the rate limit, and an answered handshake leads to streaming. |
| `panel` | `SoleOwner`, `CodecOnLiveWindow`, `InFlightCap`, `KeepsFed`, `StopReturnsToUi` | With the UI thread, the run loop, the decode thread and the codec interleaved: every window reference has one owner and is released once; a codec never outlives its window; the freshness cap holds for the frames really in the codec; the hand-off keeps being served while fewer frames than the cap are swallowed and fewer than the input buffers do not fit; `stop` returns from wherever the threads are. |
| `xr` | `RunningIsBegun`, `NothingDangles`, `PictureAdvances`, `EventsReachApp`, `AppEnds` | Frame calls happen only inside a begun session; whatever part of `create` failed, nothing outlives what it needs; video is never replaced by the test image; the looper never blocks an event the runtime has for a resumed activity; the program ends when it is told. |
| `sdl` | `DatagramsInOrder`, `StatsExact`, `NewestFrameShown`, `ClientExits` | Every datagram is fed once and in order on both sides of START; the windows of the reports join exactly; a published frame, or a newer one, is shown; every way out of the loop joins the decode thread. |
| `receiver_prune` | `CompleteFramesAssemble` is violated | see finding 1 |
| `net_reconfig` | `DecoderMatchesConfig` is violated | see finding 2 |

### Bounds

- `reassembler`: frames 0 to 4 of one or two fragments, each a keyframe or not,
  five instants with an interval of two, one stale fragment counted.  Five
  frames are enough to fill the window, evict from it, overtake what is in it
  and come back to an evicted frame; five instants to suppress a request and to
  repeat it.
- `receiver_handoff`: frames 1, 2, 3, 4 and 6, the last of two fragments, two
  possible keyframes, one possibly empty; the code's own `kMaxPendingAus` = 2 and
  `kPruneKeep` = 4; three instants with an interval of one.  The jump to 6 reaches
  `prune` and leaves a gap; four frames overrun the hand-off with and without a
  keyframe; the clock suppresses and repeats a request.
- `session_protocol`: every script of up to two of twelve messages, every
  message in place of START and every two after a complete handshake; three
  instants with intervals of two.
- `control_stream`: scripts of three to five messages that succeed, fail at every
  step or go on after the handshake; chunks of one to seven cells, more than two
  frames.
- `clock_filter`: differences from -2 to 2, delays from 0 to 2, two hold times, a
  window of three and four exchanges, so that samples leave the window and odd
  sums of both signs occur.
- `codec`: integers on both sides of every width and at the ends of 64 bits,
  floats at and next to the ends of the half ranges, strings and containers of
  23, 24, 255 and 256, nested maps with unsorted keys, eleven message types; every
  cut, and seven values for every byte of a prefix.  121 headers of datagrams that
  are valid or break each rule, and the two sizes around the limit; up to two
  changes, any cut or one of three values for any byte of the header, so that a
  second change may hide the first.
- `net_session`: one extra stream, with and without multi-display, scripts with a
  reconfiguration, a BYE, an ERROR or a protocol violation, chunks of one or two
  messages, one datagram, two viewport sizes and two instants.
- `panel`: two slots, two windows, one detachment, one viewport, one session; four
  access units, one that does not fit and one that the codec swallows, three input
  buffers, the code's caps of two.  Two windows replace a decoder in mid-stream,
  and the second or the detachment may come at any point of the teardown.
- `xr`: two extra displays of which one is served, three commands of Android and
  two changes of state by the runtime: resume, pause and destroy in any order
  against ready, stopping, exiting and lost.
- `sdl`: three datagrams, a hand-off of two, two reports: one datagram more than
  the hand-off holds, on either side of START.

`CHECK_DEADLOCK FALSE` is set where the model stops although nothing is wrong:
because a bound is reached (the reassembler, the clock filter, `receiver_prune`,
the panels), or because the program has ended (`xr`, `sdl`, the one item of
`codec`).

### Fairness

- `VideoReceiver`: weak fairness of a thread inside a call and of a decode thread
  that can take `mu_`.  The operating system schedules both, and a mutex held for
  a few instructions is released.  Nothing is assumed of the network, of the
  owner of the decoder or of spurious wake-ups.
- `NetSession`: weak fairness of the pump, which the frame loop calls on every
  iteration, and of the handshake's bytes; strong fairness of the clock, because
  the model only lets it advance between two pumps.  Nothing is assumed of the
  UI, of datagrams or of a shutdown.  `HandshakeCompletes` speaks of connections
  whose control stream did open.
- `PanelBridge`: weak fairness of the run loop, of a `stop` that waits for it, of
  the decode thread and of the codec.  Nobody has to call anything.
- `XrApp`: weak fairness of the one thread: the calls it makes return.  Nothing is
  assumed of Android, of the runtime or of the host.
- `SdlClient`: weak fairness of the main and of the decode thread.  The network
  does what it likes.

## 4. Findings

1. `receiver_prune` (code): `prune` forgets payloads by distance from the
   datagram just fed, the reassembler keeps a frame in its window whatever the
   distance.  A late last fragment completes a frame whose payloads are gone;
   `deliver_frame` returns where its comment says "shouldn't happen", and nobody
   asks for a keyframe although the following frames are delivered.
2. `net_reconfig` (comment): nothing reads `config_changed()`; the decoders stay
   those of the first CONFIG.

Met while modelling; the models have this behaviour, and no run asserts the
contrary:

- `quic_transport.cpp` l.117: Connected is reported also when StreamOpen failed;
  HELLO is then dropped in silence and the negotiation never ends.  `session.hpp`
  l.77 says "control stream open".  No property covers it: `HandshakeCompletes`
  assumes that the stream opened.
- `hevc_decoder.cpp` l.160: an access unit that does not fit its input buffer keeps
  the buffer, and as many of them as the codec has buffers starve the decoder; l.144:
  `queued_ns` keeps the entries of frames the codec swallows, and as many as
  `kMaxInFlight` close the gate for good.  `KeepsFed` holds below both numbers and
  says nothing beyond.
- `hevc_decoder.cpp` l.155: the loop drains without waiting and then blocks in
  `pop_au`, so the last frame before a pause is shown only with the next one.
- `jni_bridge.cpp` l.218: a window attached after the run loop has ended, or before
  a session that fails to start (l.92), is never released.  `SoleOwner` holds for
  all others.
- `jni_bridge.cpp` l.135: a replaced decoder starts on whatever is next in the
  hand-off, without a keyframe being asked for.
- `overlay.cpp` l.87: the overlay's swapchain is destroyed as a member, after
  session and instance.  `NothingDangles` excepts it.
- `xr_app.cpp` l.265: a primary window whose SurfaceTexture failed is kept and may
  get a decoder; `update` then uses a null handle (`NullSurface`).
- `xr_app.cpp` l.775: a window counts as painted although its image could not be
  acquired; it then shows nothing until video comes.
- `xr_app.cpp` l.336: an extra window whose surface fails is dropped with its
  swapchain still open; `oes_blit_program_` is never deleted.
- `main.cpp` (quest) l.94: a paused activity without a session blocks in the looper,
  so the network is not pumped "every iteration" (l.103) and the session times out.
- `xr_app.cpp` l.408 sends cumulative counters in STATS, the SDL client those of
  the window (`metrics.hpp` l.52).
- `reassembly.hpp` l.17 "At most one IDR request is outstanding": only the spacing
  is tracked.
- `reassembly.hpp` l.42 `last_good` is the "newest fully-decoded frame": after an
  overrun it is a frame that was just dropped from the hand-off.
- `video_receiver.cpp` l.131 "re-issued at that cadence": a request the gate
  swallows restarts the reassembler's own timer, so the next one may come almost
  two intervals after the last.  `DiscardIsRequested` is the bound that holds.
- `session.cpp` l.259: a mid-session CONFIG is applied whatever its generation; nothing
  compares generations.  One that lists other extra streams gets no receivers for
  them (`net_session.cpp` l.47); the model keeps the streams fixed.
- `main.cpp` (sdl) l.142: datagrams that come before START are kept without bound.
- `session.hpp` l.75-78 "fed in by the transport driver": neither driver feeds
  `ConnectionLost`, so the session stays in its phase when the connection is
  gone.  `EndReachesApp` and `ClientExits` show that the applications end all the
  same.

## 5. Proofs

`ReassemblerProofs` holds for every set of fragments with natural frame numbers,
`frag_count` at least 1 and an index below it, every clock in Nat and every
positive interval (`FragmentsAssumption`, `TimesAssumption`,
`IntervalAssumption`, `NoneAssumption`).

- `Typing`, `Window`: the inductive invariant is `WInv`, the type invariant,
  `WindowInv` and the finiteness of the window, which the arithmetic on
  cardinalities needs.  The step splits into the four outcomes of `push`; that an
  eviction makes room (`RoomAfterEviction`) rests on the existence of a least
  frame of a full window (`OldestInWindow`).
- `Chain`, `Discipline`: statements about the log.  `LogInv` adds what ties the
  members to the log: `last_decoded` is the last delivery, `idr_last_t` the last
  request, and times in the log do not decrease.  `LogStep` reduces every step to
  one of three shapes (log unchanged, a delivery appended, a request appended),
  and a lemma for each shape shows that `EInv` survives.
- `DiscardsAsked`: an action property from `EInv`.
- `ImplementsStream`: the initial state maps to the initial state of
  `DecodableStream` and every step to a hand-over or a stutter (`HandedStep`).
- `Fates`: `OneFate` alone is not inductive, since a fragment of a lost frame might
  open it again.  `Settled` says why it cannot: a frame at least as new has
  completed, or the window is full of newer frames, and both stay so
  (`StaysFull`), hence the fragment is stale (`Fresh`).

`VideoReceiverProofs` adds every size of the hand-off and every pruning distance
(`MaxPendingAusAssumption`, `PruneKeepAssumption`).  Every step of the receiver is
a push or leaves the reassembler alone (`InsideStep`), so `EInv` holds here too,
and `PushKinds` reduces a push to what the receiver sees of it: no event, a
request, or a frame newer than all delivered ones that is a keyframe or follows
the newest of them.

- `ReceiverNoLostWakeup`: `WakeInv` adds that `stop_` is set only until the join.
- `ReceiverIdrGate`, `ReceiverDiscardIsRequested`: `GateInv` ties the gate's clock
  to the requests sent and bounds the reassembler's own timer, which also runs
  when the gate swallows a request, to less than one interval ahead of it.
- `ReceiverHandOffChain`, `ReceiverDeliveredAccounted`: `LInv`, the ledger of the
  delivered frames.  Each is in one place (`Places`); the frame in hand is the
  newest (`Handing`); the queue is in order and has room for the push that follows
  the check, because only the other thread takes from it meanwhile (`InLine`);
  what it references is ahead of it (`Links`).  The crux is `Reference`: unless a
  keyframe is awaited, the last frame was not thrown away, so a frame that follows
  it may be pushed.  The lemmas on queues say what appending to and popping from
  an ordered, chained queue gives, and that it holds as many frames as units.

`SessionProofs` holds for every set of messages and of scripts over it, every
clock and both intervals (`MessagesAssumption`, `ScriptsAssumption`,
`SessionTimesAssumption`, `IntervalsAssumption`, `CodesAssumption`,
`SessionNoneAssumption`); the part about `NetSession` for every list of distinct
extra streams (`ExtrasAssumption`).

- `SessionEndsOnce`, `SessionMilestones`, `SessionConfigAcked`: the properties are
  about the history of actions.  They are restated for an arbitrary list, with
  lemmas for what one more action does to it; `SInv` adds which milestones each
  phase of the state machine has passed (`Phases`).
- `NetReadyBeforeMedia`, `NetFanIn`, `NetEndReachesApp`: `NInv` keeps `SInv` across
  the pump and says which events can be queued when (`Queue`), that the receivers
  are built between a CONFIG and the poll that acknowledges it (`Built`), that
  windows are added by the one pump that polled MediaExpected (`Started`), and
  that an end is in the flags or in the actions not drained (`Ended`).  `Told`, an
  invariant of its own over the typing of `NInv`, says that a lost connection is in
  the flags or still queued: only `PumpClosed` takes such an event off the queue.

`PanelBridgeProofs` holds for every number of access units, slots, windows and
sessions, every cap, and every choice of the units the codec swallows or cannot
take (`DecoderAssumption`, `PanelAssumption`).

- `PanelInFlightCap`: `DInv` says that the codec holds only units of `queued_ns`,
  each once and in order, that what is taken is older than what waits, and that
  past the gate there is room for one more.  Its input and output queues are
  distinct members of the map, so their lengths are bounded by its size
  (`BothFit`).
- `PanelSoleOwner`, `PanelCodecOnLiveWindow`: `PInv` adds to the property where the
  run loop may hold a batch, a panel or a decoder (`Where`), that no reference is
  carried twice by one queue (`Once`) and that a decoder's target is the window of
  its slot (`Shown`).

`XrAppProofs` holds for every list of extra streams, every set of receivers and any
number of commands and changes of state (`XrAssumption`).

- `XrRunningIsBegun` is inductive as it stands.
- `XrPictureAdvances`, an action property: `WInv` says that only a window with a
  decoder shows video and that `create` finds no window.
- `XrNothingDangles`: `HInv` says that during the loop everything windows rest on is
  there, and that the destructor at step k has removed the kinds before the k-th.

`SdlClientProofs` holds for every number of datagrams and reports and every size of
the hand-off (`SdlAssumption`).

- `SdlDatagramsInOrder`, `SdlStatsExact`: `CInv` adds that nothing is prebuffered
  once the pipeline is there.  The order is restated for an arbitrary list, queue
  and count (`InOrder`).

`ClockFilterProofs` holds for every set of clock differences, delays, hold times
and every positive window.

- `SampleExact`: the sample of an exchange is its total delay and the difference
  plus the floored half of the asymmetry, whatever `theta` is; `FloorDiv` shows
  that `floor_div2` is the floor.
- `FInv`: the window holds exactly the samples of the last `Window` exchanges, in
  order, and the estimate is `Best` of it.
- `BestIsLeast`: `Best` returns the least round trip, the most recent on a tie,
  for windows of every length.  `Best` is a recursive function; `ScanExists` shows
  that it satisfies its recursion, by a well-founded argument over the set of
  lengths for which it does not (`SetInduction`), since the library's induction
  theorems cannot be used.
- `EstimateError`, `EstimateIsBest`, `FilterTyping` follow.

`WireProofs` is about what goes over the wire, in three parts.

*Datagrams*, for every header whose fields have their widths, every payload and
every set of extra streams (`FragmentsAssumption`, `NoiseAssumption`).

- `DatagramRoundTrip`: decoding an encoded datagram gives `AsSent`, the header and
  the payload's length when they are within the rules and otherwise the reason of
  the first rule broken.  It rests on the bytes of 16- and 32-bit fields and of the
  flags putting the fields together again (`Split16`, `Split32`, `FlagBits`).
- `DatagramAccepted`: whatever bytes arrive, what is accepted encodes to them again,
  the reserved flags apart.  It rests on the converse (`Joined16`, `Joined32`,
  `FlagsKept`), put together in `EncodedParsed`.
- `LinkReceivedAsSent`, `LinkAcceptedIsReceived`: the same as invariants of
  `DatagramLink`, for any number of changes (`ReceivedAsSent` is the part of `RoundTrip`
  about datagrams).  `LinkInv` says that what is on the way
  stays a sequence of bytes, and is what was sent until the first change.

*Heads and integers of CBOR*, for all eight bytes of an argument or integer, which
TLC can only sample, and from no assumption.

- `HeadRoundTrip`, `HeadCutRejected`: a head anywhere in a buffer is read back as it
  was written, at each of the five forms; a head that lost its end is rejected.
- `IntRoundTrip`: `decode_int` gives back every integer `encode_int` wrote, `INT64_MIN`
  and `INT64_MAX` included; no sign is lost in the complement.
- `HeadShortest`: whatever head an argument was read from, `put_head` writes it in no
  more bytes, and in the same ones when it is as long.
- `IntKeyOrder`: sorting encoded integer keys bytewise is sorting the integers, the
  non-negative ones first, which lets `encode_into` sort bytes.  A wider form has a
  larger first byte and a larger argument (`WiderIsLarger`), and within a form both
  orders look at the same bytes (`SameForm`).

*The control stream*, for every set of messages and of scripts, every length of a
body and of the chunks (`StreamScriptsAssumption`, `CellsAssumption`).

- `StreamImplementsSession`: `ControlStream` implements `Session` (`ChunkingInvisible`).
  `StreamInv` says that `rx_` and the wire together are whole frames of messages of the
  host (`FramesLeft`) until the session has ended.  Hence two cells in `rx_` are the
  prefix of the first frame left, which the loop handles as `Session` handles that
  message (`OneFrameStep`, `OversizeStep`); a chunk only moves cells (`ChunkKeeps`)
  and is a stutter.  `Flat` and `Unread` are recursive functions: `FlatFirst` and
  `UnreadFlat`, which say that the inbox read off the cells is the messages they
  came from, follow by induction over a set of lengths (`SetInduction`), after
  `FlatLoop` and `UnreadLoop` have shown that the recursions are satisfied.

Only model-checked:

- all liveness (`StopReturns`, `SettledViewport`, `HandshakeCompletes`, `KeepsFed`,
  `StopReturnsToUi`, `EventsReachApp`, `AppEnds`, `NewestFrameShown`,
  `ClientExits`): liveness under fairness is out of the prover's reach;
- `RoundTrip`, `DamageRejected` and `CanonicalEncoding` of `Codec`: CBOR items nest,
  its operators are RECURSIVE, and what a recursive definition computes for every
  input is out of reach.  What they rest on at each item, the head, the integers and
  the order of integer keys, is proved in `WireProofs`; the conversions of half
  floats, strings and the nesting are only model-checked.

## 6. Not modelled

- Drawing (GL scene, overlay text, SDL renderer, layer geometry), the debug
  toggles and the refresh rate: no state a property could be about.  Their handles
  are part of `XrApp`.
- libavcodec and MediaCodec internals, and msquic's: external, modelled by what the
  code sees of them.
- The opening of QUIC configurations on the Quest, and the lifetime of send
  buffers: a sequence of calls, the same as the SDL transport's in `SdlClient`.
- The numbers of the STATS report (means, jitter, bit rate): nothing decides on
  them.
- The keymap table, the error names and the conformance adapter: a parse into a
  table, constants and test tooling.
