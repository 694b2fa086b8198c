--------------------------- MODULE ControlStream ---------------------------
(***************************************************************************)
(* Session::on_control_bytes: the control stream is a reliable, ordered    *)
(* byte stream that the transport hands over in chunks of any size.  A     *)
(* frame is a length prefix and a body; rx keeps what does not make a      *)
(* whole frame yet.                                                        *)
(*                                                                         *)
(* Bytes are abstracted to cells: a frame is two cells of prefix (so that  *)
(* a chunk may end inside the prefix) and BodyCells of body, each tagged   *)
(* with the message it belongs to.  The length is known once both prefix   *)
(* cells are there; an over-long frame (HUGE) is rejected on the prefix.   *)
(*                                                                         *)
(* The loop over rx is one step per iteration; nothing else runs on the    *)
(* driver's thread until it ends.                                          *)
(***************************************************************************)
EXTENDS Integers, Sequences

CONSTANTS Messages, Times, PingInterval, ViewportInterval, Internal,
          ProtocolViolation, None,
  Scripts,      \* the message sequences the host may send
  BodyCells,    \* cells of a body
  MaxChunk      \* longest chunk

ASSUME StreamScriptsAssumption == Scripts \subseteq Seq(Messages)
ASSUME CellsAssumption == BodyCells \in Nat /\ MaxChunk \in Nat

VARIABLES state, step, config, active_features, synced, last_ping, last_viewport,
          out, log, now,
  rx,           \* the reassembly buffer
  wire,         \* cells sent by the host and not received yet
  busy          \* on_control_bytes is running

PrefixCells == 2
FrameCells == PrefixCells + BodyCells

IsHuge(m) == m.type = "BAD" /\ m.arg = 1

\* The cells of one frame; an over-long one is cut after its prefix (what follows
\* is never looked at).
Frame(m) ==
  [i \in 1..(IF IsHuge(m) THEN PrefixCells ELSE FrameCells) |-> [msg |-> m, at |-> i]]

\* encode_frame of a whole script: frame after frame.
Flat(script) ==
  LET f[k \in 0..Len(script)] == IF k = 0 THEN << >> ELSE f[k - 1] \o Frame(script[k])
  IN f[Len(script)]

\* The messages whose frame is not handled yet: those whose first cell is still in
\* the buffer or on the wire.
Unread(cells) ==
  LET f[k \in 0..Len(cells)] ==
        IF k = 0 THEN << >>
        ELSE IF cells[k].at = 1 THEN Append(f[k - 1], cells[k].msg) ELSE f[k - 1]
  IN f[Len(cells)]

S == INSTANCE Session WITH
       inbox <- IF state \in {"Closed", "Failed"} THEN << >> ELSE Unread(rx \o wire)

cvars == <<state, step, config, active_features, synced, last_ping, last_viewport,
           out, log, now, rx, wire, busy>>

StreamInit ==
  /\ S!SessionInit
  /\ rx = << >>
  /\ wire \in {Flat(s) : s \in Scripts}
  /\ busy = FALSE

-----------------------------------------------------------------------------
\* The head of rx: its prefix is complete, and so is its frame.
PrefixThere == Len(rx) >= PrefixCells
FrameThere == Len(rx) >= FrameCells

Drop(n, s) == SubSeq(s, n + 1, Len(s))

\* A chunk arrives, never before Connected: the client opens the control stream in
\* the handler that reports it.  In a terminal state the chunk is thrown away.
on_control_bytes(n) ==
  /\ ~busy
  /\ state # "Connecting"
  /\ n <= Len(wire)
  /\ wire' = Drop(n, wire)
  /\ \/ /\ ~S!Terminal
        /\ rx' = rx \o SubSeq(wire, 1, n)
        /\ busy' = TRUE
     \/ /\ S!Terminal
        /\ UNCHANGED <<rx, busy>>
  /\ UNCHANGED <<state, step, config, active_features, synced, last_ping,
                 last_viewport, out, log, now>>

\* The body of the loop: reject an over-long frame, or handle a whole one.  When
\* the session ends, rx is cleared and the call returns.
Oversize ==
  /\ busy /\ PrefixThere
  /\ IsHuge(Head(rx).msg)
  /\ S!handle_frame(Head(rx).msg)
  /\ rx' = << >>
  /\ busy' = FALSE
  /\ UNCHANGED wire

OneFrame ==
  /\ busy /\ PrefixThere
  /\ ~IsHuge(Head(rx).msg)
  /\ FrameThere
  /\ S!handle_frame(Head(rx).msg)
  /\ \/ /\ state' \in {"Closed", "Failed"}
        /\ rx' = << >>
        /\ busy' = FALSE
     \/ /\ state' \notin {"Closed", "Failed"}
        /\ rx' = Drop(FrameCells, rx)
        /\ busy' = TRUE
  /\ UNCHANGED wire

\* Fault: a partial frame is thrown away with the handled ones.
LeftoverCleared == << >>

\* What no whole frame was made of stays for the next chunk.
Leftover == rx

\* The loop ends: no prefix, or a frame that is not complete.
Leave ==
  /\ busy
  /\ \/ ~PrefixThere
     \/ PrefixThere /\ ~IsHuge(Head(rx).msg) /\ ~FrameThere
  /\ busy' = FALSE
  /\ rx' = Leftover
  /\ UNCHANGED <<state, step, config, active_features, synced, last_ping,
                 last_viewport, out, log, now, wire>>

Running == Oversize \/ OneFrame \/ Leave

Arrives == \E n \in 1..MaxChunk : on_control_bytes(n)

StreamNext ==
  \/ Arrives
  \/ Running
  \/ ~busy /\ S!Api /\ UNCHANGED <<rx, wire, busy>>

StreamSpec == StreamInit /\ [][StreamNext]_cvars

-----------------------------------------------------------------------------
(***************************************************************************)
(* Properties                                                              *)
(***************************************************************************)
\* How the control stream is cut into chunks does not matter: on_control_bytes does
\* exactly what handling the host's messages one by one would do, no frame lost, split,
\* joined or handled twice, and nothing handled after the session has ended.
ChunkingInvisible == S!SessionSpec
=============================================================================
