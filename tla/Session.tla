------------------------------ MODULE Session ------------------------------
(***************************************************************************)
(* core/src/session.cpp: the client's session state machine, at the level  *)
(* of control messages (ControlStream adds the byte stream that carries    *)
(* them).  Inputs are the host's messages, the lifecycle events, the clock *)
(* tick and the application's viewport requests; outputs are the actions   *)
(* the driver drains with poll.                                            *)
(*                                                                         *)
(* A message is [type, arg, features]: arg is the version of a WELCOME,    *)
(* the generation of a CONFIG, the code of an ERROR, 1 for a complete      *)
(* CLOCK_PONG.  Type "BAD" stands for every frame decode_frame rejects (an *)
(* over-long one included), "UNKNOWN" for a msg_type it ignores, "OTHER"   *)
(* for the known types only a client sends.                                *)
(***************************************************************************)
EXTENDS Integers, Sequences

CONSTANTS
  Messages,          \* what the host may send
  Scripts,           \* the sequences of messages it may send in one session
  Times,             \* values of the microsecond clock
  PingInterval,      \* 500 ms in the code
  ViewportInterval,  \* 250 ms in the code
  Internal, ProtocolViolation,   \* errors::kInternal, errors::kProtocolViolation
  None

ASSUME MessagesAssumption ==
  \A m \in Messages : /\ m.type \in {"WELCOME", "CONFIG", "START", "BYE", "ERROR", "PONG",
                                     "OTHER", "UNKNOWN", "BAD"}
                      /\ m.arg \in Nat /\ m.features \in Nat
ASSUME ScriptsAssumption == Scripts \subseteq Seq(Messages)
ASSUME SessionTimesAssumption == \A t \in Times : t \in Nat
ASSUME IntervalsAssumption == PingInterval \in Nat \ {0} /\ ViewportInterval \in Nat \ {0}
ASSUME CodesAssumption == Internal \in Nat /\ ProtocolViolation \in Nat
ASSUME SessionNoneAssumption == None \notin Int

VARIABLES
  state,            \* State
  step,             \* the next setup message expected
  config,           \* generation of the CONFIG in force, or None
  active_features,  \* WELCOME key 3
  synced,           \* clock_estimate_ has a value
  last_ping,        \* time of the last CLOCK_PING, None before the first (pinged_)
  last_viewport,    \* time of the last VIEWPORT, None before the first
  out,              \* actions not drained yet
  log,              \* history: every action ever queued
  now,
  inbox             \* the host's messages still to be handled, in order

score == <<state, step, config, active_features, synced>>
svars == <<score, last_ping, last_viewport, out, log, now, inbox>>

Terminal == state \in {"Closed", "Failed"}

\* An Action: msg is the message of a SendControl; arg its generation or time, or
\* the code of a Fatal.
Act(kind, msg, arg) == [kind |-> kind, msg |-> msg, arg |-> arg]

push(acts) == out' = out \o acts /\ log' = log \o acts

Quiet == UNCHANGED <<out, log>>

SessionInit ==
  /\ state = "Connecting" /\ step = "Welcome"
  /\ config = None /\ active_features = 0 /\ synced = FALSE
  /\ last_ping = None /\ last_viewport = None
  /\ out = << >> /\ log = << >>
  /\ now = 0

-----------------------------------------------------------------------------
\* on_event, which returns at once when the session has ended.
Connected ==
  /\ ~Terminal
  /\ push(<<Act("SendControl", "HELLO", 0)>>)
  /\ state' = "Negotiating" /\ step' = "Welcome"
  /\ UNCHANGED <<config, active_features, synced, last_ping, last_viewport, now>>

ConnectionLost ==
  /\ ~Terminal
  /\ state' = "Failed"
  /\ push(<<Act("Fatal", "", Internal)>>)
  /\ UNCHANGED <<step, config, active_features, synced, last_ping, last_viewport, now>>

UserBye ==
  /\ ~Terminal
  /\ push(<<Act("SendControl", "BYE", 0), Act("Closed", "", 0)>>)
  /\ state' = "Closed"
  /\ UNCHANGED <<step, config, active_features, synced, last_ping, last_viewport, now>>

\* Fault: pings go on after the end.
TickDueEnded(t) ==
  /\ state # "Connecting"
  /\ ~(last_ping # None /\ t - last_ping < PingInterval)

\* on_tick.
TickDue(t) ==
  /\ state \notin {"Connecting", "Closed", "Failed"}
  /\ ~(last_ping # None /\ t - last_ping < PingInterval)

on_tick(t) ==
  /\ t >= now
  /\ now' = t
  /\ \/ /\ TickDue(t)
        /\ last_ping' = t
        /\ push(<<Act("SendControl", "CLOCK_PING", t)>>)
     \/ /\ ~TickDue(t)
        /\ Quiet
        /\ UNCHANGED last_ping
  /\ UNCHANGED <<score, last_viewport>>

ViewportDue(t) ==
  /\ state = "Streaming"
  /\ ~(last_viewport # None /\ t - last_viewport < ViewportInterval)

\* send_viewport, for a caller that gets TRUE; a refused call changes nothing.
send_viewport(t) ==
  /\ t >= now
  /\ now' = t
  /\ ViewportDue(t)
  /\ last_viewport' = t
  /\ push(<<Act("SendControl", "VIEWPORT", t)>>)
  /\ UNCHANGED <<score, last_ping>>

poll ==
  /\ out # << >>
  /\ out' = << >>
  /\ UNCHANGED <<score, last_ping, last_viewport, log, now>>

-----------------------------------------------------------------------------
\* handle_frame, one action per outcome.  It runs in any phase but a terminal one.
fatal(code) ==
  /\ state' = "Failed"
  /\ push(<<Act("Fatal", "", code)>>)
  /\ UNCHANGED <<step, config, active_features, synced>>

Rejected(m) == m.type = "BAD" /\ fatal(ProtocolViolation)

Bye(m) ==
  /\ m.type = "BYE"
  /\ state' = "Closed"
  /\ push(<<Act("Closed", "", 0)>>)
  /\ UNCHANGED <<step, config, active_features, synced>>

HostError(m) == m.type = "ERROR" /\ fatal(m.arg)

ClockPong(m) ==
  /\ m.type = "PONG"
  /\ synced' = (synced \/ m.arg = 1)
  /\ Quiet
  /\ UNCHANGED <<state, step, config, active_features>>

\* parse_config and send_config_ack, in the handshake and in mid-session alike.
Apply(m) == config' = m.arg

Ack(m) == Act("SendControl", "CONFIG_ACK", m.arg)

\* Fault: a mid-session CONFIG is applied without an acknowledgement.
ReconfiguredUnacked(m) == <<Act("ConfigChanged", "", 0)>>

Reconfigured(m) == <<Ack(m), Act("ConfigChanged", "", 0)>>

Reconfigure(m) ==
  /\ m.type = "CONFIG" /\ state = "Streaming"
  /\ Apply(m)
  /\ push(Reconfigured(m))
  /\ UNCHANGED <<state, step, active_features, synced>>

Welcome(m) ==
  /\ state = "Negotiating" /\ step = "Welcome"
  /\ m.type = "WELCOME" /\ m.arg = 1
  /\ active_features' = m.features
  /\ push(<<Act("Established", "", 0)>>)
  /\ step' = "Config"
  /\ UNCHANGED <<state, config, synced>>

Configure(m) ==
  /\ state = "Negotiating" /\ step = "Config"
  /\ m.type = "CONFIG"
  /\ Apply(m)
  /\ push(<<Ack(m)>>)
  /\ step' = "Start"
  /\ UNCHANGED <<state, active_features, synced>>

\* Fault: START is taken at any step of the negotiation.
StartTurnAny == state = "Negotiating"

StartTurn == state = "Negotiating" /\ step = "Start"

Start(m) ==
  /\ StartTurn
  /\ m.type = "START"
  /\ state' = "Streaming"
  /\ push(<<Act("MediaExpected", "", 0)>>)
  /\ UNCHANGED <<step, config, active_features, synced>>

\* A setup message, or another known one, out of its turn.
Setup(m) == m.type \in {"WELCOME", "CONFIG", "START", "OTHER"}

Expected(m) ==
  \/ step = "Welcome" /\ m.type = "WELCOME" /\ m.arg = 1
  \/ step = "Config" /\ m.type = "CONFIG"
  \/ step = "Start" /\ m.type = "START"

OutOfTurn(m) ==
  /\ state = "Negotiating"
  /\ Setup(m) /\ ~Expected(m)
  /\ fatal(ProtocolViolation)

\* Unknown types always, and setup messages outside the negotiation, are ignored.
Ignored(m) ==
  /\ \/ m.type = "UNKNOWN"
     \/ Setup(m) /\ state # "Negotiating" /\ ~(m.type = "CONFIG" /\ state = "Streaming")
  /\ Quiet
  /\ UNCHANGED score

handle_frame(m) ==
  /\ \/ Rejected(m) \/ Ignored(m) \/ Bye(m) \/ HostError(m) \/ ClockPong(m)
     \/ Reconfigure(m) \/ Welcome(m) \/ Configure(m) \/ Start(m) \/ OutOfTurn(m)
  /\ UNCHANGED <<last_ping, last_viewport, now>>

-----------------------------------------------------------------------------
\* One call of the API other than on_control_bytes.  The clients report Connected
\* once, when the transport has connected.
Api ==
  \/ state = "Connecting" /\ Connected
  \/ ConnectionLost \/ UserBye
  \/ \E t \in Times : on_tick(t) \/ send_viewport(t)
  \/ poll

\* Nothing is read any more once the session has ended (on_control_bytes returns at
\* once, and clears what it had).
Unread(rest) == inbox' = IF state' \in {"Closed", "Failed"} THEN << >> ELSE rest

\* on_control_bytes at this level: the next message is handled.
Receive ==
  /\ inbox # << >>
  /\ ~Terminal
  /\ handle_frame(Head(inbox))
  /\ Unread(Tail(inbox))

SessionNext == Receive \/ (Api /\ Unread(inbox))

ScriptInit == SessionInit /\ inbox \in Scripts

SessionSpec == ScriptInit /\ [][SessionNext]_svars

-----------------------------------------------------------------------------
(***************************************************************************)
(* Properties                                                              *)
(***************************************************************************)
Sends(i, msg) == log[i].kind = "SendControl" /\ log[i].msg = msg
Ends(i) == log[i].kind \in {"Fatal", "Closed"}

\* A session ends once: the driver is told exactly when state is terminal, by one
\* Fatal or Closed, and no action of any entry point is ever queued after it.
EndsOnce ==
  /\ Terminal <=> \E i \in DOMAIN log : Ends(i)
  /\ \A i \in DOMAIN log : Ends(i) => i = Len(log)

\* The driver and the host see the milestones in protocol order.  The decoder is only
\* brought up after WELCOME was accepted and the CONFIG it will use was acknowledged;
\* HELLO is sent once and precedes every message but the BYE of a session that never
\* connected ("HELLO MUST be the first message", on_event).
MilestoneOrder ==
  \A j \in DOMAIN log :
    /\ log[j].kind \in {"MediaExpected", "ConfigChanged"} =>
         \E h, e, a \in 1..(j - 1) :
           /\ h < e /\ e < a
           /\ Sends(h, "HELLO") /\ log[e].kind = "Established" /\ Sends(a, "CONFIG_ACK")
    /\ log[j].kind = "SendControl" /\ log[j].msg \notin {"HELLO", "BYE"} =>
         \E i \in 1..(j - 1) : Sends(i, "HELLO")
    /\ Sends(j, "HELLO") => \A i \in 1..(j - 1) : log[i].kind # "SendControl"

\* The CONFIG in force is the one acknowledged last ("the host MUST NOT send media
\* for a generation before its ACK"), and there is one whenever media is expected.
ConfigAcked ==
  LET acks == {i \in DOMAIN log : Sends(i, "CONFIG_ACK")}
  IN /\ config = None <=> acks = {}
     /\ state = "Streaming" => config # None
     /\ \A i \in acks : (\A k \in acks : k <= i) => log[i].arg = config
=============================================================================
