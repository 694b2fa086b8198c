----------------------------- MODULE MCSession -----------------------------
(***************************************************************************)
(* Session on a small instance: every sequence of at most MaxScript host   *)
(* messages, and every tail of two messages after a good handshake.        *)
(***************************************************************************)
EXTENDS Session

CONSTANTS MaxScript, MaxTime

Msg(type, arg) == [type |-> type, arg |-> arg, features |-> 0]

MCMessages ==
  {[type |-> "WELCOME", arg |-> 1, features |-> 2], Msg("WELCOME", 2),
   Msg("CONFIG", 1), Msg("CONFIG", 2), Msg("START", 0), Msg("BYE", 0),
   Msg("ERROR", 7), Msg("PONG", 0), Msg("PONG", 1), Msg("OTHER", 0),
   Msg("UNKNOWN", 0), Msg("BAD", 0)}

AllScripts == UNION {[1..n -> MCMessages] : n \in 0..MaxScript}

Handshake == <<[type |-> "WELCOME", arg |-> 1, features |-> 2], Msg("CONFIG", 1), Msg("START", 0)>>

\* Every script from the start, every message in place of START, and every tail
\* after a completed handshake.
ProtocolScripts ==
  AllScripts
    \cup {SubSeq(Handshake, 1, 2) \o <<m>> : m \in MCMessages}
    \cup {Handshake \o s : s \in [1..2 -> MCMessages]}

MCTimes == 0..MaxTime
=============================================================================
