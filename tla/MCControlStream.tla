-------------------------- MODULE MCControlStream --------------------------
(***************************************************************************)
(* ControlStream on small instances: handshakes that succeed, fail or are  *)
(* followed by other frames, cut into chunks in every way.                 *)
(***************************************************************************)
EXTENDS ControlStream

CONSTANT MaxTime

Msg(type, arg) == [type |-> type, arg |-> arg, features |-> 0]

MCMessages ==
  {Msg("WELCOME", 1), Msg("WELCOME", 2), Msg("CONFIG", 1), Msg("CONFIG", 2),
   Msg("START", 0), Msg("BYE", 0), Msg("ERROR", 7), Msg("PONG", 1),
   Msg("UNKNOWN", 0), Msg("BAD", 0), Msg("BAD", 1)}

Handshake == <<Msg("WELCOME", 1), Msg("CONFIG", 1), Msg("START", 0)>>

MCScripts ==
  {Handshake, <<Msg("PONG", 1)>> \o Handshake} \cup
  {Handshake \o <<m, Msg("CONFIG", 2)>> : m \in MCMessages} \cup
  {<<Msg("WELCOME", 1), m, Msg("START", 0)>> : m \in MCMessages \ {Msg("PONG", 1), Msg("UNKNOWN", 0)}}

MCTimes == 0..MaxTime
=============================================================================
