---------------------------- MODULE MCNetSession ----------------------------
(***************************************************************************)
(* NetSession on small instances: one extra display, a handshake followed  *)
(* by a reconfiguration or an end, few datagrams and a short clock.        *)
(***************************************************************************)
EXTENDS NetSession

CONSTANT MaxTime

Msg(type, arg) == [type |-> type, arg |-> arg, features |-> 0]

MCMessages ==
  {[type |-> "WELCOME", arg |-> 1, features |-> 2], Msg("WELCOME", 1), Msg("CONFIG", 1),
   Msg("CONFIG", 2), Msg("START", 0), Msg("BYE", 0), Msg("ERROR", 7)}

Hello == {[type |-> "WELCOME", arg |-> 1, features |-> 2], Msg("WELCOME", 1)}

\* A handshake with or without the extra displays, and what follows it.
MCScripts ==
  {<<w, Msg("CONFIG", 1), Msg("START", 0)>> \o tail :
     w \in Hello,
     tail \in {<< >>, <<Msg("CONFIG", 2)>>, <<Msg("BYE", 0)>>, <<Msg("ERROR", 7)>>}}
  \cup {<<w, Msg("START", 0)>> : w \in Hello}

MCExtras == <<2>>
MCTimes == 0..MaxTime
=============================================================================
