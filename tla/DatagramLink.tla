---------------------------- MODULE DatagramLink ----------------------------
(***************************************************************************)
(* One datagram on its way: the host encodes it, the network may cut it    *)
(* short and alter bytes of its header, and the client decodes what        *)
(* arrives.                                                                *)
(***************************************************************************)
EXTENDS Datagram

CONSTANTS
  Fragments,   \* what hosts send: a header, a payload and the session's extra streams
  Noise,       \* bytes an altered position may hold
  MaxHarm      \* bound on the changes made on the way

ASSUME FragmentsAssumption ==
  Fragments \subseteq
    [kind : {"datagram"}, header : Headers, payload : Seq(Byte), extra : SUBSET U16]
ASSUME NoiseAssumption == Noise \subseteq Byte /\ MaxHarm \in Nat

VARIABLES sent, packet, harm, heard

dvars == <<sent, packet, harm, heard>>

Unheard == <<"unheard">>

LinkInit ==
  /\ sent \in Fragments
  /\ packet = encode_datagram(sent.header, sent.payload)
  /\ harm = 0
  /\ heard = Unheard

OnTheWay == heard = Unheard /\ harm < MaxHarm

\* The end is missing.
CutShort(n) ==
  /\ OnTheWay
  /\ packet' = SubSeq(packet, 1, n)
  /\ harm' = harm + 1
  /\ UNCHANGED <<sent, heard>>

\* A byte of the header is another one.
Garble(i, x) ==
  /\ OnTheWay
  /\ packet' = [packet EXCEPT ![i] = x]
  /\ harm' = harm + 1
  /\ UNCHANGED <<sent, heard>>

Arrive ==
  /\ heard = Unheard
  /\ heard' = decode_with_streams(packet, sent.extra)
  /\ UNCHANGED <<sent, packet, harm>>

LinkNext ==
  \/ \E n \in 0..(Len(packet) - 1) : CutShort(n)
  \/ \E i \in 1..kHeaderLen, x \in Noise : i <= Len(packet) /\ Garble(i, x)
  \/ Arrive

LinkSpec == LinkInit /\ [][LinkNext]_dvars

-----------------------------------------------------------------------------
(***************************************************************************)
(* Properties                                                              *)
(***************************************************************************)
\* A datagram nothing happened to is accepted with its header and the length of its
\* payload when the header is valid for the session and the size is allowed, and is
\* dropped for the first rule it breaks otherwise: no valid fragment is lost or taken
\* for another one (encode_datagram, decode_with_streams).
ReceivedAsSent ==
  heard # Unheard /\ harm = 0 => heard = AsSent(sent.header, Len(sent.payload), sent.extra)

\* Whatever a datagram's header was turned into on the way, what is accepted is a
\* header that was really received, says which fragment of how many it is, and
\* belongs to a stream of the session: encoded again it gives the bytes received,
\* the reserved flags apart (decode_with_streams).
AcceptedIsReceived ==
  heard[1] = "accepted" => AsReceived(heard, packet, sent.extra)
=============================================================================
