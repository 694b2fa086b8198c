------------------------------ MODULE Datagram ------------------------------
(***************************************************************************)
(* proto::datagram: the 12-byte big-endian header in front of every media  *)
(* fragment, and the validation a received datagram passes before          *)
(* VideoReceiver::feed looks at it.  A datagram is a sequence of bytes.    *)
(***************************************************************************)
EXTENDS Integers, Sequences

kMagic == 76
kHeaderLen == 12
kMaxDatagramLen == 1350

\* The numbers of a header; those below 2^32 are the ones whose upper part fits 16 bits.
Byte == {x \in Nat : x < 256}
U16 == {x \in Nat : x < 65536}
U32 == {x \in Nat : x \div 65536 \in U16}

Headers ==
  [keyframe : BOOLEAN, last : BOOLEAN, stream_id : U16, frame_seq : U32,
   frag_index : U16, frag_count : U16]

\* The flags: bit 0 is KEYFRAME, bit 1 is LAST_FRAGMENT, the others are reserved.
Bit(f, n) == (f \div n) % 2 = 1
Flag(on, n) == IF on THEN n ELSE 0

\* LAST_FRAGMENT is derived from the position; frag_count - 1 wraps at 16 bits.
make_header(keyframe, stream_id, frame_seq, frag_index, frag_count) ==
  [keyframe |-> keyframe,
   last |-> frag_count > 0 /\ frag_index = (frag_count - 1) % 65536,
   stream_id |-> stream_id, frame_seq |-> frame_seq,
   frag_index |-> frag_index, frag_count |-> frag_count]

flags_byte(h) == Flag(h.keyframe, 1) + Flag(h.last, 2)

encode_header(h) ==
  <<kMagic, flags_byte(h),
    h.stream_id \div 256, h.stream_id % 256,
    h.frame_seq \div 16777216, (h.frame_seq \div 65536) % 256,
    (h.frame_seq \div 256) % 256, h.frame_seq % 256,
    h.frag_index \div 256, h.frag_index % 256,
    h.frag_count \div 256, h.frag_count % 256>>

encode_datagram(h, payload) == encode_header(h) \o payload

be16(b, o) == b[o] * 256 + b[o + 1]
be32(b, o) == be16(b, o) * 65536 + be16(b, o + 2)

\* The header a datagram of sufficient length carries, valid or not.
Parsed(b) ==
  [keyframe |-> Bit(b[2], 1), last |-> Bit(b[2], 2), stream_id |-> be16(b, 3),
   frame_seq |-> be32(b, 5), frag_index |-> be16(b, 9), frag_count |-> be16(b, 11)]

\* Fault: an index equal to the count passes.
IndexBeyondLoose(h) == h.frag_index > h.frag_count

IndexBeyond(h) == h.frag_index >= h.frag_count

\* What is wrong with a parsed header, in the order of the checks.
DropReason(h, extra) ==
  IF h.frag_count < 1 THEN "frag_count_zero"
  ELSE IF IndexBeyond(h) THEN "frag_index_range"
  ELSE IF h.last # (h.frag_index = (h.frag_count - 1) % 65536) THEN "last_fragment_mismatch"
  ELSE IF h.stream_id \notin {0, 1} \cup extra THEN "unknown_stream"
  ELSE "none"

\* The reason a datagram is dropped for, "none" when it is accepted.
Verdict(b, extra) ==
  IF Len(b) < kHeaderLen THEN "too_short"
  ELSE IF Len(b) > kMaxDatagramLen THEN "oversize"
  ELSE IF b[1] # kMagic THEN "bad_magic"
  ELSE DropReason(Parsed(b), extra)

decode_with_streams(b, extra) ==
  IF Verdict(b, extra) # "none" THEN <<"dropped", Verdict(b, extra)>>
  ELSE <<"accepted", Parsed(b), Len(b) - kHeaderLen>>

\* What a datagram with header h and n bytes of payload must decode to.
AsSent(h, n, extra) ==
  IF kHeaderLen + n > kMaxDatagramLen THEN <<"dropped", "oversize">>
  ELSE IF DropReason(h, extra) # "none" THEN <<"dropped", DropReason(h, extra)>>
  ELSE <<"accepted", h, n>>

\* What an accepted datagram says is what was received: the header encodes to the bytes
\* it came in, the reserved flags apart, the payload is the rest, and the fragment has
\* its place in its frame and a stream of the session.
AsReceived(got, b, extra) ==
  LET h == got[2]
  IN /\ encode_header(h) = [SubSeq(b, 1, kHeaderLen) EXCEPT ![2] = @ % 4]
     /\ got[3] = Len(b) - kHeaderLen
     /\ h = make_header(h.keyframe, h.stream_id, h.frame_seq, h.frag_index, h.frag_count)
     /\ h.frag_index < h.frag_count
     /\ h.stream_id \in {0, 1} \cup extra
=============================================================================
