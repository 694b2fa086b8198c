----------------------------- MODULE WireProofs -----------------------------
(***************************************************************************)
(* What goes over the wire, for every value of it: the datagram header     *)
(* with the whole 32-bit range of frame_seq, the heads and the integers of *)
(* CBOR with the whole 64-bit range (neither of which TLC's integers       *)
(* reach), and the control stream, cut into chunks of any length.          *)
(***************************************************************************)
EXTENDS DatagramLink, CborHead, ControlStream, SequenceTheorems, WellFoundedInduction, TLAPS

-----------------------------------------------------------------------------
(***************************************************************************)
(* Induction over a set of numbers.                                        *)
(***************************************************************************)
\* The order of the natural numbers, as a well-founded relation.
LEMMA NatOrder ==
  \E R : IsWellFoundedOn(R, Nat) /\ \A x, y \in Nat : <<x, y>> \in R <=> x < y
<1> DEFINE R == OpToRel(<, Nat)
<1>1. IsWellFoundedOn(R, Nat)
  BY NatLessThanWellFounded
<1>2. \A x, y \in Nat : <<x, y>> \in R <=> x < y
  BY DEF OpToRel
<1> QED
  BY <1>1, <1>2, Zenon

\* Every non-empty set of natural numbers has a least element.
LEMMA LeastNat ==
  ASSUME NEW T, T \subseteq Nat, T # {}
  PROVE  \E n \in T : \A m \in T : n <= m
<1>1. PICK R : IsWellFoundedOn(R, Nat) /\ \A x, y \in Nat : <<x, y>> \in R <=> x < y
  BY NatOrder
<1>0. IsWellFoundedOn(R, Nat)
  BY <1>1
<1>2. PICK n \in T : \A m \in T : ~(<<m, n>> \in R)
  BY <1>0, WFMin
<1>3. \A m \in T : ~(m < n)
  BY <1>1, <1>2, Zenon
<1>4. \A m \in T : n <= m
  BY <1>3
<1> QED
  BY <1>4

\* Induction over 0..n for a set of numbers.
LEMMA SetInduction ==
  ASSUME NEW n \in Nat, NEW P, 0 \in P, \A i \in 0..(n - 1) : i \in P => i + 1 \in P
  PROVE  0..n \subseteq P
<1> SUFFICES ASSUME (0..n) \ P # {} PROVE FALSE
  OBVIOUS
<1> DEFINE T == (0..n) \ P
<1>0. T \subseteq Nat /\ T # {}
  OBVIOUS
<1> HIDE DEF T
<1>1. PICK k \in T : \A m \in T : k <= m
  BY <1>0, LeastNat, Zenon
<1> USE DEF T
<1>2. k \in Nat /\ k # 0 /\ k - 1 \in 0..(n - 1)
  BY <1>1
<1>3. k - 1 \in P
  BY <1>1, <1>2
<1> QED
  BY <1>1, <1>2, <1>3

-----------------------------------------------------------------------------
(***************************************************************************)
(* The datagram header.                                                    *)
(***************************************************************************)
\* Two bytes hold 16 bits.
LEMMA Split16 ==
  ASSUME NEW x \in U16
  PROVE  /\ x \div 256 \in Byte /\ x % 256 \in Byte
         /\ (x \div 256) * 256 + (x % 256) = x
BY Z3 DEF U16, Byte

\* The upper and the lower part of a number.
LEMMA Upper16 ==
  ASSUME NEW x \in Nat
  PROVE  x % 65536 \in U16 /\ (x \div 65536) * 65536 + (x % 65536) = x
BY Z3 DEF U16

\* Four bytes hold 32 bits.
LEMMA Split32 ==
  ASSUME NEW x \in U32
  PROVE  /\ x \div 16777216 \in Byte /\ (x \div 65536) % 256 \in Byte
         /\ (x \div 256) % 256 \in Byte /\ x % 256 \in Byte
         /\ ((x \div 16777216) * 256 + ((x \div 65536) % 256)) * 65536
              + (((x \div 256) % 256) * 256 + (x % 256)) = x
<1> DEFINE hi == x \div 65536
           lo == x % 65536
<1>1. hi \in U16 /\ lo \in U16 /\ hi * 65536 + lo = x
  BY Upper16, SMT DEF U32
<1>2. hi = x \div 65536
  OBVIOUS
<1> HIDE DEF hi, lo
<1>3. PICK a \in Byte, b \in Byte : hi = a * 256 + b /\ hi \div 256 = a /\ hi % 256 = b
  BY <1>1, Split16
<1>4. PICK c \in Byte, d \in Byte : lo = c * 256 + d
  BY <1>1, Split16
<1>5. x = a * 16777216 + b * 65536 + c * 256 + d
  BY <1>1, <1>3, <1>4, Z3 DEF Byte
<1>6. x \div 16777216 = a
  BY <1>5, Z3 DEF Byte
<1>7. (x \div 65536) % 256 = b
  BY <1>2, <1>3
<1>8. (x \div 256) % 256 = c
  <2>1. x \div 256 = (a * 65536 + b * 256) + c
    BY <1>5, Z3 DEF Byte
  <2>2. a * 65536 + b * 256 = (a * 256 + b) * 256
    BY Z3 DEF Byte
  <2> QED
    BY <2>1, <2>2, Z3 DEF Byte
<1>9. x % 256 = d
  BY <1>5, Z3 DEF Byte
<1> QED
  <2>1. (a * 256 + b) * 65536 + (c * 256 + d) = x
    BY <1>5, Z3 DEF Byte
  <2> QED
    BY <1>6, <1>7, <1>8, <1>9, <2>1

\* The flags byte keeps both flags apart.
LEMMA FlagBits ==
  ASSUME NEW h \in Headers
  PROVE  /\ flags_byte(h) \in 0..3
         /\ Bit(flags_byte(h), 1) = h.keyframe
         /\ Bit(flags_byte(h), 2) = h.last
<1>1. h.keyframe \in BOOLEAN /\ h.last \in BOOLEAN
  BY DEF Headers
<1>2. CASE h.keyframe = TRUE /\ h.last = TRUE
  <2>1. flags_byte(h) = 3
    BY <1>2 DEF flags_byte, Flag
  <2>2. /\ 3 \in 0..3
        /\ Bit(3, 1) = TRUE
        /\ Bit(3, 2) = TRUE
    BY Z3 DEF Bit
  <2> QED
    BY <1>2, <2>1, <2>2, Zenon
<1>3. CASE h.keyframe = TRUE /\ h.last = FALSE
  <2>1. flags_byte(h) = 1
    BY <1>3 DEF flags_byte, Flag
  <2>2. /\ 1 \in 0..3
        /\ Bit(1, 1) = TRUE
        /\ Bit(1, 2) = FALSE
    BY Z3 DEF Bit
  <2> QED
    BY <1>3, <2>1, <2>2, Zenon
<1>4. CASE h.keyframe = FALSE /\ h.last = TRUE
  <2>1. flags_byte(h) = 2
    BY <1>4 DEF flags_byte, Flag
  <2>2. /\ 2 \in 0..3
        /\ Bit(2, 1) = FALSE
        /\ Bit(2, 2) = TRUE
    BY Z3 DEF Bit
  <2> QED
    BY <1>4, <2>1, <2>2, Zenon
<1>5. CASE h.keyframe = FALSE /\ h.last = FALSE
  <2>1. flags_byte(h) = 0
    BY <1>5 DEF flags_byte, Flag
  <2>2. /\ 0 \in 0..3
        /\ Bit(0, 1) = FALSE
        /\ Bit(0, 2) = FALSE
    BY Z3 DEF Bit
  <2> QED
    BY <1>5, <2>1, <2>2, Zenon
<1> QED
  BY <1>1, <1>2, <1>3, <1>4, <1>5

\* The twelve bytes of a header: each is a byte, and together they are the header.
LEMMA ParsedEncoded ==
  ASSUME NEW h \in Headers
  PROVE  /\ encode_header(h) \in Seq(Byte)
         /\ Len(encode_header(h)) = kHeaderLen
         /\ encode_header(h)[1] = kMagic
         /\ Parsed(encode_header(h)) = h
<1> DEFINE b == encode_header(h)
<1>0. /\ h.stream_id \in U16 /\ h.frag_index \in U16 /\ h.frag_count \in U16
      /\ h.frame_seq \in U32
  BY DEF Headers
<1>1. /\ flags_byte(h) \in Byte /\ kMagic \in Byte
  BY FlagBits DEF Byte, kMagic
<1>2. /\ b \in Seq(Byte) /\ Len(b) = 12
      /\ b[1] = kMagic /\ b[2] = flags_byte(h)
      /\ b[3] = h.stream_id \div 256 /\ b[4] = h.stream_id % 256
      /\ b[5] = h.frame_seq \div 16777216 /\ b[6] = (h.frame_seq \div 65536) % 256
      /\ b[7] = (h.frame_seq \div 256) % 256 /\ b[8] = h.frame_seq % 256
      /\ b[9] = h.frag_index \div 256 /\ b[10] = h.frag_index % 256
      /\ b[11] = h.frag_count \div 256 /\ b[12] = h.frag_count % 256
  BY <1>0, <1>1, Split16, Split32 DEF encode_header
<1> HIDE DEF b
<1>3. be16(b, 3) = h.stream_id /\ be16(b, 9) = h.frag_index /\ be16(b, 11) = h.frag_count
  BY <1>0, <1>2, Split16 DEF be16
<1>4. be32(b, 5) = h.frame_seq
  BY <1>0, <1>2, Split32 DEF be32, be16
<1>5. Bit(b[2], 1) = h.keyframe /\ Bit(b[2], 2) = h.last
  BY <1>2, FlagBits
<1>6. Parsed(b) = [keyframe |-> h.keyframe, last |-> h.last, stream_id |-> h.stream_id,
                   frame_seq |-> h.frame_seq, frag_index |-> h.frag_index,
                   frag_count |-> h.frag_count]
  BY <1>3, <1>4, <1>5 DEF Parsed
<1>7. h = [keyframe |-> h.keyframe, last |-> h.last, stream_id |-> h.stream_id,
           frame_seq |-> h.frame_seq, frag_index |-> h.frag_index,
           frag_count |-> h.frag_count]
  BY DEF Headers
<1> QED
  BY <1>2, <1>6, <1>7 DEF b, kHeaderLen

\* The header is in the first twelve bytes.
LEMMA FirstTwelve ==
  ASSUME NEW b, NEW q, \A k \in 1..12 : q[k] = b[k]
  PROVE  q[1] = b[1] /\ Parsed(q) = Parsed(b)
<1>1. /\ q[1] = b[1] /\ q[2] = b[2] /\ q[3] = b[3] /\ q[4] = b[4] /\ q[5] = b[5]
      /\ q[6] = b[6] /\ q[7] = b[7] /\ q[8] = b[8] /\ q[9] = b[9] /\ q[10] = b[10]
      /\ q[11] = b[11] /\ q[12] = b[12]
  BY SMT
<1>2. be16(q, 3) = be16(b, 3) /\ be16(q, 9) = be16(b, 9) /\ be16(q, 11) = be16(b, 11)
  BY <1>1, SMT DEF be16
<1>3. be32(q, 5) = be32(b, 5)
  BY <1>1, SMT DEF be16, be32
<1> QED
  BY <1>1, <1>2, <1>3, Zenon DEF Parsed

\* A payload after the header does not disturb it.
LEMMA ParsedPrefix ==
  ASSUME NEW b \in Seq(Byte), NEW p \in Seq(Byte), Len(b) = 12
  PROVE  /\ Len(b \o p) = 12 + Len(p)
         /\ (b \o p)[1] = b[1]
         /\ Parsed(b \o p) = Parsed(b)
<1>1. Len(b \o p) = Len(b) + Len(p)
  BY ConcatProperties, Zenon
<1>2. \A i \in 1..(Len(b) + Len(p)) :
         (b \o p)[i] = IF i <= Len(b) THEN b[i] ELSE p[i - Len(b)]
  BY ConcatProperties, Zenon
<1>3. \A k \in 1..12 : k \in 1..(Len(b) + Len(p)) /\ k <= Len(b)
  BY SMT
<1>4. \A k \in 1..12 : (b \o p)[k] = b[k]
  BY <1>2, <1>3, Zenon
<1>5. (b \o p)[1] = b[1] /\ Parsed(b \o p) = Parsed(b)
  BY <1>4, FirstTwelve, Zenon
<1> QED
  BY <1>1, <1>5, Zenon

(***************************************************************************)
(* decode_with_streams(encode_datagram(h, p)) is exactly h and the length  *)
(* of p when the header is valid for the session and the datagram is not   *)
(* over-long, and is dropped for the reason that is wrong with h or for    *)
(* its size otherwise, for every header and payload: no valid fragment is  *)
(* lost or taken for another one.                                          *)
(***************************************************************************)
THEOREM DatagramRoundTrip ==
  ASSUME NEW h \in Headers, NEW p \in Seq(Byte), NEW extra
  PROVE  decode_with_streams(encode_datagram(h, p), extra) = AsSent(h, Len(p), extra)
<1> DEFINE d == encode_datagram(h, p)
<1>1. /\ Len(d) = kHeaderLen + Len(p) /\ d[1] = kMagic /\ Parsed(d) = h
  BY ParsedEncoded, ParsedPrefix, Zenon DEF encode_datagram, kHeaderLen
<1>2. Len(p) \in Nat
  OBVIOUS
<1> HIDE DEF d
<1>3. CASE kHeaderLen + Len(p) > kMaxDatagramLen
  BY <1>1, <1>2, <1>3 DEF decode_with_streams, AsSent, Verdict, kHeaderLen, kMaxDatagramLen, d
<1>4. CASE ~(kHeaderLen + Len(p) > kMaxDatagramLen)
  <2>1. Verdict(d, extra) = DropReason(h, extra)
    BY <1>1, <1>2, <1>4 DEF Verdict, kHeaderLen, kMaxDatagramLen
  <2>2. Len(d) - kHeaderLen = Len(p)
    BY <1>1, <1>2 DEF kHeaderLen
  <2> QED
    BY <1>1, <1>4, <2>1, <2>2 DEF decode_with_streams, AsSent, d
<1> QED
  BY <1>3, <1>4

\* Two bytes are the two parts of the number they make.
LEMMA Joined16 ==
  ASSUME NEW a \in Byte, NEW c \in Byte
  PROVE  LET x == a * 256 + c
         IN x \in U16 /\ x \div 256 = a /\ x % 256 = c
BY Z3 DEF Byte, U16

LEMMA UpperIs ==
  ASSUME NEW hi \in U16, NEW lo \in U16
  PROVE  (hi * 65536 + lo) \div 65536 = hi
BY Z3 DEF U16

\* The four bytes of a 32-bit number, as encode_header takes them apart.
IsParts(x, a, b, c, d) ==
  /\ x \div 16777216 = a /\ (x \div 65536) % 256 = b
  /\ (x \div 256) % 256 = c /\ x % 256 = d

\* Four bytes are the four parts of the number they make.
LEMMA Joined32 ==
  ASSUME NEW a \in Byte, NEW b \in Byte, NEW c \in Byte, NEW d \in Byte,
         NEW x, x = (a * 256 + b) * 65536 + (c * 256 + d)
  PROVE  IsParts(x, a, b, c, d)
<1> DEFINE hi == a * 256 + b
           lo == c * 256 + d
<1>1. /\ hi \in U16 /\ hi \div 256 = a /\ hi % 256 = b
      /\ lo \in U16
  BY Joined16
<1>2. x \in Nat /\ x = a * 16777216 + b * 65536 + c * 256 + d
  BY Z3 DEF Byte
<1>3. x \div 16777216 = a
  BY <1>2, Z3 DEF Byte
<1>4. (x \div 65536) % 256 = b
  <2>1. x = hi * 65536 + lo
    OBVIOUS
  <2> HIDE DEF hi, lo
  <2>2. x \div 65536 = hi
    BY <1>1, <2>1, UpperIs
  <2> QED
    BY <1>1, <2>2
<1>5. (x \div 256) % 256 = c
  <2>1. x \div 256 = (a * 65536 + b * 256) + c
    BY <1>2, Z3 DEF Byte
  <2>2. a * 65536 + b * 256 = (a * 256 + b) * 256
    BY Z3 DEF Byte
  <2> QED
    BY <2>1, <2>2, Z3 DEF Byte
<1>6. x % 256 = d
  BY <1>2, Z3 DEF Byte
<1> QED
  BY <1>2, <1>3, <1>4, <1>5, <1>6, SMT DEF IsParts

\* The two flags in use are what is left of a byte without the reserved ones.
LEMMA FlagsKept ==
  ASSUME NEW f \in Byte
  PROVE  Flag(Bit(f, 1), 1) + Flag(Bit(f, 2), 2) = f % 4
<1>1. f \div 1 = f
  BY Z3 DEF Byte
<1>2. PICK q \in Nat, r \in 0..3 : f = 4 * q + r /\ r = f % 4
  BY Z3 DEF Byte
<1>3. /\ r = 0 => f % 2 = 0 /\ (f \div 2) % 2 = 0
      /\ r = 1 => f % 2 = 1 /\ (f \div 2) % 2 = 0
      /\ r = 2 => f % 2 = 0 /\ (f \div 2) % 2 = 1
      /\ r = 3 => f % 2 = 1 /\ (f \div 2) % 2 = 1
  BY <1>2, Z3 DEF Byte
<1> QED
  BY <1>1, <1>2, <1>3 DEF Flag, Bit

LEMMA LenBytes ==
  ASSUME NEW x \in Seq(Byte)
  PROVE  Len(x) \in Nat
OBVIOUS

\* The beginning of a sequence of bytes.
LEMMA BytesPrefix ==
  ASSUME NEW x \in Seq(Byte), NEW n \in 0..Len(x)
  PROVE  /\ SubSeq(x, 1, n) \in Seq(Byte) /\ Len(SubSeq(x, 1, n)) = n
         /\ \A k \in 1..n : SubSeq(x, 1, n)[k] = x[k]
OBVIOUS

\* Twelve bytes with the magic in front, encoded again after parsing, are themselves but
\* for the reserved flags.
LEMMA EncodedParsed ==
  ASSUME NEW b \in Seq(Byte), Len(b) >= kHeaderLen, b[1] = kMagic
  PROVE  encode_header(Parsed(b)) = [SubSeq(b, 1, kHeaderLen) EXCEPT ![2] = @ % 4]
<1> DEFINE e == encode_header(Parsed(b))
           s == SubSeq(b, 1, kHeaderLen)
           t == [s EXCEPT ![2] = @ % 4]
<1>1. /\ b[2] \in Byte /\ b[3] \in Byte /\ b[4] \in Byte /\ b[5] \in Byte /\ b[6] \in Byte
      /\ b[7] \in Byte /\ b[8] \in Byte /\ b[9] \in Byte /\ b[10] \in Byte
      /\ b[11] \in Byte /\ b[12] \in Byte
  BY DEF kHeaderLen
<1>2. e = <<kMagic, b[2] % 4, b[3], b[4], b[5], b[6], b[7], b[8], b[9], b[10], b[11], b[12]>>
  <2>1. flags_byte(Parsed(b)) = b[2] % 4
    <3>1. flags_byte(Parsed(b)) = Flag(Bit(b[2], 1), 1) + Flag(Bit(b[2], 2), 2)
      BY DEF flags_byte, Parsed
    <3> QED
      BY <1>1, <3>1, FlagsKept
  <2>2. /\ be16(b, 3) \div 256 = b[3] /\ be16(b, 3) % 256 = b[4]
        /\ be16(b, 9) \div 256 = b[9] /\ be16(b, 9) % 256 = b[10]
        /\ be16(b, 11) \div 256 = b[11] /\ be16(b, 11) % 256 = b[12]
    BY <1>1, Joined16 DEF be16
  <2>3. /\ be32(b, 5) \div 16777216 = b[5] /\ (be32(b, 5) \div 65536) % 256 = b[6]
        /\ (be32(b, 5) \div 256) % 256 = b[7] /\ be32(b, 5) % 256 = b[8]
    <3>1. be32(b, 5) = (b[5] * 256 + b[6]) * 65536 + (b[7] * 256 + b[8])
      BY DEF be32, be16
    <3>2. IsParts(be32(b, 5), b[5], b[6], b[7], b[8])
      <4> HIDE DEF e, s, t
      <4> QED
        BY <1>1, <3>1, Joined32, SMT
    <3> QED
      BY <3>2, SMT DEF IsParts
  <2>4. /\ Parsed(b).stream_id = be16(b, 3) /\ Parsed(b).frame_seq = be32(b, 5)
        /\ Parsed(b).frag_index = be16(b, 9) /\ Parsed(b).frag_count = be16(b, 11)
    BY DEF Parsed
  <2> QED
    BY <2>1, <2>2, <2>3, <2>4, SMT DEF encode_header
<1>3. s \in [1..12 -> Byte] /\ \A k \in 1..12 : s[k] = b[k]
  <2>1. kHeaderLen \in 0..Len(b)
    BY LenBytes, SMT DEF kHeaderLen
  <2>2. s \in Seq(Byte) /\ Len(s) = kHeaderLen /\ \A k \in 1..kHeaderLen : s[k] = b[k]
    BY <2>1, BytesPrefix, Zenon
  <2> HIDE DEF s
  <2>3. s \in [1..Len(s) -> Byte]
    BY <2>2
  <2>4. kHeaderLen = 12
    BY DEF kHeaderLen
  <2> QED
    BY <2>2, <2>3, <2>4, Zenon
<1>4. DOMAIN t = 1..12 /\ \A k \in 1..12 : t[k] = IF k = 2 THEN b[k] % 4 ELSE b[k]
  BY <1>3
<1>5. \A k \in 1..12 : \/ k = 1 \/ k = 2 \/ k = 3 \/ k = 4 \/ k = 5 \/ k = 6 \/ k = 7
                       \/ k = 8 \/ k = 9 \/ k = 10 \/ k = 11 \/ k = 12
  OBVIOUS
<1>6. DOMAIN e = 1..12 /\ \A k \in 1..12 : e[k] = t[k]
  <2> HIDE DEF t, s
  <2>1. /\ t[1] = kMagic /\ t[2] = b[2] % 4 /\ t[3] = b[3] /\ t[4] = b[4] /\ t[5] = b[5]
        /\ t[6] = b[6] /\ t[7] = b[7] /\ t[8] = b[8] /\ t[9] = b[9] /\ t[10] = b[10]
        /\ t[11] = b[11] /\ t[12] = b[12]
    BY <1>4
  <2> HIDE DEF e
  <2>2. /\ DOMAIN e = 1..12
        /\ e[1] = kMagic /\ e[2] = b[2] % 4 /\ e[3] = b[3] /\ e[4] = b[4] /\ e[5] = b[5]
        /\ e[6] = b[6] /\ e[7] = b[7] /\ e[8] = b[8] /\ e[9] = b[9] /\ e[10] = b[10]
        /\ e[11] = b[11] /\ e[12] = b[12]
    BY <1>2
  <2>3. /\ e[1] = t[1] /\ e[2] = t[2] /\ e[3] = t[3] /\ e[4] = t[4] /\ e[5] = t[5]
        /\ e[6] = t[6] /\ e[7] = t[7] /\ e[8] = t[8] /\ e[9] = t[9] /\ e[10] = t[10]
        /\ e[11] = t[11] /\ e[12] = t[12]
    BY <2>1, <2>2, SMT
  <2>4. ASSUME NEW k \in 1..12 PROVE e[k] = t[k]
    BY <1>5, <2>3, SMT
  <2> QED
    BY <2>2, <2>4, Zenon
<1>7. /\ e = [k \in 1..12 |-> e[k]]
      /\ t = [k \in 1..12 |-> t[k]]
  <2>1. e = [k \in DOMAIN e |-> e[k]]
    BY <1>2
  <2>2. t = [k \in DOMAIN t |-> t[k]]
    BY <1>3
  <2> HIDE DEF e, t
  <2> QED
    BY <1>4, <1>6, <2>1, <2>2, Zenon
<1> HIDE DEF e, t
<1>8. e = t
  BY <1>6, <1>7
<1> QED
  BY <1>8, Zenon DEF e, t

(***************************************************************************)
(* Whatever bytes arrive, damaged, cut or never sent by a host, what       *)
(* decode_with_streams accepts is what is in them: the accepted header     *)
(* encodes to the twelve bytes received, the reserved flags apart, the     *)
(* payload is the rest of an allowed size, LAST_FRAGMENT stands exactly on *)
(* the last fragment, the index is below the count and the stream is one   *)
(* of the session.                                                         *)
(***************************************************************************)
THEOREM DatagramAccepted ==
  ASSUME NEW b \in Seq(Byte), NEW extra,
         decode_with_streams(b, extra)[1] = "accepted"
  PROVE  /\ AsReceived(decode_with_streams(b, extra), b, extra)
         /\ Len(b) - kHeaderLen \in 0..(kMaxDatagramLen - kHeaderLen)
<1> DEFINE h == Parsed(b)
           got == decode_with_streams(b, extra)
<1>1. Verdict(b, extra) = "none"
  BY DEF decode_with_streams
<1>2. got[1] = "accepted" /\ got[2] = h /\ got[3] = Len(b) - kHeaderLen
  BY <1>1 DEF decode_with_streams
<1>3. /\ ~(Len(b) < kHeaderLen) /\ ~(Len(b) > kMaxDatagramLen) /\ b[1] = kMagic
      /\ DropReason(h, extra) = "none"
  BY <1>1 DEF Verdict
<1>4. Len(b) >= kHeaderLen /\ Len(b) - kHeaderLen \in 0..(kMaxDatagramLen - kHeaderLen)
  <2> DEFINE n == Len(b)
  <2>1. n \in Nat
    BY LenBytes, Zenon
  <2>2. ~(n < 12) /\ ~(n > 1350)
    BY <1>3 DEF kHeaderLen, kMaxDatagramLen
  <2> HIDE DEF n
  <2>3. n >= 12 /\ n - 12 \in 0..(1350 - 12)
    BY <2>1, <2>2, SMT
  <2> QED
    BY <2>3, Zenon DEF n, kHeaderLen, kMaxDatagramLen
<1>5. encode_header(h) = [SubSeq(b, 1, kHeaderLen) EXCEPT ![2] = @ % 4]
  BY <1>3, <1>4, EncodedParsed, Zenon
<1>6. /\ h.frag_index \in Nat /\ h.frag_count \in Nat
      /\ h.keyframe \in BOOLEAN /\ h.last \in BOOLEAN
      /\ h = [keyframe |-> h.keyframe, last |-> h.last, stream_id |-> h.stream_id,
              frame_seq |-> h.frame_seq, frag_index |-> h.frag_index,
              frag_count |-> h.frag_count]
  <2>1. b[9] \in Byte /\ b[10] \in Byte /\ b[11] \in Byte /\ b[12] \in Byte
    BY <1>4 DEF kHeaderLen
  <2>2. be16(b, 9) \in Nat /\ be16(b, 11) \in Nat
    <3>1. /\ be16(b, 9) = b[9] * 256 + b[10] /\ b[9] * 256 + b[10] \in U16
          /\ be16(b, 11) = b[11] * 256 + b[12] /\ b[11] * 256 + b[12] \in U16
      BY <2>1, Joined16, SMT DEF be16
    <3> QED
      BY <3>1, SMT DEF U16
  <2>3. Bit(b[2], 1) \in BOOLEAN /\ Bit(b[2], 2) \in BOOLEAN
    BY Zenon DEF Bit
  <2>4. /\ h.keyframe = Bit(b[2], 1) /\ h.last = Bit(b[2], 2)
        /\ h.frag_index = be16(b, 9) /\ h.frag_count = be16(b, 11)
    BY DEF Parsed
  <2>5. h = [keyframe |-> h.keyframe, last |-> h.last, stream_id |-> h.stream_id,
              frame_seq |-> h.frame_seq, frag_index |-> h.frag_index,
              frag_count |-> h.frag_count]
    BY DEF Parsed
  <2> QED
    BY <2>2, <2>3, <2>4, <2>5, Zenon
<1> HIDE DEF h, got
<1> DEFINE last == h.frag_index = (h.frag_count - 1) % 65536
<1>7. /\ ~(h.frag_count < 1) /\ ~IndexBeyond(h) /\ ~(h.last # last)
      /\ h.stream_id \in {0, 1} \cup extra
  BY <1>3 DEF DropReason
<1>8. h.frag_count > 0 /\ h.frag_index < h.frag_count
  BY <1>6, <1>7 DEF IndexBeyond
<1>9. make_header(h.keyframe, h.stream_id, h.frame_seq, h.frag_index, h.frag_count)
        = [keyframe |-> h.keyframe, last |-> h.frag_count > 0 /\ last,
           stream_id |-> h.stream_id, frame_seq |-> h.frame_seq,
           frag_index |-> h.frag_index, frag_count |-> h.frag_count]
  BY DEF make_header
<1>10. last \in BOOLEAN
  OBVIOUS
<1> HIDE DEF last
<1>11. h.last = (h.frag_count > 0 /\ last)
  BY <1>6, <1>7, <1>8, <1>10, Zenon
<1>12. h = make_header(h.keyframe, h.stream_id, h.frame_seq, h.frag_index, h.frag_count)
  BY <1>6, <1>9, <1>11, Zenon
<1> HIDE DEF got
<1>13. AsReceived(got, b, extra)
  BY <1>2, <1>5, <1>7, <1>8, <1>12, Zenon DEF AsReceived
<1> QED
  BY <1>4, <1>13, Zenon DEF got

(***************************************************************************)
(* The two promises as invariants of the link, whatever is sent and        *)
(* however often it is changed on the way.                                 *)
(***************************************************************************)
\* What the decoder reads are bytes, those that were sent until something happens to them,
\* and what it said of them stays true.
LinkInv ==
  /\ sent \in Fragments
  /\ packet \in Seq(Byte)
  /\ harm \in Nat
  /\ harm = 0 => packet = encode_datagram(sent.header, sent.payload)
  /\ heard # Unheard => heard = decode_with_streams(packet, sent.extra)

LEMMA SentIsDatagram ==
  ASSUME NEW s \in Fragments
  PROVE  s.header \in Headers /\ s.payload \in Seq(Byte)
BY FragmentsAssumption

LEMMA DatagramIsBytes ==
  ASSUME NEW h \in Headers, NEW p \in Seq(Byte)
  PROVE  encode_datagram(h, p) \in Seq(Byte)
<1>1. encode_header(h) \in Seq(Byte)
  BY ParsedEncoded, Zenon
<1> QED
  BY <1>1, ConcatProperties, Zenon DEF encode_datagram

LEMMA LinkStarts == LinkInit => LinkInv
<1> SUFFICES ASSUME LinkInit PROVE LinkInv
  OBVIOUS
<1>1. packet \in Seq(Byte)
  BY SentIsDatagram, DatagramIsBytes, Zenon DEF LinkInit
<1>2. harm \in Nat
  BY DEF LinkInit
<1> QED
  BY <1>1, <1>2, Zenon DEF LinkInit, LinkInv

LEMMA LinkStep == LinkInv /\ [LinkNext]_dvars => LinkInv'
<1> SUFFICES ASSUME LinkInv, [LinkNext]_dvars PROVE LinkInv'
  OBVIOUS
<1>1. ASSUME NEW n \in 0..(Len(packet) - 1), CutShort(n)
      PROVE  LinkInv'
  <2>1. n \in 0..Len(packet)
    BY DEF LinkInv
  <2>2. SubSeq(packet, 1, n) \in Seq(Byte)
    BY <2>1, BytesPrefix, Zenon DEF LinkInv
  <2>3. harm' \in Nat /\ harm' # 0
    BY <1>1 DEF CutShort, LinkInv
  <2> QED
    BY <1>1, <2>2, <2>3, Zenon DEF CutShort, OnTheWay, LinkInv
<1>2. ASSUME NEW i \in 1..kHeaderLen, NEW x \in Noise, i <= Len(packet), Garble(i, x)
      PROVE  LinkInv'
  <2>1. i \in 1..Len(packet) /\ x \in Byte
    BY <1>2, NoiseAssumption DEF kHeaderLen, LinkInv
  <2>2. [packet EXCEPT ![i] = x] \in Seq(Byte)
    BY <2>1, ExceptSeq DEF LinkInv
  <2>3. harm' \in Nat /\ harm' # 0
    BY <1>2 DEF Garble, LinkInv
  <2> QED
    BY <1>2, <2>2, <2>3, Zenon DEF Garble, OnTheWay, LinkInv
<1>3. CASE Arrive
  BY <1>3, Zenon DEF Arrive, LinkInv
<1>4. CASE UNCHANGED dvars
  BY <1>4 DEF dvars, LinkInv
<1> QED
  BY <1>1, <1>2, <1>3, <1>4, Zenon DEF LinkNext

LEMMA LinkAlways == LinkSpec => []LinkInv
BY LinkStarts, LinkStep, PTL DEF LinkSpec

\* encode_datagram and decode_with_streams: a datagram nothing happened to is decoded to
\* what was sent, or dropped for the rule it breaks.
THEOREM LinkReceivedAsSent == LinkSpec => []ReceivedAsSent
<1>1. LinkInv => ReceivedAsSent
  <2> SUFFICES ASSUME LinkInv, heard # Unheard, harm = 0
               PROVE  heard = AsSent(sent.header, Len(sent.payload), sent.extra)
    BY DEF ReceivedAsSent
  <2>1. heard = decode_with_streams(encode_datagram(sent.header, sent.payload), sent.extra)
    BY Zenon DEF LinkInv
  <2>2. sent.header \in Headers /\ sent.payload \in Seq(Byte)
    BY SentIsDatagram, Zenon DEF LinkInv
  <2> QED
    BY <2>1, <2>2, DatagramRoundTrip, Zenon
<1> QED
  BY <1>1, LinkAlways, PTL

\* decode_with_streams: whatever happened on the way, what is accepted is what is in the
\* bytes that arrived.
THEOREM LinkAcceptedIsReceived == LinkSpec => []AcceptedIsReceived
<1>1. LinkInv => AcceptedIsReceived
  <2> SUFFICES ASSUME LinkInv, heard[1] = "accepted"
               PROVE  AsReceived(heard, packet, sent.extra)
    BY DEF AcceptedIsReceived
  <2>1. heard # Unheard
    BY DEF Unheard
  <2>2. heard = decode_with_streams(packet, sent.extra) /\ packet \in Seq(Byte)
    BY <2>1, Zenon DEF LinkInv
  <2> QED
    BY <2>2, DatagramAccepted, Zenon
<1> QED
  BY <1>1, LinkAlways, PTL

-----------------------------------------------------------------------------
(***************************************************************************)
(* The head of a CBOR item.                                                *)
(***************************************************************************)
\* A 64-bit argument or integer.
Words == [1..8 -> Byte]

\* The bytes of x stand in b from position pos on.
Carries(b, pos, x) ==
  /\ pos + Len(x) - 1 <= Len(b)
  /\ \A k \in 1..Len(x) : b[pos + k - 1] = x[k]

\* Bytes put together, and the end of a sequence of bytes.
LEMMA BytesJoined ==
  ASSUME NEW x \in Seq(Byte), NEW y \in Seq(Byte)
  PROVE  /\ x \o y \in Seq(Byte) /\ Len(x \o y) = Len(x) + Len(y)
         /\ \A i \in 1..Len(x) : (x \o y)[i] = x[i]
         /\ \A i \in 1..Len(y) : (x \o y)[Len(x) + i] = y[i]
OBVIOUS

LEMMA BytesSuffix ==
  ASSUME NEW x \in Seq(Byte), NEW i \in 1..(Len(x) + 1)
  PROVE  LET t == SubSeq(x, i, Len(x))
         IN /\ t \in Seq(Byte) /\ Len(t) = Len(x) - i + 1
            /\ \A k \in 1..(Len(x) - i + 1) : t[k] = x[i + k - 1]
OBVIOUS

LEMMA WidthIs ==
  ASSUME NEW j \in 1..4
  PROVE  /\ Widths[j] \in 1..8
         /\ j = 1 => Widths[j] = 1
         /\ j = 2 => Widths[j] = 2
         /\ j = 3 => Widths[j] = 4
         /\ j = 4 => Widths[j] = 8
<1>1. /\ Widths[1] = 1 /\ Widths[2] = 2 /\ Widths[3] = 4 /\ Widths[4] = 8
  BY DEF Widths
<1>2. j = 1 \/ j = 2 \/ j = 3 \/ j = 4
  OBVIOUS
<1> QED
  BY <1>1, <1>2

\* The form put_head picks: the narrowest that fits.
Narrowest(arg, j) ==
  Fits(arg, Widths[j]) /\ \A i \in 1..(j - 1) : ~Fits(arg, Widths[i])

LEMMA NarrowestExists ==
  ASSUME NEW arg \in Words
  PROVE  \E j \in 1..4 : Narrowest(arg, j)
<1>1. Fits(arg, Widths[4])
  BY WidthIs DEF Fits
<1>2. CASE Fits(arg, Widths[1])
  BY <1>2 DEF Narrowest
<1>3. CASE ~Fits(arg, Widths[1]) /\ Fits(arg, Widths[2])
  BY <1>3 DEF Narrowest
<1>4. CASE ~Fits(arg, Widths[1]) /\ ~Fits(arg, Widths[2]) /\ Fits(arg, Widths[3])
  <2>1. \A i \in 1..2 : i = 1 \/ i = 2
    OBVIOUS
  <2>2. 3 - 1 = 2 /\ 3 \in 1..4
    OBVIOUS
  <2> QED
    BY <1>4, <2>1, <2>2 DEF Narrowest
<1>5. CASE ~Fits(arg, Widths[1]) /\ ~Fits(arg, Widths[2]) /\ ~Fits(arg, Widths[3])
  <2>1. \A i \in 1..3 : i = 1 \/ i = 2 \/ i = 3
    OBVIOUS
  <2>2. 4 - 1 = 3 /\ 4 \in 1..4
    OBVIOUS
  <2> QED
    BY <1>1, <1>5, <2>1, <2>2 DEF Narrowest
<1> QED
  BY <1>2, <1>3, <1>4, <1>5

\* A head with an argument of w bytes after the initial byte.
IsWide(head, major, arg, j, w) ==
  /\ head \in Seq(Byte) /\ Len(head) = 1 + w
  /\ head[1] = major * 32 + 23 + j
  /\ \A k \in 1..w : head[1 + k] = arg[8 - w + k]

LEMMA WideHead ==
  ASSUME NEW major \in 0..7, NEW arg \in Words, ~IsImmediate(arg)
  PROVE  \E j \in 1..4 : /\ Narrowest(arg, j)
                         /\ IsWide(put_head(major, arg), major, arg, j, Widths[j])
<1> DEFINE j == CHOOSE j \in 1..4 : Narrowest(arg, j)
           w == Widths[j]
           one == << major * 32 + 23 + j >>
           tail == SubSeq(arg, 9 - w, 8)
<1>1. j \in 1..4 /\ Narrowest(arg, j)
  BY NarrowestExists
<1>2. put_head(major, arg) = one \o tail
  BY DEF put_head, Narrowest
<1> HIDE DEF j
<1>3. w \in 1..8
  BY <1>1, WidthIs
<1> HIDE DEF w
<1>4. major * 32 + 23 + j \in Byte
  BY <1>1 DEF Byte
<1>5. one \in Seq(Byte) /\ Len(one) = 1 /\ one[1] = major * 32 + 23 + j
  BY <1>4
<1>6. arg \in Seq(Byte) /\ Len(arg) = 8
  BY DEF Words
<1>7. tail \in Seq(Byte) /\ Len(tail) = w /\ \A k \in 1..w : tail[k] = arg[8 - w + k]
  <2>1. 9 - w \in 1..(Len(arg) + 1) /\ tail = SubSeq(arg, 9 - w, Len(arg))
    BY <1>3, <1>6
  <2>3. tail \in Seq(Byte) /\ Len(tail) = Len(arg) - (9 - w) + 1
        /\ \A k \in 1..(Len(arg) - (9 - w) + 1) : tail[k] = arg[(9 - w) + k - 1]
    BY <1>6, <2>1, BytesSuffix, Zenon
  <2>2. tail \in Seq(Byte) /\ Len(tail) = 8 - (9 - w) + 1
        /\ \A k \in 1..(8 - (9 - w) + 1) : tail[k] = arg[(9 - w) + k - 1]
    BY <1>6, <2>3, Zenon
  <2> HIDE DEF tail
  <2> QED
    BY <1>3, <2>2
<1> HIDE DEF one, tail
<1>8. /\ one \o tail \in Seq(Byte) /\ Len(one \o tail) = 1 + w
      /\ (one \o tail)[1] = one[1]
      /\ \A k \in 1..w : (one \o tail)[1 + k] = tail[k]
  <2>1. /\ one \o tail \in Seq(Byte) /\ Len(one \o tail) = Len(one) + Len(tail)
        /\ \A i \in 1..Len(one) : (one \o tail)[i] = one[i]
        /\ \A i \in 1..Len(tail) : (one \o tail)[Len(one) + i] = tail[i]
    BY <1>5, <1>7, BytesJoined, Zenon
  <2>2. 1 \in 1..1
    OBVIOUS
  <2> QED
    BY <1>5, <1>7, <2>1, <2>2, Zenon
<1>9. IsWide(put_head(major, arg), major, arg, j, w)
  BY <1>2, <1>5, <1>7, <1>8 DEF IsWide
<1> QED
  BY <1>1, <1>9 DEF w

LEMMA NarrowHead ==
  ASSUME NEW major \in 0..7, NEW arg \in Words, IsImmediate(arg)
  PROVE  LET head == put_head(major, arg)
         IN /\ head \in Seq(Byte) /\ Len(head) = 1 /\ head[1] = major * 32 + arg[8]
            /\ arg[8] \in 0..23 /\ \A k \in 1..7 : arg[k] = 0
<1>1. arg[8] \in 0..23 /\ \A k \in 1..7 : arg[k] = 0
  BY DEF IsImmediate, Fits, Words, Byte
<1>2. major * 32 + arg[8] \in Byte
  BY <1>1 DEF Byte
<1>3. put_head(major, arg) = << major * 32 + arg[8] >>
  BY DEF put_head
<1> QED
  BY <1>1, <1>2, <1>3

\* The initial byte: three bits of major type, five of additional information.
LEMMA InitialByte ==
  ASSUME NEW major \in 0..7, NEW ai \in 0..31
  PROVE  (major * 32 + ai) \div 32 = major /\ (major * 32 + ai) % 32 = ai
BY Z3

LEMMA SmallBytes ==
  ASSUME NEW n \in 0..23
  PROVE  Bytes8(n) \in [1..8 -> Byte] /\ Bytes8(n)[8] = n /\ \A k \in 1..7 : Bytes8(n)[k] = 0
<1>1. n \div 16777216 = 0 /\ n \div 65536 = 0 /\ n \div 256 = 0 /\ n % 256 = n /\ 0 % 256 = 0
  BY Z3
<1>2. Bytes8(n) = <<0, 0, 0, 0, 0, 0, 0, n>>
  BY <1>1 DEF Bytes8
<1>3. 0 \in Byte /\ n \in Byte
  BY DEF Byte
<1> QED
  BY <1>2, <1>3

(***************************************************************************)
(* decode_item reads from the head put_head wrote, wherever it stands, its *)
(* major type, its whole 64-bit argument and the position after it: for    *)
(* every major type and argument, at all five widths.                      *)
(***************************************************************************)
THEOREM HeadRoundTrip ==
  ASSUME NEW major \in 0..7, NEW arg \in Words, NEW b \in Seq(Byte), NEW pos \in Nat \ {0},
         Carries(b, pos, put_head(major, arg))
  PROVE  /\ b[pos] \div 32 = major
         /\ Argument(b, pos) = <<arg, pos + Len(put_head(major, arg))>>
<1> DEFINE head == put_head(major, arg)
<1>1. CASE IsImmediate(arg)
  <2>1. /\ Len(head) = 1 /\ head[1] = major * 32 + arg[8]
        /\ arg[8] \in 0..23 /\ \A k \in 1..7 : arg[k] = 0
    BY <1>1, NarrowHead
  <2>2. b[pos] = major * 32 + arg[8]
    <3>1. 1 \in 1..Len(head) /\ pos + 1 - 1 = pos
      BY <2>1
    <3> HIDE DEF head
    <3> QED
      BY <2>1, <3>1 DEF Carries, head
  <2>3. b[pos] \div 32 = major /\ b[pos] % 32 = arg[8]
    <3>1. arg[8] \in 0..31
      BY <2>1
    <3> QED
      BY <2>2, <3>1, InitialByte, ZenonT(30)
  <2>4. Bytes8(arg[8]) = arg
    <3>1. /\ Bytes8(arg[8]) \in [1..8 -> Byte] /\ Bytes8(arg[8])[8] = arg[8]
          /\ \A k \in 1..7 : Bytes8(arg[8])[k] = 0
      BY <2>1, SmallBytes
    <3>2. arg \in [1..8 -> Byte]
      BY DEF Words
    <3>3. \A k \in 1..8 : k \in 1..7 \/ k = 8
      OBVIOUS
    <3> QED
      BY <2>1, <3>1, <3>2, <3>3
  <2>5. Argument(b, pos) = <<Bytes8(arg[8]), pos + 1>>
    <3>2. \A x \in 0..23 : x < 24
      OBVIOUS
    <3>1. arg[8] < 24
      BY <2>1, <3>2, Zenon
    <3> QED
      BY <2>3, <3>1, Zenon DEF Argument
  <2> QED
    BY <2>1, <2>3, <2>4, <2>5
<1>2. CASE ~IsImmediate(arg)
  <2>1. PICK j \in 1..4 : Narrowest(arg, j) /\ IsWide(head, major, arg, j, Widths[j])
    BY <1>2, WideHead
  <2> DEFINE w == Widths[j]
  <2>2. w \in 1..8
    BY WidthIs
  <2>3. /\ Len(head) = 1 + w /\ head[1] = major * 32 + 23 + j
        /\ \A k \in 1..w : head[1 + k] = arg[8 - w + k]
    BY <2>1 DEF IsWide
  <2>4. /\ pos + w <= Len(b) /\ b[pos] = major * 32 + (23 + j)
        /\ \A k \in 1..w : b[pos + k] = arg[8 - w + k]
    <3> HIDE DEF head, w
    <3>1. /\ pos + Len(head) - 1 <= Len(b)
          /\ \A k \in 1..Len(head) : b[pos + k - 1] = head[k]
      BY DEF Carries, head
    <3>2. 1 \in 1..Len(head) /\ pos + 1 - 1 = pos /\ \A k \in 1..w : 1 + k \in 1..Len(head)
      BY <2>2, <2>3
    <3>3. b[pos] = head[1]
      BY <3>1, <3>2
    <3>4. \A k \in 1..w : b[pos + k] = head[1 + k]
      <4>1. \A k \in 1..w : b[pos + (1 + k) - 1] = head[1 + k]
        BY <3>1, <3>2
      <4>2. \A k \in 1..w : pos + (1 + k) - 1 = pos + k
        BY <2>2
      <4> QED
        BY <4>1, <4>2
    <3>5. pos + w <= Len(b)
      BY <2>2, <2>3, <3>1
    <3> QED
      BY <2>3, <3>3, <3>4, <3>5
  <2>5. b[pos] \div 32 = major /\ b[pos] % 32 = 23 + j
    BY <2>4, InitialByte
  <2>6. Argument(b, pos) = read_be(b, pos + 1, w)
    <3>1. (23 + j) - 23 = j /\ ~(23 + j < 24) /\ ~(23 + j >= 28)
      OBVIOUS
    <3> QED
      BY <2>5, <3>1 DEF Argument
  <2>7. read_be(b, pos + 1, w) = <<arg, pos + 1 + w>>
    <3> HIDE DEF w
    <3>1. ~(w > Len(b) - (pos + 1) + 1)
      BY <2>2, <2>4
    <3> DEFINE v == [k \in 1..8 |-> IF k <= 8 - w THEN 0 ELSE b[(pos + 1) + k - 9 + w]]
    <3>2. read_be(b, pos + 1, w) = <<v, pos + 1 + w>>
      BY <3>1 DEF read_be
    <3>3. ASSUME NEW k \in 1..8 PROVE v[k] = arg[k]
      <4>1. CASE k <= 8 - w
        <5>1. arg[k] = 0
          BY <2>1, <2>2, <4>1 DEF Narrowest, Fits, w
        <5> QED
          BY <4>1, <5>1
      <4>2. CASE ~(k <= 8 - w)
        <5> DEFINE i == k - (8 - w)
        <5>1. i \in 1..w /\ 8 - w + i = k /\ (pos + 1) + k - 9 + w = pos + i
          BY <2>2, <4>2
        <5> HIDE DEF i
        <5>2. b[pos + i] = arg[8 - w + i]
          BY <2>4, <5>1
        <5> QED
          BY <4>2, <5>1, <5>2
      <4> QED
        BY <4>1, <4>2
    <3>4. v = arg
      <4>1. arg \in [1..8 -> Byte] /\ DOMAIN v = 1..8
        BY DEF Words
      <4> HIDE DEF v
      <4>2. arg = [k \in 1..8 |-> arg[k]]
        BY <4>1
      <4>3. v = [k \in 1..8 |-> v[k]]
        BY DEF v
      <4> QED
        BY <3>3, <4>2, <4>3
    <3> HIDE DEF v
    <3> QED
      BY <3>2, <3>4
  <2> HIDE DEF head, w
  <2>8. pos + 1 + w = pos + Len(head)
    BY <2>2, <2>3
  <2> QED
    BY <2>5, <2>6, <2>7, <2>8 DEF head
<1> QED
  BY <1>1, <1>2

\* The bytes of a head that are there at the end of b, when some of it is missing.
MissingEnd(b, pos, x) ==
  /\ pos <= Len(b)
  /\ Len(b) < pos + Len(x) - 1
  /\ \A k \in 1..(Len(b) - pos + 1) : b[pos + k - 1] = x[k]

(***************************************************************************)
(* A head that lost its end is rejected, wherever it is cut (read_be): no  *)
(* argument is made up from missing bytes.                                 *)
(***************************************************************************)
THEOREM HeadCutRejected ==
  ASSUME NEW major \in 0..7, NEW arg \in Words, NEW b \in Seq(Byte), NEW pos \in Nat \ {0},
         MissingEnd(b, pos, put_head(major, arg))
  PROVE  Argument(b, pos) = Reject
<1> DEFINE head == put_head(major, arg)
<1>0. Len(b) \in Nat
  OBVIOUS
<1>1. ~IsImmediate(arg)
  <2> SUFFICES ASSUME IsImmediate(arg) PROVE FALSE
    OBVIOUS
  <2>1. Len(head) = 1
    BY NarrowHead
  <2> HIDE DEF head
  <2> QED
    BY <1>0, <2>1 DEF MissingEnd, head
<1>2. PICK j \in 1..4 : IsWide(head, major, arg, j, Widths[j])
  BY <1>1, WideHead
<1> DEFINE w == Widths[j]
<1>3. w \in 1..8 /\ Len(head) = 1 + w /\ head[1] = major * 32 + (23 + j)
  <2>1. w \in 1..8
    BY WidthIs, Zenon
  <2>2. Len(head) = 1 + w /\ head[1] = major * 32 + 23 + j
    BY <1>2, Zenon DEF IsWide
  <2>3. major * 32 + 23 + j = major * 32 + (23 + j)
    OBVIOUS
  <2> QED
    BY <2>1, <2>2, <2>3, Zenon
<1> HIDE DEF head, w
<1>4. b[pos] = head[1]
  <2>1. 1 \in 1..(Len(b) - pos + 1) /\ pos + 1 - 1 = pos
    BY <1>0 DEF MissingEnd
  <2> QED
    BY <2>1 DEF MissingEnd, head
<1>5. b[pos] % 32 = 23 + j
  BY <1>3, <1>4, InitialByte
<1>6. Argument(b, pos) = read_be(b, pos + 1, w)
  <2>1. (23 + j) - 23 = j /\ ~(23 + j < 24) /\ ~(23 + j >= 28)
    OBVIOUS
  <2> QED
    BY <1>5, <2>1 DEF Argument, w
<1>7. w > Len(b) - (pos + 1) + 1
  BY <1>0, <1>3 DEF MissingEnd, head
<1> QED
  BY <1>6, <1>7 DEF read_be

-----------------------------------------------------------------------------
\* The complement of every byte, twice, is the number.
LEMMA ComplementTwice ==
  ASSUME NEW i \in Words
  PROVE  /\ Complement(i) \in Words
         /\ Complement(Complement(i)) = i
         /\ Negative(Complement(i)) <=> ~Negative(i)
<1>1. \A k \in 1..8 : i[k] \in Byte
  BY DEF Words
<1>2. \A x \in Byte : 255 - x \in Byte /\ 255 - (255 - x) = x /\ (255 - x >= 128 <=> ~(x >= 128))
  BY DEF Byte
<1>3. Complement(i) \in Words /\ \A k \in 1..8 : Complement(i)[k] = 255 - i[k]
  BY <1>1, <1>2 DEF Complement, Words
<1>4. Negative(Complement(i)) <=> ~Negative(i)
  <2>1. 1 \in 1..8
    OBVIOUS
  <2> QED
    BY <1>1, <1>2, <1>3, <2>1 DEF Negative
<1>5. Complement(Complement(i)) = [k \in 1..8 |-> 255 - Complement(i)[k]]
  BY DEF Complement
<1>6. \A k \in 1..8 : 255 - Complement(i)[k] = i[k]
  BY <1>1, <1>2, <1>3
<1>7. Complement(Complement(i)) = [k \in 1..8 |-> i[k]]
  BY <1>5, <1>6
<1>8. i = [k \in 1..8 |-> i[k]]
  BY DEF Words
<1> QED
  BY <1>3, <1>4, <1>7, <1>8

(***************************************************************************)
(* Every 64-bit integer, INT64_MIN included, survives encode_into and      *)
(* decode_item, wherever its bytes stand, and the decoder goes on right    *)
(* after them.                                                             *)
(***************************************************************************)
THEOREM IntRoundTrip ==
  ASSUME NEW i \in Words, NEW b \in Seq(Byte), NEW pos \in Nat \ {0},
         Carries(b, pos, encode_int(i))
  PROVE  /\ b[pos] \div 32 \in {0, 1}
         /\ \E arg \in Words :
              /\ Argument(b, pos) = <<arg, pos + Len(encode_int(i))>>
              /\ decode_int(b[pos] \div 32, arg) = <<"int", i>>
<1>1. CASE Negative(i)
  <2>1. Complement(i) \in Words /\ Complement(Complement(i)) = i /\ ~Negative(Complement(i))
    BY <1>1, ComplementTwice
  <2>2. encode_int(i) = put_head(1, Complement(i))
    BY <1>1 DEF encode_int
  <2>3. 1 \in 0..7
    OBVIOUS
  <2>4. /\ b[pos] \div 32 = 1
        /\ Argument(b, pos) = <<Complement(i), pos + Len(encode_int(i))>>
    <3>1. Carries(b, pos, put_head(1, Complement(i)))
      BY <2>2
    <3>2. /\ b[pos] \div 32 = 1
          /\ Argument(b, pos) = <<Complement(i), pos + Len(put_head(1, Complement(i)))>>
      BY <2>1, <2>3, <3>1, HeadRoundTrip
    <3> QED
      BY <2>2, <3>2
  <2>5. decode_int(1, Complement(i)) = <<"int", i>>
    BY <2>1 DEF decode_int
  <2> QED
    BY <2>1, <2>4, <2>5
<1>2. CASE ~Negative(i)
  <2>1. encode_int(i) = put_head(0, i)
    BY <1>2 DEF encode_int
  <2>2. 0 \in 0..7
    OBVIOUS
  <2>3. /\ b[pos] \div 32 = 0
        /\ Argument(b, pos) = <<i, pos + Len(encode_int(i))>>
    <3>1. Carries(b, pos, put_head(0, i))
      BY <2>1
    <3>2. /\ b[pos] \div 32 = 0
          /\ Argument(b, pos) = <<i, pos + Len(put_head(0, i))>>
      BY <2>2, <3>1, HeadRoundTrip
    <3> QED
      BY <2>1, <3>2
  <2>4. decode_int(0, i) = <<"int", i>>
    BY <1>2 DEF decode_int
  <2> QED
    BY <2>3, <2>4
<1> QED
  BY <1>1, <1>2

-----------------------------------------------------------------------------
(***************************************************************************)
(* put_head writes the shortest head: whatever head decode_item accepts,   *)
(* the one written for its argument is not longer, and a head of the same  *)
(* length is the same bytes.  So one argument has one canonical head.      *)
(***************************************************************************)
THEOREM HeadShortest ==
  ASSUME NEW b \in Seq(Byte), NEW pos \in 1..Len(b), NEW arg \in Words, NEW next \in Nat,
         Argument(b, pos) = <<arg, next>>
  PROVE  LET head == put_head(b[pos] \div 32, arg)
         IN /\ pos + Len(head) <= next
            /\ pos + Len(head) = next => Carries(b, pos, head)
<1> DEFINE x == b[pos]
           major == x \div 32
           ai == x % 32
           head == put_head(major, arg)
<1>0. Len(b) \in Nat /\ x \in Byte
  OBVIOUS
<1>1. major \in 0..7 /\ ai \in 0..31 /\ x = major * 32 + ai
  <2> HIDE DEF x
  <2> QED
    BY <1>0, Z3 DEF Byte
<1> HIDE DEF x, major, ai
<1>2. CASE ai < 24
  <2>1. Argument(b, pos) = <<Bytes8(ai), pos + 1>>
    BY <1>2, Zenon DEF Argument, ai, x
  <2>2. arg = Bytes8(ai) /\ next = pos + 1
    BY <2>1
  <2>3. arg[8] = ai /\ \A k \in 1..7 : arg[k] = 0
    <3>1. ai \in 0..23
      BY <1>1, <1>2
    <3> QED
      BY <2>2, <3>1, SmallBytes, Zenon
  <2>4. IsImmediate(arg)
    <3>1. \A k \in 1..(8 - 1) : k \in 1..7
      OBVIOUS
    <3> QED
      BY <1>2, <2>3, <3>1, Zenon DEF IsImmediate, Fits
  <2>5. Len(head) = 1 /\ head[1] = major * 32 + arg[8]
    BY <1>1, <2>4, NarrowHead, Zenon
  <2> HIDE DEF head
  <2>6. head[1] = b[pos]
    BY <1>1, <2>3, <2>5 DEF x
  <2>7. Carries(b, pos, head)
    <3>1. pos + 1 - 1 <= Len(b)
      BY <1>0
    <3>2. \A k \in 1..1 : b[pos + k - 1] = head[k]
      BY <2>6
    <3> QED
      BY <2>5, <3>1, <3>2, Zenon DEF Carries
  <2>8. pos + Len(head) <= next
    BY <1>0, <2>2, <2>5
  <2> QED
    BY <2>7, <2>8 DEF head, major, x
<1>3. CASE ~(ai < 24)
  <2> DEFINE j == ai - 23
             w == Widths[j]
  <2>1. Argument(b, pos) # Reject
    BY DEF Reject
  <2>2. ~(ai >= 28) /\ Argument(b, pos) = read_be(b, pos + 1, w)
    BY <1>3, <2>1, Zenon DEF Argument, ai, x
  <2>3. j \in 1..4 /\ ai = 23 + j
    BY <1>1, <1>3, <2>2
  <2> HIDE DEF j
  <2>4. w \in 1..8
    BY <2>3, WidthIs
  <2> HIDE DEF w
  <2> DEFINE v == [k \in 1..8 |-> IF k <= 8 - w THEN 0 ELSE b[(pos + 1) + k - 9 + w]]
  <2>5. ~(w > Len(b) - (pos + 1) + 1) /\ read_be(b, pos + 1, w) = <<v, pos + 1 + w>>
    BY <2>1, <2>2, Zenon DEF read_be
  <2>6. arg = v /\ next = pos + 1 + w
    <3> HIDE DEF v
    <3> QED
      BY <2>2, <2>5
  <2>7. Fits(arg, w) /\ \A k \in 1..w : b[pos + k] = arg[8 - w + k]
    <3>1. \A k \in 1..8 : arg[k] = IF k <= 8 - w THEN 0 ELSE b[(pos + 1) + k - 9 + w]
      BY <2>6
    <3>2. \A k \in 1..(8 - w) : k \in 1..8 /\ k <= 8 - w
      BY <2>4
    <3>3. ASSUME NEW k \in 1..w PROVE b[pos + k] = arg[8 - w + k]
      <4>1. 8 - w + k \in 1..8 /\ ~(8 - w + k <= 8 - w) /\ (pos + 1) + (8 - w + k) - 9 + w = pos + k
        BY <1>0, <2>4
      <4> QED
        BY <3>1, <4>1
    <3> QED
      BY <3>1, <3>2, <3>3 DEF Fits
  <2>8. CASE IsImmediate(arg)
    <3>1. Len(head) = 1
      BY <1>1, <2>8, NarrowHead, Zenon
    <3> HIDE DEF head
    <3>2. pos + Len(head) < next
      BY <1>0, <2>4, <2>6, <3>1
    <3>3. pos + Len(head) <= next /\ pos + Len(head) # next
      BY <1>0, <2>4, <2>6, <3>1
    <3> QED
      BY <3>3 DEF head, major, x
  <2>9. CASE ~IsImmediate(arg)
    <3>1. PICK i \in 1..4 : Narrowest(arg, i) /\ IsWide(head, major, arg, i, Widths[i])
      BY <1>1, <2>9, WideHead, Zenon
    <3>2. i <= j
      <4> SUFFICES ASSUME ~(i <= j) PROVE FALSE
        OBVIOUS
      <4>1. j \in 1..(i - 1)
        BY <2>3
      <4> QED
        BY <2>7, <3>1, <4>1 DEF Narrowest, w
    <3> DEFINE u == Widths[i]
    <3>3. u \in 1..8 /\ u <= w /\ (u = w => i = j)
      <4>1. w \in 1..8 /\ (j = 1 => w = 1) /\ (j = 2 => w = 2) /\ (j = 3 => w = 4) /\ (j = 4 => w = 8)
        BY <2>3, WidthIs DEF w
      <4>2. u \in 1..8 /\ (i = 1 => u = 1) /\ (i = 2 => u = 2) /\ (i = 3 => u = 4) /\ (i = 4 => u = 8)
        BY WidthIs
      <4> HIDE DEF u
      <4> QED
        BY <2>3, <3>2, <4>1, <4>2
    <3> HIDE DEF u, head
    <3>4. /\ Len(head) = 1 + u /\ head[1] = major * 32 + 23 + i
          /\ \A k \in 1..u : head[1 + k] = arg[8 - u + k]
      BY <3>1 DEF IsWide, u
    <3>5. pos + Len(head) <= next
      BY <1>0, <2>4, <2>6, <3>3, <3>4
    <3>6. ASSUME pos + Len(head) = next PROVE Carries(b, pos, head)
      <4>1. u = w /\ i = j
        BY <1>0, <2>4, <2>6, <3>3, <3>4, <3>6
      <4>2. pos + Len(head) - 1 <= Len(b)
        BY <1>0, <2>4, <2>5, <3>4, <4>1
      <4>3. ASSUME NEW k \in 1..Len(head) PROVE b[pos + k - 1] = head[k]
        <5>1. CASE k = 1
          <6>1. pos + k - 1 = pos
            BY <1>0, <5>1
          <6>2. head[1] = b[pos]
            BY <1>1, <2>3, <3>4, <4>1 DEF x
          <6> QED
            BY <5>1, <6>1, <6>2
        <5>2. CASE k # 1
          <6>1. k - 1 \in 1..w /\ 1 + (k - 1) = k /\ pos + k - 1 = pos + (k - 1)
            BY <1>0, <2>4, <3>4, <4>1, <5>2
          <6>2. b[pos + (k - 1)] = arg[8 - w + (k - 1)]
            BY <2>7, <6>1
          <6>3. head[1 + (k - 1)] = arg[8 - w + (k - 1)]
            BY <3>4, <4>1, <6>1
          <6> QED
            BY <6>1, <6>2, <6>3
        <5> QED
          BY <5>1, <5>2
      <4> QED
        BY <4>2, <4>3 DEF Carries
    <3> QED
      BY <3>5, <3>6 DEF head, major, x
  <2> QED
    BY <2>8, <2>9
<1> QED
  BY <1>2, <1>3

-----------------------------------------------------------------------------
\* The numeric order of unsigned words.
Less(a, c) == \E k \in 1..8 : a[k] < c[k] /\ \A m \in 1..(k - 1) : a[m] = c[m]

LEMMA LessAsymmetric ==
  ASSUME NEW a \in Words, NEW c \in Words, Less(a, c)
  PROVE  ~Less(c, a)
<1> SUFFICES ASSUME Less(c, a) PROVE FALSE
  OBVIOUS
<1>0. \A k \in 1..8 : a[k] \in Int /\ c[k] \in Int
  BY DEF Words, Byte
<1>1. PICK k \in 1..8 : a[k] < c[k] /\ \A m \in 1..(k - 1) : a[m] = c[m]
  BY DEF Less
<1>2. PICK l \in 1..8 : c[l] < a[l] /\ \A m \in 1..(l - 1) : c[m] = a[m]
  BY DEF Less
<1>3. CASE k < l
  <2>1. k \in 1..(l - 1)
    BY <1>3
  <2> QED
    BY <1>0, <1>1, <1>2, <2>1
<1>4. CASE l < k
  <2>1. l \in 1..(k - 1)
    BY <1>4
  <2> QED
    BY <1>0, <1>1, <1>2, <2>1
<1>5. CASE k = l
  BY <1>0, <1>1, <1>2, <1>5
<1> QED
  BY <1>3, <1>4, <1>5

\* More leading zeros, a smaller number.
LEMMA ZerosLess ==
  ASSUME NEW a \in Words, NEW c \in Words, NEW n \in 0..8,
         \A k \in 1..n : a[k] = 0, NEW l \in 1..n, c[l] # 0
  PROVE  Less(a, c)
<1> DEFINE T == {k \in 1..n : c[k] # 0}
<1>1. T \subseteq Nat /\ T # {}
  OBVIOUS
<1> HIDE DEF T
<1>2. PICK k \in T : \A m \in T : k <= m
  BY <1>1, LeastNat, Zenon
<1>3. k \in 1..n /\ c[k] # 0 /\ k \in 1..8
  BY <1>2 DEF T
<1>4. ASSUME NEW m \in 1..(k - 1) PROVE a[m] = c[m]
  <2>1. m \in 1..n /\ ~(k <= m)
    BY <1>3
  <2>2. c[m] = 0
    BY <1>2, <2>1 DEF T
  <2> QED
    BY <2>1, <2>2
<1>5. a[k] < c[k]
  <2>1. a[k] = 0 /\ c[k] \in Byte
    BY <1>3 DEF Words
  <2> QED
    BY <1>3, <2>1 DEF Byte
<1> QED
  BY <1>3, <1>4, <1>5 DEF Less

\* The first byte decides when it differs.
LEMMA FirstDecides ==
  ASSUME NEW x \in Seq(Byte), NEW y \in Seq(Byte), Len(x) >= 1, Len(y) >= 1, x[1] < y[1]
  PROVE  Before(x, y) /\ ~Before(y, x)
<1>0. Len(x) \in Nat /\ Len(y) \in Nat /\ x[1] \in Int /\ y[1] \in Int
  <2>1. 1 \in 1..Len(x) /\ 1 \in 1..Len(y)
    OBVIOUS
  <2>2. x[1] \in Byte /\ y[1] \in Byte
    BY <2>1
  <2> QED
    BY <2>2 DEF Byte
<1>1. Before(x, y)
  <2>1. 1 \in 1..Len(y) /\ 1..(1 - 1) = {}
    BY <1>0
  <2> QED
    BY <2>1 DEF Before
<1>2. ASSUME Before(y, x) PROVE FALSE
  <2>1. PICK k \in 1..Len(x) : /\ \A i \in 1..(k - 1) : i <= Len(y) /\ y[i] = x[i]
                               /\ k > Len(y) \/ y[k] < x[k]
    BY <1>2 DEF Before
  <2>2. CASE k = 1
    BY <1>0, <2>1, <2>2
  <2>3. CASE k # 1
    <3>1. 1 \in 1..(k - 1)
      BY <1>0, <2>3
    <3> QED
      BY <1>0, <2>1, <3>1
  <2> QED
    BY <2>2, <2>3
<1> QED
  BY <1>1, <1>2

\* The five forms of a head, 0 the immediate one.
Form(head, major, arg, j) ==
  \/ /\ j = 0 /\ IsImmediate(arg)
     /\ head \in Seq(Byte) /\ Len(head) = 1 /\ head[1] = major * 32 + arg[8]
     /\ arg[8] \in 0..23 /\ \A k \in 1..7 : arg[k] = 0
  \/ j \in 1..4 /\ ~IsImmediate(arg) /\ Narrowest(arg, j) /\ IsWide(head, major, arg, j, Widths[j])

LEMMA HeadForm ==
  ASSUME NEW major \in 0..7, NEW arg \in Words
  PROVE  \E j \in 0..4 : Form(put_head(major, arg), major, arg, j)
<1>1. CASE IsImmediate(arg)
  <2>1. 0 \in 0..4
    OBVIOUS
  <2> QED
    BY <1>1, <2>1, NarrowHead DEF Form
<1>2. CASE ~IsImmediate(arg)
  <2>1. PICK j \in 1..4 : /\ Narrowest(arg, j)
                          /\ IsWide(put_head(major, arg), major, arg, j, Widths[j])
    BY <1>2, WideHead
  <2>2. j \in 0..4
    OBVIOUS
  <2> QED
    BY <1>2, <2>1, <2>2 DEF Form
<1> QED
  BY <1>1, <1>2

\* What the first byte of a head says: its major type, and its form.
FirstByte(head, major, j) ==
  /\ head \in Seq(Byte) /\ Len(head) >= 1
  /\ head[1] \in (major * 32)..(major * 32 + 27)
  /\ j = 0 => head[1] < major * 32 + 24
  /\ j # 0 => head[1] = major * 32 + 23 + j

LEMMA FormFirst ==
  ASSUME NEW major \in 0..7, NEW arg \in Words, NEW j \in 0..4, NEW head,
         Form(head, major, arg, j)
  PROVE  FirstByte(head, major, j)
<1> USE DEF FirstByte
<1>1. CASE j = 0
  <2>1. /\ head \in Seq(Byte) /\ Len(head) = 1 /\ head[1] = major * 32 + arg[8]
        /\ arg[8] \in 0..23
    BY <1>1 DEF Form
  <2>2. head[1] \in (major * 32)..(major * 32 + 27) /\ head[1] < major * 32 + 24
    <3>1. \A t \in 0..23 : /\ major * 32 + t \in (major * 32)..(major * 32 + 27)
                           /\ major * 32 + t < major * 32 + 24
      OBVIOUS
    <3> QED
      BY <2>1, <3>1, Zenon
  <2> QED
    BY <1>1, <2>1, <2>2
<1>2. CASE j # 0
  <2>1. j \in 1..4 /\ IsWide(head, major, arg, j, Widths[j])
    BY <1>2 DEF Form
  <2>2. Widths[j] \in 1..8
    BY <2>1, WidthIs
  <2>3. head \in Seq(Byte) /\ Len(head) = 1 + Widths[j] /\ head[1] = major * 32 + 23 + j
    BY <2>1 DEF IsWide
  <2>4. Len(head) >= 1
    BY <2>2, <2>3
  <2>5. head[1] \in (major * 32)..(major * 32 + 27)
    BY <2>1, <2>3
  <2> QED
    BY <1>2, <2>3, <2>4, <2>5
<1> QED
  BY <1>1, <1>2

\* A number that takes a wider form is larger.
LEMMA WiderIsLarger ==
  ASSUME NEW a \in Words, NEW c \in Words, NEW i \in 0..4, NEW j \in 0..4, i < j,
         NEW x, NEW y, NEW major \in 0..7, Form(x, major, a, i), Form(y, major, c, j)
  PROVE  Less(a, c)
<1>0. \A k \in 1..8 : a[k] \in Byte /\ c[k] \in Byte
  BY DEF Words
<1>1. j \in 1..4 /\ ~IsImmediate(c) /\ Fits(c, Widths[j]) /\ \A l \in 1..(j - 1) : ~Fits(c, Widths[l])
  BY DEF Form, Narrowest
<1>2. CASE j = 1
  <2>1. i = 0
    BY <1>2
  <2>2. a[8] \in 0..23 /\ \A k \in 1..7 : a[k] = 0
    BY <2>1 DEF Form
  <2>3. \A k \in 1..7 : c[k] = 0
    <3>1. Widths[1] = 1
      BY WidthIs
    <3>2. \A k \in 1..(8 - 1) : c[k] = 0
      BY <1>1, <1>2, <3>1 DEF Fits
    <3> QED
      BY <3>2
  <2>4. c[8] >= 24
    <3>1. Fits(c, 1)
      BY <2>3 DEF Fits
    <3>2. ~(c[8] < 24) /\ c[8] \in Byte
      BY <1>0, <1>1, <3>1 DEF IsImmediate
    <3> QED
      BY <3>2 DEF Byte
  <2>5. a[8] < c[8]
    <3>1. c[8] \in Nat
      BY <1>0 DEF Byte
    <3> QED
      BY <2>2, <2>4, <3>1
  <2>6. \A m \in 1..(8 - 1) : a[m] = c[m]
    BY <2>2, <2>3
  <2>7. 8 \in 1..8
    OBVIOUS
  <2> QED
    BY <2>5, <2>6, <2>7 DEF Less
<1>3. CASE j # 1
  <2> DEFINE n == 8 - Widths[j - 1]
  <2>1. j - 1 \in 1..(j - 1) /\ j - 1 \in 1..4
    BY <1>1, <1>3
  <2>2. n \in 0..7
    BY <2>1, WidthIs
  <2>3. ~Fits(c, Widths[j - 1])
    BY <1>1, <2>1
  <2>4. PICK l \in 1..n : c[l] # 0
    BY <2>3 DEF Fits
  <2>5. \A k \in 1..n : a[k] = 0
    <3>1. CASE i = 0
      <4>1. \A k \in 1..7 : a[k] = 0
        BY <3>1, SMTT(30) DEF Form
      <4>2. \A k \in 1..n : k \in 1..7
        BY <2>2
      <4> HIDE DEF n
      <4> QED
        BY <4>1, <4>2
    <3>2. CASE i # 0
      <4>1. i \in 1..4 /\ Fits(a, Widths[i])
        BY <3>2 DEF Form, Narrowest
      <4>2. i <= j - 1
        OBVIOUS
      <4>3. /\ Widths[i] \in 1..8 /\ (i = 1 => Widths[i] = 1) /\ (i = 2 => Widths[i] = 2)
            /\ (i = 3 => Widths[i] = 4) /\ (i = 4 => Widths[i] = 8)
        BY <4>1, WidthIs
      <4>4. /\ Widths[j - 1] \in 1..8 /\ (j - 1 = 1 => Widths[j - 1] = 1)
            /\ (j - 1 = 2 => Widths[j - 1] = 2)
            /\ (j - 1 = 3 => Widths[j - 1] = 4) /\ (j - 1 = 4 => Widths[j - 1] = 8)
        BY <2>1, WidthIs
      <4>5. n <= 8 - Widths[i]
        BY <2>1, <4>1, <4>2, <4>3, <4>4
      <4>6. \A k \in 1..n : k \in 1..(8 - Widths[i])
        BY <2>2, <4>3, <4>5
      <4> HIDE DEF n
      <4> QED
        BY <4>1, <4>6 DEF Fits
    <3> QED
      BY <3>1, <3>2
  <2>6. n \in 0..8
    BY <2>2
  <2> HIDE DEF n
  <2> QED
    BY <2>4, <2>5, <2>6, ZerosLess
<1> QED
  BY <1>2, <1>3

\* Heads of one form compare as their arguments do.
LEMMA SameForm ==
  ASSUME NEW a \in Words, NEW c \in Words, NEW j \in 0..4, NEW major \in 0..7,
         NEW x, NEW y, Form(x, major, a, j), Form(y, major, c, j)
  PROVE  Before(x, y) <=> Less(a, c)
<1>0. \A k \in 1..8 : a[k] \in Byte /\ c[k] \in Byte
  BY DEF Words
<1>1. CASE j = 0
  <2>1. /\ Len(x) = 1 /\ x[1] = major * 32 + a[8] /\ \A k \in 1..7 : a[k] = 0
        /\ Len(y) = 1 /\ y[1] = major * 32 + c[8] /\ \A k \in 1..7 : c[k] = 0
    BY <1>1 DEF Form
  <2>2. a[8] \in Nat /\ c[8] \in Nat
    BY <1>0 DEF Byte
  <2>3. Before(x, y) <=> x[1] < y[1]
    <3>1. \A k \in 1..1 : k = 1 /\ ~(k > 1)
      OBVIOUS
    <3>2. 1 \in 1..1 /\ 1..(1 - 1) = {}
      OBVIOUS
    <3> QED
      BY <2>1, <3>1, <3>2 DEF Before
  <2>4. x[1] < y[1] <=> a[8] < c[8]
    BY <2>1, <2>2
  <2>5. Less(a, c) => a[8] < c[8]
    <3> SUFFICES ASSUME Less(a, c) PROVE a[8] < c[8]
      OBVIOUS
    <3>1. PICK k \in 1..8 : a[k] < c[k]
      BY DEF Less
    <3>2. k = 8
      <4> SUFFICES ASSUME k # 8 PROVE FALSE
        OBVIOUS
      <4>1. k \in 1..7
        OBVIOUS
      <4>2. a[k] = 0 /\ c[k] = 0
        BY <2>1, <4>1, Zenon
      <4> QED
        BY <3>1, <4>2
    <3> QED
      BY <3>1, <3>2
  <2>6. a[8] < c[8] => Less(a, c)
    <3>1. 8 \in 1..8 /\ \A m \in 1..(8 - 1) : m \in 1..7
      OBVIOUS
    <3>2. ASSUME NEW m \in 1..(8 - 1) PROVE a[m] = c[m]
      <4>1. m \in 1..7
        OBVIOUS
      <4>2. a[m] = 0
        BY <2>1, <4>1, Zenon
      <4>3. c[m] = 0
        BY <2>1, <4>1, Zenon
      <4> QED
        BY <4>2, <4>3
    <3> QED
      BY <3>1, <3>2, Zenon DEF Less
  <2> QED
    BY <2>3, <2>4, <2>5, <2>6, Zenon
<1>2. CASE j # 0
  <2> DEFINE w == Widths[j]
  <2>1. /\ j \in 1..4 /\ Fits(a, w) /\ Fits(c, w)
        /\ IsWide(x, major, a, j, w) /\ IsWide(y, major, c, j, w)
    BY <1>2 DEF Form, Narrowest
  <2>2. w \in 1..8
    BY <2>1, WidthIs
  <2> HIDE DEF w
  <2>3. \A k \in 1..(8 - w) : a[k] = c[k] /\ ~(a[k] < c[k])
    BY <2>1 DEF Fits
  <2>4. /\ Len(x) = 1 + w /\ Len(y) = 1 + w /\ x[1] = y[1] /\ x[1] \in Int
        /\ \A k \in 1..w : x[1 + k] = a[8 - w + k] /\ y[1 + k] = c[8 - w + k]
    BY <2>1 DEF IsWide
  <2>5. ASSUME Before(x, y) PROVE Less(a, c)
    <3>1. PICK k \in 1..Len(y) : /\ \A i \in 1..(k - 1) : i <= Len(x) /\ x[i] = y[i]
                                 /\ k > Len(x) \/ x[k] < y[k]
      BY <2>5 DEF Before
    <3>2. k \in 1..(1 + w) /\ x[k] < y[k]
      BY <2>2, <2>4, <3>1
    <3>3. k # 1
      BY <2>4, <3>2
    <3> DEFINE l == 8 - w + (k - 1)
    <3>4. k - 1 \in 1..w /\ 1 + (k - 1) = k /\ l \in 1..8
      BY <2>2, <3>2, <3>3
    <3>5. x[k] = a[l] /\ y[k] = c[l]
      <4>1. x[1 + (k - 1)] = a[l] /\ y[1 + (k - 1)] = c[l]
        BY <2>4, <3>4, Zenon
      <4> QED
        BY <3>4, <4>1
    <3>6. ASSUME NEW m \in 1..(l - 1) PROVE a[m] = c[m]
      <4>1. CASE m <= 8 - w
        <5>1. m \in 1..(8 - w)
          BY <2>2, <3>2, <4>1
        <5> QED
          BY <2>3, <5>1
      <4>2. CASE ~(m <= 8 - w)
        <5> DEFINE q == m - (8 - w)
        <5>1. q \in 1..w /\ 1 + q \in 1..(k - 1) /\ 8 - w + q = m
          BY <2>2, <3>2, <4>2
        <5> HIDE DEF q
        <5>2. x[1 + q] = a[8 - w + q] /\ y[1 + q] = c[8 - w + q]
          BY <2>4, <5>1, Zenon
        <5>3. x[1 + q] = y[1 + q]
          BY <3>1, <5>1, Zenon
        <5> QED
          BY <5>1, <5>2, <5>3
      <4> QED
        BY <4>1, <4>2
    <3> HIDE DEF l
    <3>7. a[l] < c[l]
      BY <3>2, <3>5
    <3> QED
      BY <3>4, <3>6, <3>7 DEF Less
  <2>6. ASSUME Less(a, c) PROVE Before(x, y)
    <3>1. PICK k \in 1..8 : a[k] < c[k] /\ \A m \in 1..(k - 1) : a[m] = c[m]
      BY <2>6 DEF Less
    <3>2. ~(k \in 1..(8 - w))
      BY <2>3, <3>1
    <3> DEFINE q == k - (8 - w)
    <3>3. q \in 1..w /\ 8 - w + q = k /\ 1 + q \in 1..Len(y)
      BY <2>2, <2>4, <3>2
    <3>4. x[1 + q] = a[k] /\ y[1 + q] = c[k]
      <4> HIDE DEF q
      <4>1. x[1 + q] = a[8 - w + q] /\ y[1 + q] = c[8 - w + q]
        BY <2>4, <3>3, Zenon
      <4> QED
        BY <3>3, <4>1
    <3>5. ASSUME NEW i \in 1..((1 + q) - 1) PROVE i <= Len(x) /\ x[i] = y[i]
      <4>1. i <= Len(x)
        BY <2>2, <2>4, <3>3
      <4>2. CASE i = 1
        BY <2>4, <4>1, <4>2
      <4>3. CASE i # 1
        <5>1. i - 1 \in 1..w /\ 1 + (i - 1) = i /\ 8 - w + (i - 1) \in 1..(k - 1)
          BY <2>2, <3>3, <4>3
        <5>2. x[1 + (i - 1)] = a[8 - w + (i - 1)] /\ y[1 + (i - 1)] = c[8 - w + (i - 1)]
          BY <2>4, <5>1, Zenon
        <5>3. a[8 - w + (i - 1)] = c[8 - w + (i - 1)]
          BY <3>1, <5>1, Zenon
        <5> QED
          BY <4>1, <5>1, <5>2, <5>3
      <4> QED
        BY <4>2, <4>3
    <3> HIDE DEF q
    <3>6. x[1 + q] < y[1 + q]
      BY <3>1, <3>4
    <3> QED
      BY <3>3, <3>5, <3>6 DEF Before
  <2> QED
    BY <2>5, <2>6
<1> QED
  BY <1>1, <1>2

LEMMA HeadOrder ==
  ASSUME NEW major \in 0..7, NEW a \in Words, NEW c \in Words
  PROVE  Before(put_head(major, a), put_head(major, c)) <=> Less(a, c)
<1> DEFINE x == put_head(major, a)
           y == put_head(major, c)
<1>1. PICK i \in 0..4 : Form(x, major, a, i)
  BY HeadForm
<1>2. PICK j \in 0..4 : Form(y, major, c, j)
  BY HeadForm
<1> HIDE DEF x, y
<1>3. /\ x \in Seq(Byte) /\ Len(x) >= 1 /\ x[1] \in (major * 32)..(major * 32 + 27)
      /\ (i = 0 => x[1] < major * 32 + 24) /\ (i # 0 => x[1] = major * 32 + 23 + i)
  <2>1. FirstByte(x, major, i)
    BY <1>1, FormFirst, Zenon
  <2> QED
    BY <2>1, Zenon DEF FirstByte
<1>4. /\ y \in Seq(Byte) /\ Len(y) >= 1 /\ y[1] \in (major * 32)..(major * 32 + 27)
      /\ (j = 0 => y[1] < major * 32 + 24) /\ (j # 0 => y[1] = major * 32 + 23 + j)
  <2>1. FirstByte(y, major, j)
    BY <1>2, FormFirst, Zenon
  <2> QED
    BY <2>1, Zenon DEF FirstByte
<1>5. CASE i = j
  BY <1>1, <1>2, <1>5, SameForm DEF x, y
<1>6. CASE i < j
  <2>1. Less(a, c)
    BY <1>1, <1>2, <1>6, WiderIsLarger
  <2>2. x[1] < y[1]
    BY <1>3, <1>4, <1>6
  <2>3. Before(x, y)
    BY <1>3, <1>4, <2>2, FirstDecides
  <2> QED
    BY <2>1, <2>3 DEF x, y
<1>7. CASE j < i
  <2>1. Less(c, a)
    BY <1>1, <1>2, <1>7, WiderIsLarger
  <2>2. ~Less(a, c)
    BY <2>1, LessAsymmetric
  <2>3. y[1] < x[1]
    BY <1>3, <1>4, <1>7
  <2>4. ~Before(x, y)
    BY <1>3, <1>4, <2>3, FirstDecides
  <2> QED
    BY <2>2, <2>4 DEF x, y
<1> QED
  BY <1>5, <1>6, <1>7

LEMMA WordIsSeq ==
  ASSUME NEW a \in Words
  PROVE  a \in Seq(Byte) /\ Len(a) = 8
<1>1. a \in [1..8 -> Byte] /\ 8 \in Nat
  BY DEF Words
<1>2. a \in Seq(Byte)
  <2>1. Seq(Byte) = UNION {[1..n -> Byte] : n \in Nat}
    BY SeqDef, Zenon
  <2> QED
    BY <1>1, <2>1, Zenon
<1>3. Len(a) = 8
  BY <1>1, <1>2
<1> QED
  BY <1>2, <1>3

\* A word with a byte in front of it.
LEMMA Prefixed ==
  ASSUME NEW s \in 0..1, NEW a \in Words
  PROVE  LET x == << s >> \o a
         IN x \in Seq(Byte) /\ Len(x) = 1 + 8 /\ x[1] = s /\ \A k \in 1..8 : x[1 + k] = a[k]
<1> DEFINE p == << s >>
<1>0. a \in Seq(Byte) /\ Len(a) = 8
  BY WordIsSeq
<1>1. s \in Byte
  BY DEF Byte
<1>2. p \in Seq(Byte) /\ Len(p) = 1 /\ p[1] = s
  BY <1>1
<1>3. 1 \in 1..1
  OBVIOUS
<1> HIDE DEF p
<1>4. /\ p \o a \in Seq(Byte) /\ Len(p \o a) = Len(p) + Len(a)
      /\ \A i \in 1..Len(p) : (p \o a)[i] = p[i]
      /\ \A i \in 1..Len(a) : (p \o a)[Len(p) + i] = a[i]
  BY <1>0, <1>2, BytesJoined, Zenon
<1>5. /\ p \o a \in Seq(Byte) /\ Len(p \o a) = 1 + 8 /\ (p \o a)[1] = s
      /\ \A k \in 1..8 : (p \o a)[1 + k] = a[k]
  BY <1>0, <1>2, <1>3, <1>4, Zenon
<1> QED
  BY <1>5, Zenon DEF p

LEMMA RankOrder ==
  ASSUME NEW s \in 0..1, NEW t \in 0..1, NEW a \in Words, NEW c \in Words
  PROVE  Before(<< s >> \o a, << t >> \o c) <=> s < t \/ (s = t /\ Less(a, c))
<1> DEFINE x == << s >> \o a
           y == << t >> \o c
<1>3. /\ x \in Seq(Byte) /\ Len(x) = 1 + 8 /\ x[1] = s /\ \A k \in 1..8 : x[1 + k] = a[k]
  BY Prefixed, Zenon
<1>4. /\ y \in Seq(Byte) /\ Len(y) = 1 + 8 /\ y[1] = t /\ \A k \in 1..8 : y[1 + k] = c[k]
  BY Prefixed, Zenon
<1> HIDE DEF x, y
<1>5. CASE s < t
  <2>1. Len(x) >= 1 /\ Len(y) >= 1 /\ x[1] < y[1]
    BY <1>3, <1>4, <1>5
  <2> QED
    BY <1>3, <1>4, <1>5, <2>1, FirstDecides, Zenon DEF x, y
<1>6. CASE t < s
  <2>1. Len(x) >= 1 /\ Len(y) >= 1 /\ y[1] < x[1]
    BY <1>3, <1>4, <1>6
  <2>2. ~Before(x, y)
    BY <1>3, <1>4, <2>1, FirstDecides, Zenon
  <2>3. ~(s < t) /\ s # t
    BY <1>6
  <2> QED
    BY <2>2, <2>3 DEF x, y
<1>7. CASE s = t
  <2>0. Len(x) = 9 /\ Len(y) = 9 /\ x[1] = y[1] /\ x[1] \in Int /\ ~(s < t)
    BY <1>3, <1>4, <1>7
  <2>1. ASSUME Before(x, y) PROVE Less(a, c)
    <3>1. PICK k \in 1..Len(y) : /\ \A i \in 1..(k - 1) : i <= Len(x) /\ x[i] = y[i]
                                 /\ k > Len(x) \/ x[k] < y[k]
      BY <2>1 DEF Before
    <3>2. k \in 1..9 /\ x[k] < y[k] /\ k # 1
      BY <2>0, <3>1
    <3>3. k - 1 \in 1..8 /\ 1 + (k - 1) = k
      BY <3>2
    <3>4. x[1 + (k - 1)] = a[k - 1] /\ y[1 + (k - 1)] = c[k - 1]
      BY <1>3, <1>4, <3>3, Zenon
    <3>5. a[k - 1] < c[k - 1]
      BY <3>2, <3>3, <3>4
    <3>6. ASSUME NEW m \in 1..((k - 1) - 1) PROVE a[m] = c[m]
      <4>1. m \in 1..8 /\ 1 + m \in 1..(k - 1)
        BY <3>2
      <4>2. x[1 + m] = a[m] /\ y[1 + m] = c[m]
        BY <1>3, <1>4, <4>1, Zenon
      <4>3. x[1 + m] = y[1 + m]
        BY <3>1, <4>1, Zenon
      <4> QED
        BY <4>2, <4>3
    <3> QED
      BY <3>3, <3>5, <3>6 DEF Less
  <2>2. ASSUME Less(a, c) PROVE Before(x, y)
    <3>1. PICK k \in 1..8 : a[k] < c[k] /\ \A m \in 1..(k - 1) : a[m] = c[m]
      BY <2>2 DEF Less
    <3>2. x[1 + k] = a[k] /\ y[1 + k] = c[k]
      BY <1>3, <1>4, Zenon
    <3>3. 1 + k \in 1..Len(y) /\ (1 + k) - 1 = k
      BY <2>0
    <3>4. ASSUME NEW i \in 1..k PROVE i <= Len(x) /\ x[i] = y[i]
      <4>1. i <= Len(x)
        BY <2>0
      <4>2. CASE i = 1
        BY <2>0, <4>1, <4>2
      <4>3. CASE i # 1
        <5>1. i - 1 \in 1..8 /\ 1 + (i - 1) = i /\ i - 1 \in 1..(k - 1)
          BY <4>3
        <5>2. x[1 + (i - 1)] = a[i - 1] /\ y[1 + (i - 1)] = c[i - 1]
          BY <1>3, <1>4, <5>1, Zenon
        <5>3. a[i - 1] = c[i - 1]
          BY <3>1, <5>1, Zenon
        <5> QED
          BY <4>1, <5>1, <5>2, <5>3
      <4> QED
        BY <4>2, <4>3
    <3>5. x[1 + k] < y[1 + k]
      BY <3>1, <3>2
    <3> QED
      BY <3>3, <3>4, <3>5 DEF Before
  <2> QED
    BY <1>7, <2>0, <2>1, <2>2 DEF x, y
<1> QED
  BY <1>5, <1>6, <1>7

(***************************************************************************)
(* Sorting a map's entries by the bytes of their encoded keys (encode_into)*)
(* puts integer keys in the order of RFC 8949: the non-negative ones by    *)
(* value, then the negative ones by distance from zero, for all 64-bit     *)
(* integers and across the widths of their heads.                          *)
(***************************************************************************)
THEOREM IntKeyOrder ==
  ASSUME NEW i \in Words, NEW j \in Words
  PROVE  Before(encode_int(i), encode_int(j)) <=> Before(IntRank(i), IntRank(j))
<1> DEFINE s(n) == IF Negative(n) THEN 1 ELSE 0
           u(n) == IF Negative(n) THEN Complement(n) ELSE n
<1>1. ASSUME NEW n \in Words
      PROVE  /\ s(n) \in 0..1 /\ u(n) \in Words
             /\ encode_int(n) = put_head(s(n), u(n)) /\ IntRank(n) = << s(n) >> \o u(n)
  <2>1. CASE Negative(n)
    BY <2>1, ComplementTwice DEF encode_int, IntRank
  <2>2. CASE ~Negative(n)
    BY <2>2 DEF encode_int, IntRank
  <2> QED
    BY <2>1, <2>2
<1> HIDE DEF s, u
<1>2. \A n \in 0..1 : n \in 0..7
  OBVIOUS
<1>3. s(i) \in 0..1 /\ s(j) \in 0..1 /\ s(i) \in 0..7 /\ s(j) \in 0..7 /\ u(i) \in Words /\ u(j) \in Words
  BY <1>1, <1>2
<1>4. Before(IntRank(i), IntRank(j)) <=> s(i) < s(j) \/ (s(i) = s(j) /\ Less(u(i), u(j)))
  <2>1. Before(<< s(i) >> \o u(i), << s(j) >> \o u(j))
          <=> s(i) < s(j) \/ (s(i) = s(j) /\ Less(u(i), u(j)))
    BY <1>3, RankOrder, Zenon
  <2>2. IntRank(i) = << s(i) >> \o u(i) /\ IntRank(j) = << s(j) >> \o u(j)
    BY <1>1, Zenon
  <2> QED
    BY <2>1, <2>2, Zenon
<1> DEFINE x == put_head(s(i), u(i))
           y == put_head(s(j), u(j))
<1>5. /\ x \in Seq(Byte) /\ Len(x) >= 1 /\ x[1] \in (s(i) * 32)..(s(i) * 32 + 27)
      /\ y \in Seq(Byte) /\ Len(y) >= 1 /\ y[1] \in (s(j) * 32)..(s(j) * 32 + 27)
  <2>1. PICK k \in 0..4 : Form(x, s(i), u(i), k)
    BY <1>3, HeadForm
  <2>2. PICK l \in 0..4 : Form(y, s(j), u(j), l)
    BY <1>3, HeadForm
  <2> HIDE DEF x, y
  <2>3. FirstByte(x, s(i), k) /\ FirstByte(y, s(j), l)
    BY <1>3, <2>1, <2>2, FormFirst, Zenon
  <2> QED
    BY <2>3, Zenon DEF FirstByte
<1>6. CASE s(i) = s(j)
  <2>1. Before(x, y) <=> Less(u(i), u(j))
    BY <1>3, <1>6, HeadOrder
  <2>2. ~(s(i) < s(j))
    BY <1>3, <1>6
  <2> QED
    BY <1>1, <1>4, <1>6, <2>1, <2>2
<1>7. CASE s(i) < s(j)
  <2> HIDE DEF x, y
  <2>1. x[1] < y[1]
    BY <1>3, <1>5, <1>7
  <2>2. Before(x, y)
    BY <1>5, <2>1, FirstDecides
  <2> QED
    BY <1>1, <1>4, <1>7, <2>2 DEF x, y
<1>8. CASE s(j) < s(i)
  <2> HIDE DEF x, y
  <2>1. y[1] < x[1]
    BY <1>3, <1>5, <1>8
  <2>2. ~Before(x, y)
    BY <1>5, <2>1, FirstDecides
  <2>3. ~(s(i) < s(j)) /\ s(i) # s(j)
    BY <1>3, <1>8
  <2> QED
    BY <1>1, <1>4, <2>2, <2>3 DEF x, y
<1> QED
  BY <1>3, <1>6, <1>7, <1>8

-----------------------------------------------------------------------------
(***************************************************************************)
(* The control stream.                                                     *)
(***************************************************************************)
Cells == [msg : Messages, at : Nat \ {0}]

\* Two pieces of the stream put together, and three.
LEMMA Joined ==
  ASSUME NEW x \in Seq(Cells), NEW y \in Seq(Cells)
  PROVE  /\ x \o y \in Seq(Cells) /\ Len(x \o y) = Len(x) + Len(y)
         /\ \A i \in 1..Len(x) : (x \o y)[i] = x[i]
         /\ \A i \in 1..Len(y) : (x \o y)[Len(x) + i] = y[i]
OBVIOUS

LEMMA Rejoined ==
  ASSUME NEW x \in Seq(Cells), NEW y \in Seq(Cells), NEW z \in Seq(Cells)
  PROVE  x \o (y \o z) = (x \o y) \o z
BY ConcatAssociative, SMTT(30)

\* The cells of a frame on the stream.
FrameLen(m) == IF IsHuge(m) THEN PrefixCells ELSE FrameCells

LEMMA FrameShape ==
  ASSUME NEW m \in Messages
  PROVE  /\ Frame(m) \in Seq(Cells) /\ Len(Frame(m)) = FrameLen(m)
         /\ FrameLen(m) \in Nat /\ FrameLen(m) >= 2
         /\ \A i \in 1..FrameLen(m) : Frame(m)[i] = [msg |-> m, at |-> i]
<1>1. FrameLen(m) \in Nat /\ FrameLen(m) >= 2
  BY CellsAssumption DEF FrameLen, PrefixCells, FrameCells
<1>2. Frame(m) = [i \in 1..FrameLen(m) |-> [msg |-> m, at |-> i]]
  BY DEF Frame, FrameLen
<1>3. \A i \in 1..FrameLen(m) : [msg |-> m, at |-> i] \in Cells
  BY <1>1 DEF Cells
<1> HIDE DEF FrameLen
<1>4. Frame(m) \in Seq(Cells) /\ Len(Frame(m)) = FrameLen(m)
  BY <1>1, <1>2, <1>3
<1> QED
  BY <1>1, <1>2, <1>4

\* A loop over n positions that keeps a value of T, and its values after each turn.
Turns(n, T) == [1..n -> [T -> T]]

IsLoop(g, n, T, base, turn) ==
  /\ g \in [0..n -> T]
  /\ g[0] = base
  /\ \A k \in 1..n : g[k] = turn[k][g[k - 1]]

\* Such a loop is well defined.
LEMMA Iterates ==
  ASSUME NEW n \in Nat, NEW T, NEW base \in T, NEW turn \in Turns(n, T)
  PROVE  \E g : IsLoop(g, n, T, base, turn)
<1> USE DEF Turns
<1> DEFINE Upto(j) == \E g : IsLoop(g, j, T, base, turn)
           P == {j \in 0..n : Upto(j)}
<1>1. Upto(0)
  <2> DEFINE g == [k \in 0..0 |-> base]
  <2>1. g \in [0..0 -> T] /\ g[0] = base /\ 1..0 = {}
    OBVIOUS
  <2> QED
    BY <2>1 DEF IsLoop
<1>2. ASSUME NEW j \in 0..(n - 1), Upto(j)
      PROVE  Upto(j + 1)
  <2>0. PICK g : IsLoop(g, j, T, base, turn)
    BY <1>2
  <2>1. g \in [0..j -> T] /\ g[0] = base /\ \A k \in 1..j : g[k] = turn[k][g[k - 1]]
    BY <2>0 DEF IsLoop
  <2> DEFINE h == [k \in 0..(j + 1) |-> IF k <= j THEN g[k] ELSE turn[j + 1][g[j]]]
  <2>2. g[j] \in T /\ turn[j + 1] \in [T -> T]
    BY <2>1
  <2>3. h \in [0..(j + 1) -> T]
    BY <2>1, <2>2
  <2>4. \A k \in 0..j : h[k] = g[k]
    OBVIOUS
  <2>5. h[j + 1] = turn[j + 1][g[j]]
    OBVIOUS
  <2> HIDE DEF h
  <2>6. ASSUME NEW k \in 1..(j + 1) PROVE h[k] = turn[k][h[k - 1]]
    <3>1. CASE k \in 1..j
      <4>1. k - 1 \in 0..j /\ k \in 0..j
        BY <3>1
      <4> QED
        BY <2>1, <2>4, <3>1, <4>1
    <3>2. CASE k = j + 1
      <4>1. k - 1 = j /\ j \in 0..j
        BY <3>2
      <4> QED
        BY <2>4, <2>5, <3>2, <4>1
    <3> QED
      BY <3>1, <3>2
  <2>7. h[0] = base
    BY <2>1, <2>4
  <2> QED
    BY <2>3, <2>6, <2>7 DEF IsLoop
<1> HIDE DEF Upto
<1>3. 0 \in P /\ \A i \in 0..(n - 1) : i \in P => i + 1 \in P
  BY <1>1, <1>2
<1>4. 0..n \subseteq P
  <2> HIDE DEF P
  <2> QED
    BY <1>3, SetInduction
<1>5. Upto(n)
  BY <1>4
<1> QED
  BY <1>5 DEF Upto

\* Flat is the only loop that puts frame after frame.
LEMMA FlatIs ==
  ASSUME NEW s \in Seq(Messages), NEW g,
         g[0] = << >>, \A k \in 1..Len(s) : g[k] = g[k - 1] \o Frame(s[k])
  PROVE  Flat(s) = g[Len(s)]
<1> DEFINE n == Len(s)
           Loop(f) == f = [k \in 0..n |-> IF k = 0 THEN << >> ELSE f[k - 1] \o Frame(s[k])]
           f == CHOOSE f : Loop(f)
           h == [k \in 0..n |-> g[k]]
           P == {k \in 0..n : f[k] = g[k]}
<1>0. n \in Nat
  OBVIOUS
<1>1. Loop(h)
  <2>1. \A k \in 1..n : k - 1 \in 0..n /\ h[k - 1] = g[k - 1] /\ k # 0
    BY <1>0
  <2>2. \A k \in 0..n : k = 0 \/ k \in 1..n
    BY <1>0
  <2> QED
    BY <2>1, <2>2
<1>2. Loop(f)
  <2> HIDE DEF Loop, h
  <2> QED
    BY <1>1
<1>3. Flat(s) = f[n]
  BY DEF Flat
<1>4. f[0] = << >> /\ \A k \in 1..n : f[k] = f[k - 1] \o Frame(s[k])
  <2> HIDE DEF f
  <2> QED
    BY <1>0, <1>2
<1> HIDE DEF f
<1>5. 0 \in P /\ \A i \in 0..(n - 1) : i \in P => i + 1 \in P
  <2>1. 0 \in P
    BY <1>0, <1>4
  <2>2. ASSUME NEW i \in 0..(n - 1), i \in P
        PROVE  i + 1 \in P
    <3>1. i + 1 \in 1..n /\ i + 1 \in 0..n /\ (i + 1) - 1 = i
      BY <1>0
    <3>2. f[i + 1] = f[i] \o Frame(s[i + 1]) /\ g[i + 1] = g[i] \o Frame(s[i + 1])
      BY <1>4, <3>1
    <3>3. f[i] = g[i]
      BY <2>2
    <3> QED
      BY <3>1, <3>2, <3>3
  <2> QED
    BY <2>1, <2>2
<1>6. 0..n \subseteq P
  <2> HIDE DEF P, n
  <2> QED
    BY <1>0, <1>5, SetInduction
<1>7. n \in P
  BY <1>0, <1>6
<1> QED
  BY <1>3, <1>7

LEMMA FlatLoop ==
  ASSUME NEW s \in Seq(Messages)
  PROVE  \E g \in [0..Len(s) -> Seq(Cells)] :
           /\ g[0] = << >>
           /\ \A k \in 1..Len(s) : g[k] = g[k - 1] \o Frame(s[k])
           /\ Flat(s) = g[Len(s)]
<1> DEFINE n == Len(s)
           T == Seq(Cells)
           base == << >>
           turn == [k \in 1..n |-> [c \in T |-> c \o Frame(s[k])]]
<1>0. n \in Nat /\ base \in T
  OBVIOUS
<1>1. \A k \in 1..n : Frame(s[k]) \in T
  BY FrameShape
<1>2. turn \in Turns(n, T)
  BY <1>1 DEF Turns
<1>7. PICK g : IsLoop(g, n, T, base, turn)
  <2> HIDE DEF n, T, turn, base
  <2> QED
    BY <1>0, <1>2, Iterates, Zenon
<1>3. g \in [0..n -> T] /\ g[0] = base /\ \A k \in 1..n : g[k] = turn[k][g[k - 1]]
  BY <1>7, Zenon DEF IsLoop
<1>4. ASSUME NEW k \in 1..n PROVE g[k] = g[k - 1] \o Frame(s[k])
  <2>1. k - 1 \in 0..n
    BY <1>0
  <2>2. g[k - 1] \in T
    BY <1>3, <2>1
  <2> QED
    BY <1>3, <2>2
<1>5. Flat(s) = g[n]
  BY <1>3, <1>4, FlatIs
<1> QED
  BY <1>3, <1>4, <1>5

\* Unread is the only loop that collects the messages of first cells.
LEMMA UnreadIs ==
  ASSUME NEW c \in Seq(Cells), NEW g, g[0] = << >>,
         \A k \in 1..Len(c) :
           g[k] = IF c[k].at = 1 THEN Append(g[k - 1], c[k].msg) ELSE g[k - 1]
  PROVE  Unread(c) = g[Len(c)]
<1> DEFINE n == Len(c)
           Add(x, k) == IF c[k].at = 1 THEN Append(x, c[k].msg) ELSE x
           Loop(f) == f = [k \in 0..n |-> IF k = 0 THEN << >> ELSE Add(f[k - 1], k)]
           f == CHOOSE f : Loop(f)
           h == [k \in 0..n |-> g[k]]
           P == {k \in 0..n : f[k] = g[k]}
<1>0. n \in Nat
  OBVIOUS
<1>1. Loop(h)
  <2>1. \A k \in 1..n : k - 1 \in 0..n /\ h[k - 1] = g[k - 1] /\ k # 0
    BY <1>0
  <2>2. \A k \in 0..n : k = 0 \/ k \in 1..n
    BY <1>0
  <2>3. \A k \in 1..n : g[k] = Add(g[k - 1], k)
    OBVIOUS
  <2> HIDE DEF Add
  <2> QED
    BY <2>1, <2>2, <2>3
<1>2. Loop(f)
  <2> HIDE DEF Loop, h
  <2> QED
    BY <1>1
<1>3. Unread(c) = f[n]
  BY DEF Unread
<1>4. f[0] = << >> /\ \A k \in 1..n : f[k] = Add(f[k - 1], k)
  <2> HIDE DEF f, Add
  <2> QED
    BY <1>0, <1>2
<1> HIDE DEF f
<1>5. 0 \in P /\ \A i \in 0..(n - 1) : i \in P => i + 1 \in P
  <2>1. 0 \in P
    BY <1>0, <1>4
  <2>2. ASSUME NEW i \in 0..(n - 1), i \in P
        PROVE  i + 1 \in P
    <3>1. i + 1 \in 1..n /\ i + 1 \in 0..n /\ (i + 1) - 1 = i
      BY <1>0
    <3>2. f[i + 1] = Add(f[i], i + 1) /\ g[i + 1] = Add(g[i], i + 1)
      BY <1>4, <3>1
    <3>3. f[i] = g[i]
      BY <2>2
    <3> QED
      BY <3>1, <3>2, <3>3
  <2> QED
    BY <2>1, <2>2
<1>6. 0..n \subseteq P
  <2> HIDE DEF P, n
  <2> QED
    BY <1>0, <1>5, SetInduction
<1>7. n \in P
  BY <1>0, <1>6
<1> QED
  BY <1>3, <1>7

LEMMA UnreadLoop ==
  ASSUME NEW c \in Seq(Cells)
  PROVE  \E g \in [0..Len(c) -> Seq(Messages)] :
           /\ g[0] = << >>
           /\ \A k \in 1..Len(c) :
                g[k] = IF c[k].at = 1 THEN Append(g[k - 1], c[k].msg) ELSE g[k - 1]
           /\ Unread(c) = g[Len(c)]
<1> DEFINE n == Len(c)
           T == Seq(Messages)
           base == << >>
           turn == [k \in 1..n |->
                      [x \in T |-> IF c[k].at = 1 THEN Append(x, c[k].msg) ELSE x]]
<1>0. n \in Nat /\ base \in T
  OBVIOUS
<1>1. \A k \in 1..n : c[k].msg \in Messages
  <2>1. \A k \in 1..n : c[k] \in Cells
    OBVIOUS
  <2>2. \A x \in Cells : x.msg \in Messages
    BY DEF Cells
  <2> QED
    BY <2>1, <2>2
<1>2. turn \in Turns(n, T)
  <2>1. ASSUME NEW k \in 1..n, NEW x \in T
        PROVE  (IF c[k].at = 1 THEN Append(x, c[k].msg) ELSE x) \in T
    BY <1>1
  <2> QED
    BY <2>1 DEF Turns
<1>7. PICK g : IsLoop(g, n, T, base, turn)
  <2> HIDE DEF n, T, turn, base
  <2> QED
    BY <1>0, <1>2, Iterates, Zenon
<1>3. g \in [0..n -> T] /\ g[0] = base /\ \A k \in 1..n : g[k] = turn[k][g[k - 1]]
  BY <1>7, Zenon DEF IsLoop
<1>4. ASSUME NEW k \in 1..n
      PROVE  g[k] = IF c[k].at = 1 THEN Append(g[k - 1], c[k].msg) ELSE g[k - 1]
  <2>1. k - 1 \in 0..n
    BY <1>0
  <2>2. g[k - 1] \in T
    BY <1>3, <2>1
  <2> QED
    BY <1>3, <2>2
<1>5. Unread(c) = g[n]
  BY <1>3, <1>4, UnreadIs
<1> QED
  BY <1>3, <1>4, <1>5

-----------------------------------------------------------------------------
\* A script is its first frame and the rest.
LEMMA FlatFirst ==
  ASSUME NEW s \in Seq(Messages), s # << >>
  PROVE  /\ Flat(s) = Frame(Head(s)) \o Flat(Tail(s))
         /\ Flat(Tail(s)) \in Seq(Cells)
<1> DEFINE n == Len(s)
           t == Tail(s)
<1>0. /\ n \in Nat \ {0} /\ t \in Seq(Messages) /\ Len(t) = n - 1
      /\ Head(s) = s[1] /\ s[1] \in Messages
      /\ \A k \in 1..(n - 1) : t[k] = s[k + 1]
  OBVIOUS
<1> HIDE DEF n, t
<1>1. PICK g \in [0..Len(t) -> Seq(Cells)] :
         /\ g[0] = << >>
         /\ \A k \in 1..Len(t) : g[k] = g[k - 1] \o Frame(t[k])
         /\ Flat(t) = g[Len(t)]
  BY <1>0, FlatLoop
<1>2. \A k \in 0..(n - 1) : g[k] \in Seq(Cells)
  BY <1>0, <1>1
<1> DEFINE F == Frame(s[1])
           h == [k \in 0..n |-> IF k = 0 THEN << >> ELSE F \o g[k - 1]]
<1>3. F \in Seq(Cells)
  BY <1>0, FrameShape
<1>4. ASSUME NEW k \in 1..n PROVE h[k] = h[k - 1] \o Frame(s[k])
  <2>1. CASE k = 1
    <3>1. h[k] = F \o << >> /\ h[k - 1] = << >>
      <4>1. 0 \in 0..n /\ 1 \in 0..n /\ k - 1 = 0
        BY <1>0, <2>1
      <4> HIDE DEF F
      <4>2. h[1] = F \o g[0] /\ h[0] = << >>
        BY <4>1
      <4> QED
        BY <1>1, <2>1, <4>1, <4>2
    <3>2. F \o << >> = F /\ << >> \o F = F
      BY <1>3, ConcatEmptySeq
    <3> QED
      BY <2>1, <3>1, <3>2
  <2>2. CASE k # 1
    <3>1. k - 1 \in 1..Len(t) /\ k - 2 \in 0..(n - 1) /\ (k - 1) - 1 = k - 2
          /\ k - 1 \in 0..n /\ k - 1 # 0 /\ k \in 0..n /\ k # 0 /\ (k - 1) + 1 = k
          /\ k - 1 \in 1..(n - 1)
      BY <1>0, <2>2
    <3>2. t[k - 1] = s[k]
      BY <1>0, <3>1
    <3>3. g[k - 1] = g[k - 2] \o Frame(s[k])
      BY <1>1, <3>1, <3>2
    <3>4. h[k] = F \o (g[k - 2] \o Frame(s[k])) /\ h[k - 1] = F \o g[k - 2]
      BY <3>1, <3>3
    <3>5. s[k] \in Messages /\ Frame(s[k]) \in Seq(Cells) /\ g[k - 2] \in Seq(Cells)
      <4>1. s[k] \in Messages
        BY <3>1 DEF n
      <4>2. Frame(s[k]) \in Seq(Cells)
        BY <4>1, FrameShape, Zenon
      <4>3. g[k - 2] \in Seq(Cells)
        BY <1>2, <3>1, Zenon
      <4> QED
        BY <4>1, <4>2, <4>3
    <3> HIDE DEF h, F
    <3>6. F \o (g[k - 2] \o Frame(s[k])) = (F \o g[k - 2]) \o Frame(s[k])
      <4>1. F \in Seq(Cells) /\ g[k - 2] \in Seq(Cells) /\ Frame(s[k]) \in Seq(Cells)
        BY <1>3, <3>5
      <4> QED
        BY <4>1, Rejoined, Zenon
    <3> QED
      BY <3>4, <3>6
  <2> QED
    BY <2>1, <2>2
<1>5. h[0] = << >> /\ h[n] = F \o g[n - 1]
  <2>1. 0 \in 0..n /\ n \in 0..n /\ n # 0
    BY <1>0
  <2> HIDE DEF F
  <2> QED
    BY <2>1
<1> HIDE DEF h
<1>6. Flat(s) = h[n]
  BY <1>4, <1>5, FlatIs DEF n
<1>7. Flat(t) = g[n - 1] /\ g[n - 1] \in Seq(Cells)
  BY <1>0, <1>1, <1>2
<1> QED
  BY <1>0, <1>5, <1>6, <1>7 DEF t

LEMMA FlatEmpty == Flat(<< >>) = << >>
<1> DEFINE s == << >>
           g == [k \in 0..0 |-> << >>]
<1>1. s \in Seq(Messages) /\ Len(s) = 0 /\ g[0] = << >> /\ 1..0 = {}
  OBVIOUS
<1>2. \A k \in 1..Len(s) : g[k] = g[k - 1] \o Frame(s[k])
  BY <1>1
<1> HIDE DEF s, g
<1>3. Flat(s) = g[Len(s)]
  BY <1>1, <1>2, FlatIs
<1> QED
  BY <1>1, <1>3 DEF s

LEMMA UnreadEmpty == Unread(<< >>) = << >>
<1> DEFINE c == << >>
           g == [k \in 0..0 |-> << >>]
<1>1. c \in Seq(Cells) /\ Len(c) = 0 /\ g[0] = << >> /\ 1..0 = {}
  OBVIOUS
<1>2. \A k \in 1..Len(c) :
        g[k] = IF c[k].at = 1 THEN Append(g[k - 1], c[k].msg) ELSE g[k - 1]
  BY <1>1
<1> HIDE DEF c, g
<1>3. Unread(c) = g[Len(c)]
  BY <1>1, <1>2, UnreadIs
<1> QED
  BY <1>1, <1>3 DEF c

\* The cells of a frame carry one message.
LEMMA UnreadFirst ==
  ASSUME NEW m \in Messages, NEW c \in Seq(Cells)
  PROVE  Unread(Frame(m) \o c) = << m >> \o Unread(c)
<1> DEFINE L == FrameLen(m)
           n == Len(c)
           d == Frame(m) \o c
<1>0. /\ n \in Nat /\ L \in Nat /\ L >= 2
      /\ d \in Seq(Cells) /\ Len(d) = L + n
      /\ \A i \in 1..L : d[i] = [msg |-> m, at |-> i]
      /\ \A i \in 1..n : d[L + i] = c[i]
  <2>1. /\ Frame(m) \in Seq(Cells) /\ Len(Frame(m)) = L /\ L \in Nat /\ L >= 2
        /\ \A i \in 1..L : Frame(m)[i] = [msg |-> m, at |-> i]
    BY FrameShape
  <2> HIDE DEF L
  <2>2. /\ d \in Seq(Cells) /\ Len(d) = L + Len(c)
        /\ \A i \in 1..L : d[i] = Frame(m)[i]
        /\ \A i \in 1..Len(c) : d[L + i] = c[i]
    BY <2>1, Joined, Zenon
  <2>3. \A i \in 1..L : d[i] = [msg |-> m, at |-> i]
    BY <2>1, <2>2, Zenon
  <2>4. n \in Nat
    OBVIOUS
  <2> QED
    BY <2>1, <2>2, <2>3, <2>4, Zenon DEF n
<1>1. PICK g \in [0..n -> Seq(Messages)] :
           /\ g[0] = << >>
           /\ \A k \in 1..n :
                g[k] = IF c[k].at = 1 THEN Append(g[k - 1], c[k].msg) ELSE g[k - 1]
           /\ Unread(c) = g[n]
  BY UnreadLoop
<1> DEFINE one == << m >>
           h == [k \in 0..(L + n) |-> IF k = 0 THEN << >>
                                      ELSE IF k <= L THEN one ELSE one \o g[k - L]]
<1> HIDE DEF L, n, d
<1>2. /\ h[0] = << >> /\ \A k \in 1..L : h[k] = one
      /\ \A k \in 1..n : h[L + k] = one \o g[k]
  <2>1. \A k \in 1..L : k \in 0..(L + n) /\ k # 0 /\ k <= L
    BY <1>0
  <2>2. \A k \in 1..n : L + k \in 0..(L + n) /\ L + k # 0 /\ ~(L + k <= L) /\ (L + k) - L = k
    BY <1>0
  <2>3. h[0] = << >>
    BY <1>0
  <2> QED
    BY <2>1, <2>2, <2>3
<1>3. one \in Seq(Messages) /\ one = Append(<< >>, m) /\ one \o << >> = one
  BY ConcatEmptySeq
<1> HIDE DEF h, one
<1>4. ASSUME NEW k \in 1..n PROVE h[L + k - 1] = one \o g[k - 1]
  <2>1. CASE k = 1
    <3>1. L + k - 1 = L /\ L \in 1..L /\ k - 1 = 0
      BY <1>0, <2>1
    <3> QED
      BY <1>1, <1>2, <1>3, <3>1
  <2>2. CASE k # 1
    <3>1. L + k - 1 = L + (k - 1) /\ k - 1 \in 1..n
      BY <1>0, <2>2
    <3> QED
      BY <1>2, <3>1
  <2> QED
    BY <2>1, <2>2
<1>5. ASSUME NEW k \in 1..(L + n)
      PROVE  h[k] = IF d[k].at = 1 THEN Append(h[k - 1], d[k].msg) ELSE h[k - 1]
  <2>1. CASE k = 1
    <3>1. 1 \in 1..L
      BY <1>0
    <3>2. d[k].at = 1 /\ d[k].msg = m /\ h[k - 1] = << >> /\ h[k] = one
      <4>1. d[1] = [msg |-> m, at |-> 1]
        BY <1>0, <3>1, Zenon
      <4>2. h[1] = one /\ h[0] = << >>
        BY <1>2, <3>1, Zenon
      <4>3. k - 1 = 0
        BY <2>1
      <4> QED
        BY <2>1, <4>1, <4>2, <4>3
    <3> QED
      BY <1>3, <3>2
  <2>2. CASE k \in 2..L
    <3>1. k \in 1..L /\ k - 1 \in 1..L /\ k # 1
      BY <1>0, <2>2
    <3>2. d[k].at = k /\ h[k] = one /\ h[k - 1] = one
      <4>1. d[k] = [msg |-> m, at |-> k]
        BY <1>0, <3>1, Zenon
      <4>2. h[k] = one /\ h[k - 1] = one
        BY <1>2, <3>1, Zenon
      <4> QED
        BY <4>1, <4>2
    <3> QED
      BY <3>1, <3>2
  <2>3. CASE k \in (L + 1)..(L + n)
    <3> DEFINE j == k - L
    <3>1. j \in 1..n /\ k = L + j /\ j - 1 \in 0..n
      BY <1>0, <2>3
    <3> HIDE DEF j
    <3>2. d[k] = c[j] /\ h[k] = one \o g[j] /\ h[k - 1] = one \o g[j - 1]
      <4>1. d[L + j] = c[j]
        BY <1>0, <3>1, Zenon
      <4>2. h[L + j] = one \o g[j]
        BY <1>2, <3>1, Zenon
      <4>3. h[L + j - 1] = one \o g[j - 1]
        BY <1>4, <3>1, Zenon
      <4>4. k - 1 = L + j - 1
        BY <1>0, <3>1
      <4> QED
        BY <3>1, <4>1, <4>2, <4>3, <4>4, Zenon
    <3>3. g[j] = IF c[j].at = 1 THEN Append(g[j - 1], c[j].msg) ELSE g[j - 1]
      BY <1>1, <3>1
    <3>4. g[j - 1] \in Seq(Messages) /\ c[j].msg \in Messages
      <4>1. c[j] \in Cells
        BY <3>1 DEF n
      <4>2. g[j - 1] \in Seq(Messages)
        BY <1>1, <3>1
      <4> QED
        BY <4>1, <4>2 DEF Cells
    <3>5. one \o Append(g[j - 1], c[j].msg) = Append(one \o g[j - 1], c[j].msg)
      BY <1>3, <3>4
    <3> QED
      BY <3>2, <3>3, <3>5
  <2> QED
    BY <1>0, <2>1, <2>2, <2>3
<1>6. Unread(d) = h[L + n]
  <2>1. d \in Seq(Cells) /\ Len(d) = L + n /\ h[0] = << >>
    BY <1>0, <1>2, Zenon
  <2>2. \A k \in 1..Len(d) : h[k] = IF d[k].at = 1 THEN Append(h[k - 1], d[k].msg) ELSE h[k - 1]
    BY <1>5, <2>1
  <2>3. Unread(d) = h[Len(d)]
    BY <2>1, <2>2, UnreadIs, Zenon
  <2> QED
    BY <2>1, <2>3
<1>7. h[L + n] = one \o g[n]
  <2>1. CASE n = 0
    <3>1. L + n = L /\ L \in 1..L
      BY <1>0, <2>1
    <3> QED
      BY <1>1, <1>2, <1>3, <2>1, <3>1
  <2>2. CASE n # 0
    <3>1. n \in 1..n
      BY <1>0, <2>2
    <3> QED
      BY <1>2, <3>1
  <2> QED
    BY <2>1, <2>2
<1> QED
  BY <1>1, <1>6, <1>7 DEF d, one

\* The cells of a script are cells, and what is unread of them is the script.
LEMMA UnreadFlat ==
  ASSUME NEW s \in Seq(Messages)
  PROVE  Flat(s) \in Seq(Cells) /\ Unread(Flat(s)) = s
<1> DEFINE Good(t) == Flat(t) \in Seq(Cells) /\ Unread(Flat(t)) = t
           P == {n \in 0..Len(s) : \A t \in Seq(Messages) : Len(t) = n => Good(t)}
<1>0. Len(s) \in Nat
  OBVIOUS
<1>1. 0 \in P
  <2>1. \A t \in Seq(Messages) : Len(t) = 0 => t = << >>
    BY EmptySeq
  <2>2. Good(<< >>)
    <3>1. << >> \in Seq(Cells)
      OBVIOUS
    <3> QED
      BY <3>1, FlatEmpty, UnreadEmpty, Zenon
  <2> HIDE DEF Good
  <2> QED
    BY <1>0, <2>1, <2>2
<1>2. ASSUME NEW n \in 0..(Len(s) - 1), n \in P
      PROVE  n + 1 \in P
  <2>1. ASSUME NEW t \in Seq(Messages), Len(t) = n + 1 PROVE Good(t)
    <3>1. t # << >> /\ Tail(t) \in Seq(Messages) /\ Len(Tail(t)) = n /\ Head(t) \in Messages
      BY <1>0, <2>1
    <3>2. Good(Tail(t))
      BY <1>2, <3>1
    <3>3. Flat(t) = Frame(Head(t)) \o Flat(Tail(t))
      BY <3>1, FlatFirst
    <3>4. Flat(Tail(t)) \in Seq(Cells) /\ Unread(Flat(Tail(t))) = Tail(t)
      BY <3>2
    <3>5. Flat(t) \in Seq(Cells)
      BY <3>1, <3>3, <3>4, FrameShape, ConcatProperties
    <3>6. Unread(Flat(t)) = << Head(t) >> \o Tail(t)
      BY <3>1, <3>3, <3>4, UnreadFirst
    <3>7. t = << Head(t) >> \o Tail(t)
      BY <3>1
    <3> QED
      BY <3>5, <3>6, <3>7
  <2> HIDE DEF Good
  <2> QED
    BY <1>0, <2>1
<1>3. 0..Len(s) \subseteq P
  <2> HIDE DEF P
  <2> QED
    BY <1>0, <1>1, <1>2, SetInduction
<1>4. Len(s) \in P
  BY <1>0, <1>3
<1> QED
  BY <1>4

\* The next chunk moves cells from the wire to the end of the buffer.
LEMMA ChunkKeeps ==
  ASSUME NEW r \in Seq(Cells), NEW w \in Seq(Cells), NEW n \in Nat, n <= Len(w)
  PROVE  /\ r \o SubSeq(w, 1, n) \in Seq(Cells) /\ Drop(n, w) \in Seq(Cells)
         /\ (r \o SubSeq(w, 1, n)) \o Drop(n, w) = r \o w
<1> DEFINE a == SubSeq(w, 1, n)
           b == SubSeq(w, n + 1, Len(w))
<1>1. /\ a \in Seq(Cells) /\ Len(a) = n
      /\ \A i \in 1..n : a[i] = w[i]
  OBVIOUS
<1>2. /\ b \in Seq(Cells) /\ Len(b) = Len(w) - n
      /\ \A i \in 1..(Len(w) - n) : b[i] = w[n + i]
  OBVIOUS
<1>3. Len(w) \in Nat /\ DOMAIN w = 1..Len(w)
  OBVIOUS
<1> HIDE DEF a, b
<1>4. a \o b = w
  <2>0. /\ a \o b \in Seq(Cells) /\ Len(a \o b) = Len(a) + Len(b)
        /\ \A i \in 1..Len(a) : (a \o b)[i] = a[i]
        /\ \A i \in 1..Len(b) : (a \o b)[Len(a) + i] = b[i]
    BY <1>1, <1>2, Joined, Zenon
  <2>1. Len(a \o b) = Len(w)
    BY <1>1, <1>2, <1>3, <2>0
  <2>2. ASSUME NEW i \in 1..Len(w) PROVE (a \o b)[i] = w[i]
    <3>1. CASE i <= n
      <4>1. i \in 1..n
        BY <1>3, <3>1
      <4> QED
        BY <1>1, <2>0, <4>1, Zenon
    <3>2. CASE ~(i <= n)
      <4>1. i - n \in 1..(Len(w) - n) /\ n + (i - n) = i
        BY <1>3, <3>2
      <4>2. (a \o b)[n + (i - n)] = b[i - n]
        BY <1>1, <1>2, <2>0, <4>1, Zenon
      <4>3. b[i - n] = w[n + (i - n)]
        BY <1>2, <4>1, Zenon
      <4> QED
        BY <4>1, <4>2, <4>3
    <3> QED
      BY <3>1, <3>2
  <2> HIDE DEF Cells
  <2> QED
    BY <2>0, <2>1, <2>2, SeqEqual
<1>6. (r \o a) \o b = r \o w
  BY <1>1, <1>2, <1>4, Rejoined, Zenon
<1>7. r \o a \in Seq(Cells)
  BY <1>1
<1> QED
  BY <1>2, <1>6, <1>7 DEF Drop, a, b

\* Two cells in the buffer belong to the first frame that is left, and a buffer that
\* holds all of it is left with the others when it is dropped.
LEMMA FirstFrame ==
  ASSUME NEW r \in Seq(Cells), NEW w \in Seq(Cells), NEW s \in Seq(Messages),
         r \o w = Flat(s), Len(r) >= 2
  PROVE  /\ s # << >> /\ Head(s) \in Messages /\ Tail(s) \in Seq(Messages)
         /\ Head(r).msg = Head(s)
         /\ ~IsHuge(Head(s)) /\ Len(r) >= FrameCells =>
              /\ Drop(FrameCells, r) \in Seq(Cells)
              /\ Drop(FrameCells, r) \o w = Flat(Tail(s))
<1>0. Len(r) \in Nat /\ Len(w) \in Nat /\ Len(r \o w) = Len(r) + Len(w)
  BY ConcatProperties
<1>1. s # << >>
  <2> SUFFICES ASSUME s = << >> PROVE FALSE
    OBVIOUS
  <2>1. Len(Flat(s)) = 0
    BY FlatEmpty
  <2> QED
    BY <1>0, <2>1
<1>2. Head(s) \in Messages /\ Tail(s) \in Seq(Messages)
  BY <1>1
<1> DEFINE m == Head(s)
           F == Frame(m)
           G == Flat(Tail(s))
           L == FrameLen(m)
<1>3. /\ F \in Seq(Cells) /\ Len(F) = L /\ L \in Nat /\ L >= 2
      /\ \A i \in 1..L : F[i] = [msg |-> m, at |-> i]
  BY <1>2, FrameShape
<1>4. r \o w = F \o G /\ G \in Seq(Cells)
  BY <1>1, FlatFirst
<1>5. m \in Messages
  BY <1>2
<1>6. ~IsHuge(m) => L = FrameCells
  BY DEF FrameLen
<1> HIDE DEF m, F, G, L
<1>7. /\ \A i \in 1..Len(r) : (r \o w)[i] = r[i]
      /\ \A i \in 1..Len(w) : (r \o w)[Len(r) + i] = w[i]
  OBVIOUS
<1>8. /\ \A i \in 1..Len(F) : (F \o G)[i] = F[i]
      /\ \A i \in 1..Len(G) : (F \o G)[Len(F) + i] = G[i]
      /\ Len(F \o G) = Len(F) + Len(G) /\ Len(G) \in Nat
  <2>1. Len(G) \in Nat
    BY <1>4
  <2> QED
    BY <1>3, <1>4, <2>1, Joined, Zenon
<1>9. Head(r).msg = m
  <2>1. 1 \in 1..Len(r) /\ 1 \in 1..L /\ 1 \in 1..Len(F)
    BY <1>0, <1>3
  <2>2. Head(r) = r[1]
    OBVIOUS
  <2>3. r[1] = F[1]
    <3>1. (r \o w)[1] = r[1]
      BY <1>7, <2>1, Zenon
    <3>2. (F \o G)[1] = F[1]
      BY <1>8, <2>1, Zenon
    <3> QED
      BY <1>4, <3>1, <3>2
  <2>4. F[1] = [msg |-> m, at |-> 1]
    BY <1>3, <2>1, Zenon
  <2> QED
    BY <2>2, <2>3, <2>4
<1>10. ASSUME Len(r) >= L
       PROVE  Drop(L, r) \in Seq(Cells) /\ Drop(L, r) \o w = G
  <2> DEFINE d == SubSeq(r, L + 1, Len(r))
  <2>1. /\ d \in Seq(Cells) /\ Len(d) = Len(r) - L
        /\ \A i \in 1..(Len(r) - L) : d[i] = r[L + i]
    BY <1>3, <1>10
  <2> HIDE DEF d
  <2>2. d \o w \in Seq(Cells) /\ Len(d \o w) = Len(G)
    BY <1>0, <1>3, <1>4, <1>8, <1>10, <2>1
  <2>3. ASSUME NEW i \in 1..Len(G) PROVE (d \o w)[i] = G[i]
    <3>1. G[i] = (r \o w)[L + i]
      BY <1>3, <1>4, <1>8
    <3>2. CASE i <= Len(r) - L
      <4>1. (d \o w)[i] = d[i] /\ d[i] = r[L + i]
        BY <1>0, <1>3, <1>8, <2>1, <3>2
      <4>2. L + i \in 1..Len(r)
        BY <1>0, <1>3, <1>8, <3>2
      <4> QED
        BY <1>7, <3>1, <4>1, <4>2
    <3>3. CASE ~(i <= Len(r) - L)
      <4> DEFINE j == i - (Len(r) - L)
      <4>1. Len(G) = (Len(r) - L) + Len(w)
        BY <1>0, <1>3, <1>4, <1>8
      <4>2. j \in 1..Len(w) /\ L + i = Len(r) + j /\ i = Len(d) + j
        BY <1>0, <1>3, <1>8, <2>1, <3>3, <4>1
      <4> HIDE DEF j
      <4>3. (d \o w)[Len(d) + j] = w[j]
        BY <2>1, <4>2
      <4> QED
        BY <1>7, <3>1, <4>2, <4>3
    <3> QED
      BY <3>2, <3>3
  <2>4. d \o w = G
    BY <1>4, <2>2, <2>3, SeqEqual
  <2> QED
    BY <2>1, <2>4 DEF Drop, d
<1> QED
  BY <1>1, <1>2, <1>6, <1>9, <1>10 DEF m, G

-----------------------------------------------------------------------------
\* What is left of the host's script while the session lives: the buffer and the wire
\* hold whole frames, however the chunks cut them.
FramesLeft == \E s \in Seq(Messages) : rx \o wire = Flat(s)

Ended == state \in {"Closed", "Failed"}

StreamInv ==
  /\ rx \in Seq(Cells) /\ wire \in Seq(Cells)
  /\ busy => ~Ended
  /\ ~Ended => FramesLeft

\* The messages the session still has to handle.
Inbox == IF Ended THEN << >> ELSE Unread(rx \o wire)

LEMMA StreamStarts == StreamInit => StreamInv /\ S!ScriptInit
<1> SUFFICES ASSUME StreamInit PROVE StreamInv /\ S!ScriptInit
  OBVIOUS
<1>1. PICK s \in Scripts : wire = Flat(s)
  BY DEF StreamInit
<1>2. s \in Seq(Messages)
  BY StreamScriptsAssumption
<1>3. Flat(s) \in Seq(Cells) /\ Unread(Flat(s)) = s
  BY <1>2, UnreadFlat
<1>4. rx = << >> /\ rx \in Seq(Cells) /\ wire \in Seq(Cells)
  BY <1>1, <1>3 DEF StreamInit
<1>5. rx \o wire = Flat(s)
  BY <1>1, <1>3, <1>4, ConcatEmptySeq
<1>6. state = "Connecting" /\ S!SessionInit /\ busy = FALSE
  BY DEF StreamInit, S!SessionInit
<1>7. ~Ended
  BY <1>6 DEF Ended
<1>8. FramesLeft
  BY <1>2, <1>5 DEF FramesLeft
<1>9. Inbox \in Scripts
  BY <1>3, <1>5, <1>7 DEF Inbox
<1>10. S!ScriptInit
  BY <1>6, <1>9 DEF S!ScriptInit, Inbox, Ended
<1> QED
  BY <1>4, <1>6, <1>7, <1>8, <1>10 DEF StreamInv

\* A session that has ended stays ended.
LEMMA ApiKeepsEnd ==
  ASSUME S!Api, Ended
  PROVE  state' = state
BY DEF S!Api, S!Connected, S!ConnectionLost, S!UserBye, S!on_tick, S!send_viewport, S!poll,
       S!Terminal, S!score, Ended

\* An over-long frame ends the session.
LEMMA HugeEnds ==
  ASSUME NEW m, IsHuge(m), S!handle_frame(m)
  PROVE  state' = "Failed"
BY DEF IsHuge, S!handle_frame, S!Rejected, S!Ignored, S!Bye, S!HostError, S!ClockPong,
       S!Reconfigure, S!Welcome, S!Configure, S!Start, S!OutOfTurn, S!Setup, S!fatal

\* What on_control_bytes leaves in the session when a chunk comes in, or the loop ends.
Untouched ==
  UNCHANGED <<state, step, config, active_features, synced, last_ping, last_viewport,
              out, log, now>>

LEMMA QuietStutters ==
  ASSUME Untouched, Inbox' = Inbox
  PROVE  UNCHANGED S!svars
BY DEF Untouched, Inbox, Ended, S!svars, S!score

LEMMA ArrivesStep ==
  ASSUME StreamInv, Arrives
  PROVE  StreamInv' /\ UNCHANGED S!svars
<1>1. PICK n \in 1..MaxChunk : on_control_bytes(n)
  BY DEF Arrives
<1>2. n \in Nat
  BY CellsAssumption
<1>3. /\ Untouched /\ ~busy /\ n <= Len(wire) /\ wire' = Drop(n, wire)
      /\ \/ ~Ended /\ rx' = rx \o SubSeq(wire, 1, n) /\ busy' = TRUE
         \/ Ended /\ rx' = rx /\ busy' = busy
  BY <1>1 DEF on_control_bytes, Untouched, Ended, S!Terminal
<1>4. /\ rx \in Seq(Cells) /\ wire \in Seq(Cells)
      /\ rx \o SubSeq(wire, 1, n) \in Seq(Cells) /\ Drop(n, wire) \in Seq(Cells)
      /\ (rx \o SubSeq(wire, 1, n)) \o Drop(n, wire) = rx \o wire
  BY <1>2, <1>3, ChunkKeeps DEF StreamInv
<1>5. (Ended)' = Ended
  BY <1>3 DEF Untouched, Ended
<1>6. CASE ~Ended
  <2>1. rx' \o wire' = rx \o wire
    BY <1>3, <1>4, <1>6
  <2>2. FramesLeft'
    BY <1>6, <2>1 DEF StreamInv, FramesLeft
  <2>3. Inbox' = Inbox
    BY <1>5, <1>6, <2>1 DEF Inbox
  <2>4. UNCHANGED S!svars
    BY <1>3, <2>3, QuietStutters
  <2>5. (rx \in Seq(Cells) /\ wire \in Seq(Cells))'
    BY <1>3, <1>4, <1>6
  <2> QED
    BY <1>5, <1>6, <2>2, <2>4, <2>5 DEF StreamInv
<1>7. CASE Ended
  <2>1. Inbox' = Inbox
    BY <1>5, <1>7 DEF Inbox
  <2>2. UNCHANGED S!svars
    BY <1>3, <2>1, QuietStutters
  <2>3. (rx \in Seq(Cells) /\ wire \in Seq(Cells))' /\ ~busy'
    BY <1>3, <1>4, <1>7
  <2> QED
    BY <1>5, <1>7, <2>2, <2>3 DEF StreamInv
<1> QED
  BY <1>6, <1>7

LEMMA LeaveStep ==
  ASSUME StreamInv, Leave
  PROVE  StreamInv' /\ UNCHANGED S!svars
<1>1. Untouched /\ rx' = rx /\ wire' = wire /\ busy' = FALSE
  BY DEF Leave, Leftover, Untouched
<1>2. (Ended)' = Ended
  BY <1>1 DEF Untouched, Ended
<1>3. Inbox' = Inbox
  BY <1>1, <1>2 DEF Inbox
<1>4. UNCHANGED S!svars
  BY <1>1, <1>3, QuietStutters
<1> QED
  BY <1>1, <1>2, <1>4 DEF StreamInv, FramesLeft

\* A message handled by the loop is the first of the inbox, and leaves the others.
LEMMA HandlesFirst ==
  ASSUME NEW s \in Seq(Messages), s # << >>, ~Ended, Inbox = s, NEW m, m = Head(s),
         S!handle_frame(m), Inbox' = IF (Ended)' THEN << >> ELSE Tail(s)
  PROVE  S!Receive
<1>1. Head(Inbox) = m /\ Tail(Inbox) = Tail(s) /\ Inbox # << >>
  OBVIOUS
<1>2. S!handle_frame(Head(Inbox))
  BY <1>1
<1>3. ~S!Terminal
  BY DEF S!Terminal, Ended
<1>4. S!Unread(Tail(Inbox))
  BY <1>1 DEF S!Unread, Inbox, Ended
<1> QED
  BY <1>1, <1>2, <1>3, <1>4 DEF S!Receive, Inbox, Ended

LEMMA OversizeStep ==
  ASSUME StreamInv, Oversize
  PROVE  StreamInv' /\ S!Receive
<1>1. /\ ~Ended /\ Len(rx) >= 2 /\ IsHuge(Head(rx).msg) /\ S!handle_frame(Head(rx).msg)
      /\ rx' = << >> /\ busy' = FALSE /\ wire' = wire
  BY DEF StreamInv, Oversize, PrefixThere, PrefixCells
<1>2. PICK s \in Seq(Messages) : rx \o wire = Flat(s)
  BY <1>1 DEF StreamInv, FramesLeft
<1>3. s # << >> /\ Head(rx).msg = Head(s)
  BY <1>1, <1>2, FirstFrame DEF StreamInv
<1>4. Inbox = s
  BY <1>1, <1>2, UnreadFlat DEF Inbox
<1>5. state' = "Failed"
  BY <1>1, HugeEnds
<1>6. (Ended)'
  BY <1>5 DEF Ended
<1>7. Inbox' = << >>
  BY <1>6 DEF Inbox
<1>8. S!Receive
  BY <1>1, <1>3, <1>4, <1>6, <1>7, HandlesFirst
<1>9. (rx \in Seq(Cells) /\ wire \in Seq(Cells))'
  BY <1>1 DEF StreamInv
<1> QED
  BY <1>1, <1>6, <1>8, <1>9 DEF StreamInv

LEMMA OneFrameStep ==
  ASSUME StreamInv, OneFrame
  PROVE  StreamInv' /\ S!Receive
<1>1. /\ ~Ended /\ Len(rx) >= 2 /\ Len(rx) >= FrameCells
      /\ ~IsHuge(Head(rx).msg) /\ S!handle_frame(Head(rx).msg) /\ wire' = wire
      /\ \/ (Ended)' /\ rx' = << >> /\ busy' = FALSE
         \/ ~(Ended)' /\ rx' = Drop(FrameCells, rx) /\ busy' = TRUE
  BY DEF StreamInv, OneFrame, PrefixThere, PrefixCells, FrameThere, Ended
<1>2. PICK s \in Seq(Messages) : rx \o wire = Flat(s)
  BY <1>1 DEF StreamInv, FramesLeft
<1>3. /\ s # << >> /\ Head(rx).msg = Head(s) /\ Tail(s) \in Seq(Messages)
      /\ Drop(FrameCells, rx) \in Seq(Cells)
      /\ Drop(FrameCells, rx) \o wire = Flat(Tail(s))
  BY <1>1, <1>2, FirstFrame DEF StreamInv
<1>4. Inbox = s
  BY <1>1, <1>2, UnreadFlat DEF Inbox
<1>5. Unread(Flat(Tail(s))) = Tail(s)
  BY <1>3, UnreadFlat
<1>6. Inbox' = IF (Ended)' THEN << >> ELSE Tail(s)
  BY <1>1, <1>3, <1>5 DEF Inbox
<1>7. S!Receive
  BY <1>1, <1>3, <1>4, <1>6, HandlesFirst
<1>8. (rx \in Seq(Cells) /\ wire \in Seq(Cells))'
  <2>1. << >> \in Seq(Cells) /\ wire \in Seq(Cells)
    BY DEF StreamInv
  <2> QED
    BY <1>1, <1>3, <2>1, Zenon
<1>9. ~(Ended)' => FramesLeft'
  BY <1>1, <1>3 DEF FramesLeft
<1> QED
  BY <1>1, <1>7, <1>8, <1>9 DEF StreamInv

LEMMA ApiStep ==
  ASSUME StreamInv, ~busy, S!Api, UNCHANGED <<rx, wire, busy>>
  PROVE  StreamInv' /\ S!Api /\ S!Unread(Inbox)
<1>1. Ended => (Ended)'
  BY ApiKeepsEnd DEF Ended
<1>2. Inbox' = IF (Ended)' THEN << >> ELSE Inbox
  BY <1>1 DEF Inbox
<1>3. S!Unread(Inbox)
  BY <1>2 DEF S!Unread, Inbox, Ended
<1>4. StreamInv'
  BY <1>1 DEF StreamInv, FramesLeft
<1> QED
  BY <1>3, <1>4

\* Every step keeps the invariant, and is a step of the session or a stutter.
LEMMA StreamStep ==
  ASSUME StreamInv, [StreamNext]_cvars
  PROVE  StreamInv' /\ [S!SessionNext]_S!svars
<1>1. CASE Arrives
  BY <1>1, ArrivesStep
<1>2. CASE Oversize
  BY <1>2, OversizeStep DEF S!SessionNext
<1>3. CASE OneFrame
  BY <1>3, OneFrameStep DEF S!SessionNext
<1>4. CASE Leave
  BY <1>4, LeaveStep
<1>5. CASE ~busy /\ S!Api /\ UNCHANGED <<rx, wire, busy>>
  BY <1>5, ApiStep DEF S!SessionNext, Inbox, Ended
<1>6. CASE UNCHANGED cvars
  <2>1. Untouched /\ rx' = rx /\ wire' = wire /\ busy' = busy
    BY <1>6 DEF cvars, Untouched
  <2>2. (Ended)' = Ended
    BY <2>1 DEF Untouched, Ended
  <2>3. Inbox' = Inbox
    BY <2>1, <2>2 DEF Inbox
  <2>4. UNCHANGED S!svars
    BY <2>1, <2>3, QuietStutters
  <2> QED
    BY <2>1, <2>2, <2>4 DEF StreamInv, FramesLeft
<1> QED
  BY <1>1, <1>2, <1>3, <1>4, <1>5, <1>6 DEF StreamNext, Running

(***************************************************************************)
(* on_control_bytes, for every frame length, every chunk length and every  *)
(* cut of the stream into chunks, does what handling the host's messages   *)
(* one after the other does (session.cpp, the loop over rx_).              *)
(***************************************************************************)
THEOREM StreamImplementsSession == StreamSpec => ChunkingInvisible
<1>1. StreamInit => StreamInv /\ S!ScriptInit
  BY StreamStarts
<1>2. StreamInv /\ [StreamNext]_cvars => StreamInv' /\ [S!SessionNext]_S!svars
  BY StreamStep
<1> QED
  BY <1>1, <1>2, PTL DEF StreamSpec, ChunkingInvisible, S!SessionSpec

=============================================================================
