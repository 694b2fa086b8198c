------------------------------- MODULE Codec -------------------------------
(***************************************************************************)
(* proto::cbor and proto::control: values and control frames to bytes and  *)
(* back.                                                                   *)
(*                                                                         *)
(* A value is a pair <<type, content>>.  A 64-bit integer is its eight     *)
(* bytes, most significant first (two's complement, so that the complement *)
(* of every byte is both -(i + 1) and -1 - arg).  A single-precision float *)
(* is <<sign, biased exponent, mantissa>>; a double is "f32" when a float  *)
(* holds it exactly, else "f64" with its eight bytes, or "nan".            *)
(*                                                                         *)
(* The link of DatagramLink carries values and control frames here besides *)
(* datagrams: encoded, damaged once or not at all, and decoded.            *)
(***************************************************************************)
EXTENDS DatagramLink, CborHead, SequencesExt

CONSTANTS
  Items,       \* what is encoded besides datagrams: values, and frames with a type and a body
  Damage       \* bytes an altered position of a frame's prefix may hold

-----------------------------------------------------------------------------
\* Encoding.  A half float is its 16 bits; a subnormal is normalised by the shift that
\* brings its leading bit to position 10.
f16_to_f32(h) ==
  LET s == h \div 32768
      e == (h \div 1024) % 32
      m == h % 1024
      k == CHOOSE k \in 1..10 : m * 2^k \in 1024..2047
  IN IF e = 0 /\ m = 0 THEN <<s, 0, 0>>
     ELSE IF e = 0 THEN <<s, 113 - k, (m * 2^k - 1024) * 8192>>
     ELSE IF e = 31 THEN <<s, 255, m * 8192>>
     ELSE <<s, e + 112, m * 8192>>

\* m / 2^shift, to the nearest, ties to even.
Rounded(m, shift) ==
  LET q == m \div 2^shift
      rem == m % 2^shift
      mid == 2^(shift - 1)
  IN IF rem > mid \/ (rem = mid /\ q % 2 = 1) THEN q + 1 ELSE q

f32_to_f16(f) ==
  LET sign == f[1] * 32768
      e == f[2] - 112
  IN IF f[2] = 255 THEN sign + 31744 + (IF f[3] = 0 THEN 0 ELSE 512)
     ELSE IF e >= 31 THEN sign + 31744
     ELSE IF e < -10 THEN sign
     ELSE IF e <= 0 THEN sign + Rounded(f[3] + 8388608, 14 - e)
     ELSE sign + Rounded(e * 8388608 + f[3], 13)

\* The bits of a float, and of the wider forms, as bytes.
Be16(h) == <<h \div 256, h % 256>>
Be32f(f) ==
  <<f[1] * 128 + f[2] \div 2, (f[2] % 2) * 128 + f[3] \div 65536>> \o Be16(f[3] % 65536)

\* The shortest form that keeps the value.
encode_float(d) ==
  CASE d[1] = "nan" -> <<249, 126, 0>>
    [] d[1] = "f32" ->
         LET h == f32_to_f16(d[2])
         IN IF f16_to_f32(h) = d[2] THEN <<249>> \o Be16(h) ELSE <<250>> \o Be32f(d[2])
    [] d[1] = "f64" -> <<251>> \o d[2]

\* The entries of a map in the order of their encoded keys.
Sorted(entries) == SortSeq(entries, LAMBDA a, b : Before(a[1], b[1]))

RECURSIVE encode_canonical(_)
encode_canonical(v) ==
  CASE v[1] = "null" -> <<246>>
    [] v[1] = "bool" -> <<IF v[2] THEN 245 ELSE 244>>
    [] v[1] = "int" -> encode_int(v[2])
    [] v[1] = "float" -> encode_float(v[2])
    [] v[1] = "bytes" -> put_head(2, Bytes8(Len(v[2]))) \o v[2]
    [] v[1] = "text" -> put_head(3, Bytes8(Len(v[2]))) \o v[2]
    [] v[1] = "array" ->
         put_head(4, Bytes8(Len(v[2])))
           \o FlattenSeq([k \in DOMAIN v[2] |-> encode_canonical(v[2][k])])
    [] v[1] = "map" ->
         LET entries == [k \in DOMAIN v[2] |->
                           <<encode_canonical(v[2][k][1]), encode_canonical(v[2][k][2])>>]
         IN put_head(5, Bytes8(Len(v[2]))) \o FlattenSeq(FlattenSeq(Sorted(entries)))

-----------------------------------------------------------------------------
\* Decoding, from position pos (the first byte is at 1).  A result is the value and
\* the position after it, or Reject.

\* A float that is not a number is "nan" whatever its payload.
Floating(f) == <<"float", IF f[2] = 255 /\ f[3] # 0 THEN <<"nan">> ELSE <<"f32", f>>>>

\* Major type 7: only false, true, null and the floats are in use.
decode_simple(ai, arg) ==
  CASE ai = 20 -> <<"bool", FALSE>>
    [] ai = 21 -> <<"bool", TRUE>>
    [] ai = 22 -> <<"null">>
    [] ai = 25 -> Floating(f16_to_f32(Small(arg)))
    [] ai = 26 -> Floating(<<arg[5] \div 128, (arg[5] % 128) * 2 + arg[6] \div 128,
                             (arg[6] % 128) * 65536 + arg[7] * 256 + arg[8]>>)
    [] ai = 27 -> <<"float", <<"f64", arg>>>>
    [] OTHER -> Reject

\* Byte and text strings: the argument is checked against what is left.
decode_string(type, b, pos, arg) ==
  IF ~IsSmall(arg) \/ Small(arg) > Len(b) - pos + 1 THEN Reject
  ELSE <<<<type, SubSeq(b, pos, pos + Small(arg) - 1)>>, pos + Small(arg)>>

\* n items from pos on, the values already read before them.  A count that does not
\* fit is larger than the bytes left, so some item of it is missing.
RECURSIVE decode_item(_, _), decode_items(_, _, _, _)
decode_items(b, pos, n, done) ==
  IF n = 0 THEN <<done, pos>>
  ELSE LET one == decode_item(b, pos)
       IN IF one = Reject THEN Reject
          ELSE decode_items(b, one[2], n - 1, Append(done, one[1]))

Many(b, pos, arg, each) ==
  IF IsSmall(arg) THEN decode_items(b, pos, each * Small(arg), << >>) ELSE Reject

decode_item(b, pos) ==
  IF pos > Len(b) \/ Argument(b, pos) = Reject THEN Reject
  ELSE LET major == b[pos] \div 32
           arg == Argument(b, pos)[1]
           next == Argument(b, pos)[2]
           many == Many(b, next, arg, major - 3)
           simple == decode_simple(b[pos] % 32, arg)
           int == decode_int(major, arg)
       IN CASE major \in {0, 1} -> IF int = Reject THEN Reject ELSE <<int, next>>
            [] major = 2 -> decode_string("bytes", b, next, arg)
            [] major = 3 -> decode_string("text", b, next, arg)
            [] major = 4 -> IF many = Reject THEN Reject ELSE <<<<"array", many[1]>>, many[2]>>
            [] major = 5 ->
                 IF many = Reject THEN Reject
                 ELSE <<<<"map", [k \in 1..(Len(many[1]) \div 2) |->
                                    <<many[1][2 * k - 1], many[1][2 * k]>>]>>, many[2]>>
            [] major = 7 -> IF simple = Reject THEN Reject ELSE <<simple, next>>
            [] OTHER -> Reject

decode(b) == LET r == decode_item(b, 1) IN IF r = Reject THEN Reject ELSE r[1]

-----------------------------------------------------------------------------
\* Control frames.
kMaxFrameBody == 65536

\* The body keys of every known message type.
known_keys ==
  [t \in {1, 2, 3, 4, 5, 16, 32, 33, 34, 48, 49, 64, 65, 80, 81, 82, 83} |->
     CASE t = 1 -> 0..5                     \* HELLO
       [] t = 2 -> 0..3                     \* WELCOME
       [] t = 3 -> 0..6                     \* CONFIG
       [] t = 33 -> 0..7                    \* STATS
       [] t = 49 -> 0..2                    \* CLOCK_PONG
       [] t \in {16, 32, 64, 81, 83} -> 0..1
       [] t = 5 -> {}                       \* START
       [] OTHER -> {0}]

Be32n(n) == SubSeq(Bytes8(n), 5, 8)

encode_frame(type, body) ==
  LET payload == encode_canonical(<<"array", <<<<"int", Bytes8(type)>>, <<"map", body>>>>>>)
  IN Be32n(Len(payload)) \o payload

\* The envelope: an array of a non-negative integer and a map.
IsEnvelope(v) ==
  /\ v[1] = "array"
  /\ Len(v[2]) = 2
  /\ v[2][1][1] = "int" /\ ~Negative(v[2][1][2])
  /\ v[2][2][1] = "map"

IsKnown(type) == IsSmall(type) /\ Small(type) \in DOMAIN known_keys

\* Keys of other types, and integers the type does not know, are dropped.
Filtered(type, body) ==
  SelectSeq(body, LAMBDA e : e[1] \in {<<"int", Bytes8(k)>> : k \in known_keys[Small(type)]})

\* A frame is looked at only when its prefix is there, allowed and satisfied.
WholeFrame(b) ==
  /\ Len(b) >= 4
  /\ b[1] = 0
  /\ LET len == b[2] * 65536 + b[3] * 256 + b[4]
     IN len <= kMaxFrameBody /\ len <= Len(b) - 4

decode_frame(b) ==
  LET len == b[2] * 65536 + b[3] * 256 + b[4]
      v == decode(SubSeq(b, 5, 4 + len))
  IN IF ~WholeFrame(b) THEN Reject
     ELSE IF v = Reject \/ ~IsEnvelope(v) THEN Reject
     ELSE IF ~IsKnown(v[2][1][2]) THEN <<"ignored">>
     ELSE <<"message", v[2][1][2], Filtered(v[2][1][2], v[2][2][2])>>

-----------------------------------------------------------------------------
\* The machine.
Encoded(item) ==
  IF item.kind = "value" THEN encode_canonical(item.value)
  ELSE encode_frame(item.type, item.body)

KInit ==
  \/ LinkInit
  \/ sent \in Items /\ packet = Encoded(sent) /\ harm = 0 /\ heard = Unheard

\* One byte of a frame's prefix is another one.
AlterPrefix(i, x) == x # packet[i] /\ Garble(i, x)

Decode ==
  /\ heard = Unheard
  /\ heard' = IF sent.kind = "value" THEN decode(packet) ELSE decode_frame(packet)
  /\ UNCHANGED <<sent, packet, harm>>

KNext ==
  \/ sent.kind = "datagram" /\ LinkNext
  \/ /\ sent.kind # "datagram" /\ harm = 0
     /\ \E n \in 0..(Len(packet) - 1) : CutShort(n)
  \/ sent.kind = "frame" /\ harm = 0 /\ \E i \in 1..4, x \in Damage : AlterPrefix(i, x)
  \/ sent.kind # "datagram" /\ Decode

KSpec == KInit /\ [][KNext]_dvars

-----------------------------------------------------------------------------
(***************************************************************************)
(* Properties                                                              *)
(***************************************************************************)
\* The order RFC 8949 gives integer and text keys: the integers first, then texts by
\* length and letters.
Rank(k) ==
  CASE k[1] = "int" -> IntRank(k[2])
    [] k[1] = "text" -> <<3>> \o Bytes8(Len(k[2])) \o k[2]

\* A value with the entries of its maps in that order.
RECURSIVE Canonical(_)
Canonical(v) ==
  CASE v[1] = "array" -> <<"array", [k \in DOMAIN v[2] |-> Canonical(v[2][k])]>>
    [] v[1] = "map" ->
         <<"map", SortSeq([k \in DOMAIN v[2] |-> <<v[2][k][1], Canonical(v[2][k][2])>>],
                          LAMBDA a, b : Before(Rank(a[1]), Rank(b[1])))>>
    [] OTHER -> v

\* What an undamaged item must decode to: a value to itself in canonical order, a
\* frame of an unknown type to nothing, one of a known type to its known keys.
Expected ==
  CASE sent.kind = "value" -> Canonical(sent.value)
    [] sent.kind = "frame" ->
         IF sent.type \notin DOMAIN known_keys THEN <<"ignored">>
         ELSE <<"message", Bytes8(sent.type),
                SelectSeq(Canonical(<<"map", sent.body>>)[2],
                          LAMBDA e : \E k \in known_keys[sent.type] : e[1] = <<"int", Bytes8(k)>>)>>

\* Encoding and decoding are inverse up to the canonical order, at every width of an
\* argument and a float; a datagram comes back as DatagramLink says (cbor.cpp
\* encode_into and decode_item, control.cpp, datagram.cpp).
RoundTrip ==
  /\ sent.kind = "datagram" => ReceivedAsSent
  /\ sent.kind # "datagram" /\ harm = 0 /\ heard # Unheard => heard = Expected

\* A value or a frame that lost its end, or a frame whose length prefix is not the
\* one that was sent, is rejected: nothing is made up from missing bytes
\* (read_be, decode_item, decode_frame).
DamageRejected ==
  sent.kind # "datagram" /\ harm > 0 /\ heard # Unheard => heard = Reject

\* Every number a half float can hold.
Halves == {f16_to_f32(h) : h \in 0..65535}

\* The bytes the shortest head of an argument takes: 1 below 24, else the initial byte
\* and 1, 2, 4 or 8 more, by how many bytes of the argument are left without its zeros.
HeadBytes(arg) ==
  LET left == 8 - Cardinality({k \in 1..8 : \A i \in 1..k : arg[i] = 0})
  IN CASE left <= 1 -> IF arg[8] < 24 THEN 1 ELSE 2
       [] left = 2 -> 3
       [] left \in {3, 4} -> 5
       [] OTHER -> 9

\* The bytes the shortest encoding of a value takes.
RECURSIVE Shortest(_)
Shortest(v) ==
  CASE v[1] \in {"null", "bool"} -> 1
    [] v[1] = "int" -> HeadBytes(IF Negative(v[2]) THEN Complement(v[2]) ELSE v[2])
    [] v[1] = "float" ->
         IF v[2][1] = "nan" \/ (v[2][1] = "f32" /\ v[2][2] \in Halves) THEN 3
         ELSE IF v[2][1] = "f32" THEN 5 ELSE 9
    [] v[1] \in {"bytes", "text"} -> HeadBytes(Bytes8(Len(v[2]))) + Len(v[2])
    [] v[1] = "array" ->
         FoldSeq(LAMBDA item, n : Shortest(item) + n, HeadBytes(Bytes8(Len(v[2]))), v[2])
    [] v[1] = "map" ->
         FoldSeq(LAMBDA e, n : Shortest(e[1]) + Shortest(e[2]) + n,
                 HeadBytes(Bytes8(Len(v[2]))), v[2])

\* One value has one encoding, the shortest: the entries of a map may come in any
\* order; the head of an integer, a string or a container is as narrow as its argument
\* allows, and a float is a half exactly when some half holds its value (put_head,
\* encode_into, encode_float, f32_to_f16).
CanonicalEncoding ==
  sent.kind = "value" /\ harm = 0 /\ heard = Unheard =>
    /\ Len(packet) = Shortest(sent.value)
    /\ packet = encode_canonical(Canonical(sent.value))
    /\ sent.value[1] = "map" => packet = encode_canonical(<<"map", Reverse(sent.value[2])>>)
=============================================================================
