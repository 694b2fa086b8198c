------------------------------ MODULE CborHead ------------------------------
(***************************************************************************)
(* proto::cbor below the level where items nest: the head of an item (its  *)
(* major type and its argument), integers, and the order of encoded keys.  *)
(* A 64-bit integer is its eight bytes, most significant first, in two's   *)
(* complement.                                                             *)
(***************************************************************************)
EXTENDS Integers, Sequences

Reject == <<"reject">>

\* Eight bytes of a small number, and back (every count in use fits).
Bytes8(n) ==
  <<0, 0, 0, 0, n \div 16777216, (n \div 65536) % 256, (n \div 256) % 256, n % 256>>
IsSmall(arg) == \A k \in 1..5 : arg[k] = 0
Small(arg) == arg[6] * 65536 + arg[7] * 256 + arg[8]

Complement(i) == [k \in 1..8 |-> 255 - i[k]]
Negative(i) == i[1] >= 128

-----------------------------------------------------------------------------
\* Encoding.  The head of an item is its major type and its argument, in the
\* initial byte or in 1, 2, 4 or 8 bytes after it.
Widths == <<1, 2, 4, 8>>

\* Fault: the largest argument of a width (255, 2^16 - 1, ...) takes the next one.
FitsBelow(arg, width) ==
  /\ \A k \in 1..(8 - width) : arg[k] = 0
  /\ \E k \in (9 - width)..8 : arg[k] < 255

Fits(arg, width) == \A k \in 1..(8 - width) : arg[k] = 0

\* Fault: 24 is taken for an immediate argument.
IsImmediateWide(arg) == Fits(arg, 1) /\ arg[8] <= 24

IsImmediate(arg) == Fits(arg, 1) /\ arg[8] < 24

put_head(major, arg) ==
  IF IsImmediate(arg) THEN <<major * 32 + arg[8]>>
  ELSE LET j == CHOOSE j \in 1..4 :
                  Fits(arg, Widths[j]) /\ \A i \in 1..(j - 1) : ~Fits(arg, Widths[i])
       IN <<major * 32 + 23 + j>> \o SubSeq(arg, 9 - Widths[j], 8)

encode_int(i) == IF Negative(i) THEN put_head(1, Complement(i)) ELSE put_head(0, i)

\* Bytewise lexicographic order, a prefix first.
Before(a, b) ==
  \E k \in 1..(Len(b)) :
     /\ \A i \in 1..(k - 1) : i <= Len(a) /\ a[i] = b[i]
     /\ k > Len(a) \/ a[k] < b[k]

\* The order RFC 8949 gives integer keys: the non-negative ones by value, then the
\* negative ones by their distance from zero.
IntRank(i) == IF Negative(i) THEN <<1>> \o Complement(i) ELSE <<0>> \o i

-----------------------------------------------------------------------------
\* Decoding, from position pos (the first byte is at 1).

\* Fault: bytes beyond the end read as zero.
read_bePastEnd(b, pos, n) ==
  <<[k \in 1..8 |-> IF k <= 8 - n \/ pos + k - 9 + n > Len(b) THEN 0
                    ELSE b[pos + k - 9 + n]], pos + n>>

read_be(b, pos, n) ==
  IF n > Len(b) - pos + 1 THEN Reject
  ELSE <<[k \in 1..8 |-> IF k <= 8 - n THEN 0 ELSE b[pos + k - 9 + n]], pos + n>>

\* The argument of the head at pos: 28 to 31 are not supported.
Argument(b, pos) ==
  LET ai == b[pos] % 32
  IN IF ai < 24 THEN <<Bytes8(ai), pos + 1>>
     ELSE IF ai >= 28 THEN Reject
     ELSE read_be(b, pos + 1, Widths[ai - 23])

\* Major types 0 and 1; an argument beyond INT64_MAX does not fit.
decode_int(major, arg) ==
  IF Negative(arg) THEN Reject
  ELSE <<"int", IF major = 0 THEN arg ELSE Complement(arg)>>
=============================================================================
