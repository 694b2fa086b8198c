------------------------------ MODULE MCCodec ------------------------------
(***************************************************************************)
(* Codec at the boundaries: integers around every width of the head and    *)
(* the limits of 64 bits, floats around every form, strings and containers *)
(* around 24 and 256, frames of known and unknown types, headers that are  *)
(* valid and that break each rule, payloads up to and beyond the longest.  *)
(***************************************************************************)
EXTENDS Codec

High(n) == [k \in 1..8 |-> IF k <= 8 - n THEN 0 ELSE IF k = 9 - n THEN 1 ELSE 0]
Ones(n) == [k \in 1..8 |-> IF k <= 8 - n THEN 0 ELSE 255]

\* 2^8, 2^16, 2^32 and the numbers below them; INT64_MAX; small ones.
Magnitudes ==
  {Bytes8(n) : n \in {0, 1, 23, 24, 25}}
    \cup {High(n) : n \in {2, 3, 5}} \cup {Ones(n) : n \in {1, 2, 4}}
    \cup {[Ones(8) EXCEPT ![1] = 127]}

Ints == UNION {{<<"int", i>>, <<"int", Complement(i)>>} : i \in Magnitudes}

\* Halves at the ends of the subnormal, normal and infinite ranges, and the floats
\* next to them; floats no half comes near.
EdgeHalves == {0, 1, 2, 511, 512, 1023, 1024, 1025, 15360, 31743, 31744}
Near(f) == {f} \cup {<<f[1], f[2], m>> : m \in {f[3] + 1, f[3] + 4096, f[3] - 1} \cap 0..8388607}
Floats ==
  {<<0, 0, 1>>, <<0, 102, 0>>, <<0, 102, 1>>, <<0, 101, 8388607>>, <<0, 142, 8384512>>,
   <<1, 143, 0>>, <<0, 254, 8388607>>} \cup
  UNION {Near(f16_to_f32(h + s * 32768)) : h \in EdgeHalves, s \in 0..1}
Doubles ==
  {<<"float", <<"f32", f>>>> : f \in {g \in Floats : g[2] # 255 \/ g[3] = 0}} \cup
  {<<"float", <<"nan">>>>, <<"float", <<"f64", <<63, 185, 153, 153, 153, 153, 153, 154>>>>>>}

Fill(n) == [k \in 1..n |-> 65 + (k % 3)]
Strings == {<<t, Fill(n)>> : t \in {"bytes", "text"}, n \in {0, 1, 23, 24, 255, 256}}

Num(n) == <<"int", Bytes8(n)>>
Key(n) == IF n >= 0 THEN Num(n) ELSE <<"int", Complement(Bytes8(-n - 1))>>
Text(s) == <<"text", s>>
MapOf(keys) == [k \in DOMAIN keys |-> <<keys[k], Num(k)>>]

Maps ==
  {<<"map", MapOf(s)>> :
     s \in {<< >>, <<Key(1), Key(0)>>, <<Key(24), Key(-1), Key(23), Key(0)>>,
            <<Key(256), Key(255), Key(-25), Key(-24)>>,
            <<Text(<<66>>), Text(<<65, 65>>), Key(-1), Text(<<65>>), Text(<< >>)>>}}
Containers ==
  Maps \cup {<<"array", [k \in 1..n |-> Num(k)]>> : n \in {0, 1, 23, 24}} \cup
  {<<"array", <<m, <<"null">>, <<"array", <<m, <<"bool", TRUE>>>>>>>>>> : m \in Maps}

Values == Ints \cup Doubles \cup Strings \cup Containers
            \cup {<<"null">>, <<"bool", TRUE>>, <<"bool", FALSE>>}

Bodies == {MapOf(<< >>), MapOf(<<Key(1), Key(0)>>), MapOf(<<Key(7), Key(2), Key(0), Key(8)>>),
           MapOf(<<Key(3), Text(<<65>>), Key(-1), Key(6)>>)}

EdgeHeaders ==
  {make_header(k, s, 16909060, i, n) :
     k \in BOOLEAN, s \in {0, 2, 258}, i \in {0, 1, 255, 256}, n \in {0, 1, 2, 256, 257}}
    \cup {[make_header(TRUE, 1, 7, 0, 2) EXCEPT !.last = TRUE]}

MCFragments ==
  {[kind |-> "datagram", header |-> h, payload |-> Fill(1), extra |-> {2}] :
     h \in EdgeHeaders}
    \cup {[kind |-> "datagram", header |-> make_header(TRUE, 0, 1, 0, 1),
           payload |-> Fill(n), extra |-> {}] : n \in {1338, 1339}}

MCItems ==
  {[kind |-> "value", value |-> v] : v \in Values} \cup
  {[kind |-> "frame", type |-> t, body |-> b] :
     t \in {1, 2, 3, 4, 5, 6, 16, 33, 49, 83, 300}, b \in Bodies}

\* Below 128: TLC has 31 bits for frame_seq.
MCNoise == {0, 2, 127}
MCDamage == {0, 1, 2, 3, 7, 76, 127}
=============================================================================
