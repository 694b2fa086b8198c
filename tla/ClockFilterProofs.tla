------------------------- MODULE ClockFilterProofs -------------------------
(***************************************************************************)
(* Theorems about ClockFilter, for every window length, every clock        *)
(* difference and all delays.                                              *)
(***************************************************************************)
EXTENDS ClockFilter, SequenceTheorems, WellFoundedInduction, TLAPS

\* The order of the natural numbers, as a well-founded relation.
LEMMA NatOrder ==
  \E R : IsWellFoundedOn(R, Nat) /\ \A x, y \in Nat : <<x, y>> \in R <=> x < y
<1> DEFINE R == OpToRel(<, Nat)
<1>1. IsWellFoundedOn(R, Nat)
  BY NatLessThanWellFounded
<1>2. \A x, y \in Nat : <<x, y>> \in R <=> x < y
  BY DEF OpToRel
<1> QED
  BY <1>1, <1>2, Zenon

\* Every non-empty set of natural numbers has a least element.
LEMMA LeastNat ==
  ASSUME NEW T, T \subseteq Nat, T # {}
  PROVE  \E n \in T : \A m \in T : n <= m
<1>1. PICK R : IsWellFoundedOn(R, Nat) /\ \A x, y \in Nat : <<x, y>> \in R <=> x < y
  BY NatOrder
<1>0. IsWellFoundedOn(R, Nat)
  BY <1>1
<1>2. PICK n \in T : \A m \in T : ~(<<m, n>> \in R)
  BY <1>0, WFMin
<1>3. \A m \in T : ~(m < n)
  BY <1>1, <1>2, Zenon
<1>4. \A m \in T : n <= m
  BY <1>3
<1> QED
  BY <1>4

\* Induction over 0..n for a set of numbers.
LEMMA SetInduction ==
  ASSUME NEW n \in Nat, NEW P, 0 \in P, \A i \in 0..(n - 1) : i \in P => i + 1 \in P
  PROVE  0..n \subseteq P
<1> SUFFICES ASSUME (0..n) \ P # {} PROVE FALSE
  OBVIOUS
<1> DEFINE T == (0..n) \ P
<1>0. T \subseteq Nat /\ T # {}
  OBVIOUS
<1> HIDE DEF T
<1>1. PICK k \in T : \A m \in T : k <= m
  BY <1>0, LeastNat, Zenon
<1> USE DEF T
<1>2. k \in Nat /\ k # 0 /\ k - 1 \in 0..(n - 1)
  BY <1>1
<1>3. k - 1 \in P
  BY <1>1, <1>2
<1> QED
  BY <1>1, <1>2, <1>3

-----------------------------------------------------------------------------
\* One iteration of the loop in push, at position i with g the results so far.
Body(w, g, i) ==
  IF i = 1 THEN w[1] ELSE IF w[i].rtt <= g[i - 1].rtt THEN w[i] ELSE g[i - 1]

\* The loop is well defined: there is a function that satisfies its recursion.
LEMMA ScanExists ==
  ASSUME NEW w \in Seq(Estimates)
  PROVE  \E g : g = [i \in 1..Len(w) |-> Body(w, g, i)]
<1> DEFINE Upto(n) == \E g : DOMAIN g = 1..n /\ \A i \in 1..n : g[i] = Body(w, g, i)
           P == {n \in 0..Len(w) : Upto(n)}
<1>0. Len(w) \in Nat
  OBVIOUS
<1>1. Upto(0)
  <2>1. DOMAIN << >> = 1..0 /\ 1..0 = {}
    OBVIOUS
  <2> QED
    BY <2>1
<1>2. ASSUME NEW n \in 0..(Len(w) - 1), Upto(n)
      PROVE  Upto(n + 1)
  <2>1. PICK g : DOMAIN g = 1..n /\ \A i \in 1..n : g[i] = Body(w, g, i)
    BY <1>2
  <2> DEFINE h == [i \in 1..(n + 1) |-> IF i <= n THEN g[i] ELSE Body(w, g, n + 1)]
  <2>2. DOMAIN h = 1..(n + 1)
    OBVIOUS
  <2>3. \A i \in 1..n : h[i] = g[i]
    BY <1>0
  <2>4. h[n + 1] = Body(w, g, n + 1)
    BY <1>0
  <2> HIDE DEF h
  <2>5. ASSUME NEW i \in 1..(n + 1) PROVE Body(w, h, i) = Body(w, g, i)
    BY <1>0, <2>3 DEF Body
  <2>6. ASSUME NEW i \in 1..(n + 1) PROVE h[i] = Body(w, h, i)
    <3>1. CASE i \in 1..n
      BY <2>1, <2>3, <2>5, <3>1
    <3>2. CASE i = n + 1
      BY <2>4, <2>5, <3>2
    <3> QED
      BY <1>0, <3>1, <3>2
  <2> QED
    BY <2>2, <2>6
<1> HIDE DEF Upto
<1>3. 0 \in P /\ \A i \in 0..(Len(w) - 1) : i \in P => i + 1 \in P
  BY <1>0, <1>1, <1>2
<1>4. 0..Len(w) \subseteq P
  <2> HIDE DEF P
  <2> QED
    BY <1>0, <1>3, SetInduction
<1>5. Upto(Len(w))
  BY <1>0, <1>4
<1>6. PICK g : DOMAIN g = 1..Len(w) /\ \A i \in 1..Len(w) : g[i] = Body(w, g, i)
  BY <1>5 DEF Upto
<1> DEFINE f == [i \in 1..Len(w) |-> g[i]]
<1>7. \A i \in 1..Len(w) : Body(w, f, i) = f[i]
  BY <1>0, <1>6 DEF Body
<1>8. f = [i \in 1..Len(w) |-> Body(w, f, i)]
  BY <1>7
<1> QED
  BY <1>8

\* What the loop computes: a sample of the window with the least rtt, and the last
\* of those.
LEMMA BestIsLeast ==
  ASSUME NEW w \in Seq(Estimates), w # << >>
  PROVE  \E b \in 1..Len(w) :
           /\ Best(w) = w[b]
           /\ \A i \in 1..Len(w) : w[b].rtt < w[i].rtt \/ (w[b].rtt = w[i].rtt /\ i <= b)
<1> DEFINE scan == CHOOSE g : g = [i \in 1..Len(w) |-> Body(w, g, i)]
           Least(n) == \E b \in 1..n :
                         /\ scan[n] = w[b]
                         /\ \A i \in 1..n : w[b].rtt < w[i].rtt \/ (w[b].rtt = w[i].rtt /\ i <= b)
           P == {n \in 0..(Len(w) - 1) : Least(n + 1)}
<1>0. Len(w) \in Nat \ {0} /\ \A i \in 1..Len(w) : w[i].rtt \in Int
  <2>1. Len(w) \in Nat /\ \A i \in 1..Len(w) : w[i] \in Estimates
    OBVIOUS
  <2>2. Len(w) # 0
    BY EmptySeq
  <2> QED
    BY <2>1, <2>2 DEF Estimates
<1>1. scan = [i \in 1..Len(w) |-> Body(w, scan, i)]
  BY ScanExists
<1>2. Best(w) = scan[Len(w)]
  BY DEF Best, Body, Beats
<1> HIDE DEF scan
<1>3. Least(1)
  BY <1>0, <1>1 DEF Body
<1>4. ASSUME NEW n \in 1..(Len(w) - 1), Least(n)
      PROVE  Least(n + 1)
  <2>1. PICK b \in 1..n :
          /\ scan[n] = w[b]
          /\ \A i \in 1..n : w[b].rtt < w[i].rtt \/ (w[b].rtt = w[i].rtt /\ i <= b)
    BY <1>4
  <2>2. scan[n + 1] = IF w[n + 1].rtt <= w[b].rtt THEN w[n + 1] ELSE w[b]
    <3>1. n + 1 \in 1..Len(w) /\ n + 1 # 1 /\ (n + 1) - 1 = n
      BY <1>0
    <3>2. scan[n + 1] = Body(w, scan, n + 1)
      BY <1>1, <3>1
    <3> QED
      BY <2>1, <3>1, <3>2 DEF Body
  <2>3. CASE w[n + 1].rtt <= w[b].rtt
    <3>1. ASSUME NEW i \in 1..(n + 1)
          PROVE  w[n + 1].rtt < w[i].rtt \/ (w[n + 1].rtt = w[i].rtt /\ i <= n + 1)
      BY <1>0, <2>1, <2>3, SMTT(30)
    <3> QED
      BY <1>0, <2>2, <2>3, <3>1
  <2>4. CASE ~(w[n + 1].rtt <= w[b].rtt)
    <3>1. ASSUME NEW i \in 1..(n + 1)
          PROVE  w[b].rtt < w[i].rtt \/ (w[b].rtt = w[i].rtt /\ i <= b)
      BY <1>0, <2>1, <2>4
    <3> QED
      BY <1>0, <2>2, <2>4, <3>1
  <2> QED
    BY <2>3, <2>4
<1> HIDE DEF Least
<1>5. 0 \in P /\ \A i \in 0..(Len(w) - 2) : i \in P => i + 1 \in P
  BY <1>0, <1>3, <1>4
<1>6. 0..(Len(w) - 1) \subseteq P
  <2> HIDE DEF P
  <2>1. Len(w) - 1 \in Nat /\ (Len(w) - 1) - 1 = Len(w) - 2
    BY <1>0
  <2> QED
    BY <1>5, <2>1, SetInduction
<1>7. Least(Len(w))
  <2>1. Len(w) - 1 \in P /\ (Len(w) - 1) + 1 = Len(w)
    BY <1>0, <1>6
  <2> QED
    BY <2>1
<1> QED
  BY <1>2, <1>7 DEF Least

-----------------------------------------------------------------------------
\* floor_div2 is division rounding down, for either sign.
LEMMA FloorDiv ==
  ASSUME NEW n \in Int
  PROVE  floor_div2(n) = n \div 2
BY DEF floor_div2, Trunc2

\* The exchanges as the model records them.
Delayed == [d1 : Nat, d2 : Nat]

\* The sample that exact knowledge of the delays would give.
Exact(th, x) == [rtt |-> x.d1 + x.d2, offset |-> th + ((x.d1 - x.d2) \div 2)]

LEMMA SampleExact ==
  ASSUME theta \in Int, NEW t0 \in Nat, NEW d1 \in Nat, NEW hold \in Nat, NEW d2 \in Nat
  PROVE  Sample(t0, t0 + d1 + theta, t0 + d1 + hold + theta, t0 + d1 + hold + d2)
           = Exact(theta, [d1 |-> d1, d2 |-> d2])
<1> DEFINE n == ((t0 + d1 + theta) - t0) + ((t0 + d1 + hold + theta) - (t0 + d1 + hold + d2))
<1>1. n \in Int /\ n = 2 * theta + (d1 - d2)
  OBVIOUS
<1> HIDE DEF n
<1>2. floor_div2(n) = theta + ((d1 - d2) \div 2)
  <2>1. floor_div2(n) = n \div 2
    BY <1>1, FloorDiv
  <2> QED
    BY <1>1, <2>1
<1> QED
  BY <1>2 DEF Sample, Exact, n

LEMMA ExactType ==
  ASSUME NEW th \in Int, NEW x \in Delayed
  PROVE  /\ Exact(th, x) \in Estimates
         /\ Exact(th, x).rtt = x.d1 + x.d2
         /\ x.d1 \in Nat /\ x.d2 \in Nat
<1>1. x.d1 \in Nat /\ x.d2 \in Nat
  BY DEF Delayed
<1>2. x.d1 + x.d2 \in Int /\ th + ((x.d1 - x.d2) \div 2) \in Int
  BY <1>1
<1>3. Exact(th, x) \in Estimates
  <2> DEFINE r == x.d1 + x.d2
             o == th + ((x.d1 - x.d2) \div 2)
  <2>1. r \in Int /\ o \in Int /\ Exact(th, x) = [rtt |-> r, offset |-> o]
    BY <1>2 DEF Exact
  <2> HIDE DEF r, o
  <2> QED
    BY <2>1 DEF Estimates
<1>4. Exact(th, x).rtt = x.d1 + x.d2
  BY DEF Exact
<1> QED
  BY <1>1, <1>3, <1>4

\* The floor of the exact offset errs by at most half the delay, rounded up.
LEMMA ExactSound ==
  ASSUME theta \in Int, NEW x \in Delayed
  PROVE  Sound(Exact(theta, x))
<1> DEFINE d == x.d1 - x.d2
           q == d \div 2
<1>1. x.d1 \in Nat /\ x.d2 \in Nat /\ d \in Int
  BY ExactType
<1>2. q \in Int /\ 2 * q <= d /\ d <= 2 * q + 1
  BY <1>1
<1>3. Exact(theta, x).rtt = x.d1 + x.d2 /\ Exact(theta, x).offset = theta + q
  BY DEF Exact
<1> HIDE DEF q
<1>4. /\ x.d1 + x.d2 >= 0
      /\ 2 * ((theta + q) - theta) <= x.d1 + x.d2
      /\ 2 * (theta - (theta + q)) <= (x.d1 + x.d2) + 1
  BY <1>1, <1>2
<1> QED
  BY <1>3, <1>4 DEF Sound

-----------------------------------------------------------------------------
\* A window w that holds the exact samples of the last exchanges of xs.
Length(w, xs) == Len(w) = IF Len(xs) <= Window THEN Len(xs) ELSE Window
Mirrors(w, xs, th) ==
  \A i \in 1..Len(w) : w[i] = Exact(th, xs[(Len(xs) - Len(w)) + i])

\* Appending one sample to both, without popping.
LEMMA MirrorsAppend ==
  ASSUME NEW w \in Seq(Estimates), NEW xs \in Seq(Delayed), NEW th \in Int, NEW x \in Delayed,
         Len(w) <= Len(xs), Mirrors(w, xs, th)
  PROVE  /\ Append(w, Exact(th, x)) \in Seq(Estimates)
         /\ Append(xs, x) \in Seq(Delayed)
         /\ Len(Append(w, Exact(th, x))) = Len(w) + 1
         /\ Len(Append(xs, x)) = Len(xs) + 1
         /\ Mirrors(Append(w, Exact(th, x)), Append(xs, x), th)
<1> DEFINE e == Exact(th, x)
           v == Append(w, e)
           ys == Append(xs, x)
<1>0. e \in Estimates
  BY ExactType
<1> HIDE DEF e
<1>1. /\ v \in Seq(Estimates) /\ Len(v) = Len(w) + 1 /\ v[Len(w) + 1] = e
      /\ \A i \in 1..Len(w) : v[i] = w[i]
  BY <1>0
<1>2. /\ ys \in Seq(Delayed) /\ Len(ys) = Len(xs) + 1 /\ ys[Len(xs) + 1] = x
      /\ \A i \in 1..Len(xs) : ys[i] = xs[i]
  OBVIOUS
<1> HIDE DEF v, ys
<1>3. Len(w) \in Nat /\ Len(xs) \in Nat
  OBVIOUS
<1>4. ASSUME NEW i \in 1..Len(v)
      PROVE  v[i] = Exact(th, ys[(Len(ys) - Len(v)) + i])
  <2>1. CASE i = Len(w) + 1
    <3>1. (Len(ys) - Len(v)) + i = Len(xs) + 1
      BY <1>1, <1>2, <1>3, <2>1
    <3> QED
      BY <1>1, <1>2, <2>1, <3>1 DEF e
  <2>2. CASE i # Len(w) + 1
    <3>1. i \in 1..Len(w) /\ (Len(ys) - Len(v)) + i = (Len(xs) - Len(w)) + i
      BY <1>1, <1>2, <1>3, <2>2
    <3>2. (Len(xs) - Len(w)) + i \in 1..Len(xs)
      BY <1>3, <3>1
    <3>3. v[i] = w[i] /\ w[i] = Exact(th, xs[(Len(xs) - Len(w)) + i])
      BY <1>1, <3>1 DEF Mirrors
    <3>4. ys[(Len(ys) - Len(v)) + i] = xs[(Len(xs) - Len(w)) + i]
      BY <1>2, <3>1, <3>2
    <3> QED
      BY <3>3, <3>4
  <2> QED
    BY <2>1, <2>2
<1>5. Mirrors(v, ys, th)
  BY <1>4 DEF Mirrors
<1> QED
  BY <1>1, <1>2, <1>5 DEF v, ys, e

\* Popping the oldest sample.
LEMMA MirrorsTail ==
  ASSUME NEW w \in Seq(Estimates), NEW xs, NEW th, Len(w) > 0, Len(xs) \in Nat,
         Mirrors(w, xs, th)
  PROVE  /\ Tail(w) \in Seq(Estimates)
         /\ Len(Tail(w)) = Len(w) - 1
         /\ Mirrors(Tail(w), xs, th)
<1>1. Len(w) \in Nat /\ w # << >>
  BY EmptySeq
<1>2. /\ Tail(w) \in Seq(Estimates) /\ Len(Tail(w)) = Len(w) - 1
      /\ \A i \in 1..Len(Tail(w)) : Tail(w)[i] = w[i + 1]
  BY <1>1, HeadTailProperties
<1>3. ASSUME NEW i \in 1..Len(Tail(w))
      PROVE  Tail(w)[i] = Exact(th, xs[(Len(xs) - Len(Tail(w))) + i])
  <2>1. i + 1 \in 1..Len(w) /\ (Len(xs) - Len(Tail(w))) + i = (Len(xs) - Len(w)) + (i + 1)
    BY <1>1, <1>2
  <2>2. w[i + 1] = Exact(th, xs[(Len(xs) - Len(w)) + (i + 1)])
    BY <2>1 DEF Mirrors
  <2> QED
    BY <1>2, <2>1, <2>2
<1> QED
  BY <1>2, <1>3 DEF Mirrors

-----------------------------------------------------------------------------
\* The inductive invariant: the window holds the exact samples of the last
\* exchanges, and the estimate is the best of them.
FInv ==
  /\ TypeOK
  /\ exchanges \in Seq(Delayed)
  /\ Length(window, exchanges)
  /\ Mirrors(window, exchanges, theta)
  /\ estimate = IF exchanges = << >> THEN None ELSE Best(window)

LEMMA ThetaType ==
  ASSUME TypeOK PROVE theta \in Int
BY ClocksAssumption DEF TypeOK

LEMMA FInvInit == Init => FInv
BY WindowAssumption DEF Init, FInv, TypeOK, Length, Mirrors

\* One more exchange: the window slides by one.
LEMMA FInvExchange ==
  ASSUME FInv, NEW t0 \in Starts, NEW d1 \in Delays, NEW hold \in Holds, NEW d2 \in Delays,
         Exchange(t0, d1, hold, d2)
  PROVE  FInv'
<1> DEFINE x == [d1 |-> d1, d2 |-> d2]
           s == Exact(theta, x)
           v == Append(window, s)
           ys == Append(exchanges, x)
<1>0. /\ theta \in Int /\ theta' = theta /\ theta \in Thetas /\ Window \in Nat \ {0}
      /\ t0 \in Nat /\ d1 \in Nat /\ d2 \in Nat /\ hold \in Nat
  BY ClocksAssumption, WindowAssumption, ThetaType DEF FInv, TypeOK, Exchange
<1>1. x \in Delayed
  BY <1>0 DEF Delayed
<1>2. /\ window \in Seq(Estimates) /\ exchanges \in Seq(Delayed)
      /\ Length(window, exchanges) /\ Mirrors(window, exchanges, theta)
  BY DEF FInv, TypeOK
<1>3. Len(window) \in Nat /\ Len(exchanges) \in Nat /\ Len(window) <= Len(exchanges)
  BY <1>0, <1>2 DEF Length
<1>4. /\ window' = IF Len(v) > Window THEN Tail(v) ELSE v
      /\ estimate' = Best(window')
      /\ exchanges' = ys
  <2>0. theta \in Int /\ t0 \in Nat /\ d1 \in Nat /\ hold \in Nat /\ d2 \in Nat
    BY <1>0
  <2>1. Sample(t0, t0 + d1 + theta, t0 + d1 + hold + theta, t0 + d1 + hold + d2) = s
    BY ONLY <2>0, SampleExact, ZenonT(60)
  <2> HIDE DEF s
  <2> QED
    BY <2>1 DEF Exchange, push, Slide
<1>5. /\ v \in Seq(Estimates) /\ ys \in Seq(Delayed)
      /\ Len(v) = Len(window) + 1 /\ Len(ys) = Len(exchanges) + 1
      /\ Mirrors(v, ys, theta)
  <2> HIDE DEF x
  <2> QED
    BY <1>0, <1>1, <1>2, <1>3, MirrorsAppend
<1> HIDE DEF x, s, v, ys
<1>6. /\ window' \in Seq(Estimates) /\ Len(window') > 0
      /\ Length(window', ys) /\ Mirrors(window', ys, theta)
  <2>1. CASE Len(v) > Window
    <3>1. window' = Tail(v)
      BY <1>4, <2>1
    <3>2. Len(v) > 0 /\ Len(ys) \in Nat
      BY <1>3, <1>5
    <3>3. /\ Tail(v) \in Seq(Estimates) /\ Len(Tail(v)) = Len(v) - 1
          /\ Mirrors(Tail(v), ys, theta)
      BY <1>5, <3>2, MirrorsTail
    <3>4. Len(Tail(v)) = Window /\ Len(ys) > Window
      BY <1>0, <1>2, <1>3, <1>5, <2>1, <3>3 DEF Length
    <3>5. Len(Tail(v)) > 0
      BY <1>0, <3>4
    <3>6. Length(Tail(v), ys)
      BY <1>0, <3>2, <3>4 DEF Length
    <3> QED
      BY <3>1, <3>3, <3>5, <3>6
  <2>2. CASE ~(Len(v) > Window)
    <3>1. window' = v
      BY <1>4, <2>2
    <3>2. Len(window) = Len(exchanges) /\ Len(ys) <= Window
      BY <1>0, <1>2, <1>3, <1>5, <2>2 DEF Length
    <3>3. Len(v) > 0 /\ Len(v) = Len(ys)
      BY <1>3, <1>5, <3>2
    <3>4. Length(v, ys)
      BY <3>2, <3>3 DEF Length
    <3> QED
      BY <1>5, <3>1, <3>3, <3>4
  <2> QED
    BY <2>1, <2>2
<1>7. Best(window') \in Estimates
  <2>1. window' # << >>
    BY <1>6, EmptySeq
  <2>2. PICK b \in 1..Len(window') : Best(window') = window'[b]
    BY <1>6, <2>1, BestIsLeast
  <2> QED
    BY <1>6, <2>2
<1>8. TypeOK'
  <2>1. Len(window') <= Window
    BY <1>0, <1>3, <1>5, <1>6 DEF Length
  <2> QED
    BY <1>0, <1>4, <1>6, <1>7, <2>1 DEF TypeOK
<1>9. exchanges' \in Seq(Delayed) /\ exchanges' # << >>
  <2>1. Len(ys) # 0
    BY <1>3, <1>5
  <2> QED
    BY <1>4, <1>5, <2>1, EmptySeq
<1> QED
  BY <1>0, <1>4, <1>6, <1>8, <1>9 DEF FInv

LEMMA FInvStep == FInv /\ [Next]_kvars => FInv'
<1> SUFFICES ASSUME FInv, [Next]_kvars PROVE FInv'
  OBVIOUS
<1>1. CASE UNCHANGED kvars
  BY <1>1 DEF kvars, FInv, TypeOK
<1>2. CASE Next
  BY <1>2, FInvExchange DEF Next
<1> QED
  BY <1>1, <1>2

LEMMA FInvAlways == Spec => []FInv
BY FInvInit, FInvStep, PTL DEF Spec

-----------------------------------------------------------------------------
\* The exchanges a window of the last Window samples is about.
Recent(xs) == {i \in 1..Len(xs) : i > Len(xs) - Window}
Rtt(xs, i) == xs[i].d1 + xs[i].d2

\* What the estimate is, from the invariant.
LEMMA EstimateIs ==
  ASSUME FInv, exchanges # << >>
  PROVE  \E b \in Recent(exchanges) :
           /\ exchanges[b] \in Delayed
           /\ estimate = Exact(theta, exchanges[b])
           /\ \A i \in Recent(exchanges) :
                \/ Rtt(exchanges, b) < Rtt(exchanges, i)
                \/ Rtt(exchanges, b) = Rtt(exchanges, i) /\ i <= b
<1>1. /\ window \in Seq(Estimates) /\ exchanges \in Seq(Delayed)
      /\ estimate = Best(window) /\ theta \in Int
  BY ThetaType DEF FInv, TypeOK
<1>2. PICK k : k = Len(window)
  OBVIOUS
<1>3. PICK n : n = Len(exchanges)
  OBVIOUS
<1>4. n \in Nat /\ n > 0
  BY <1>1, <1>3, EmptySeq
<1>5. Window \in Nat \ {0} /\ k = IF n <= Window THEN n ELSE Window
  BY <1>2, <1>3, WindowAssumption DEF FInv, Length
<1>6. k \in Nat /\ k > 0 /\ k <= n /\ window # << >>
  <2>1. k \in Nat /\ k > 0 /\ k <= n
    BY <1>4, <1>5
  <2>2. window # << >>
    <3> SUFFICES ASSUME window = << >> PROVE FALSE
      OBVIOUS
    <3>1. Len(window) = 0
      OBVIOUS
    <3> QED
      BY <1>2, <2>1, <3>1
  <2> QED
    BY <2>1, <2>2
<1>7. \A i \in 1..k : window[i] = Exact(theta, exchanges[(n - k) + i])
  BY <1>2, <1>3 DEF FInv, Mirrors
<1>8. \A i \in 1..k : (n - k) + i \in 1..n
  BY <1>4, <1>6
<1>9. \A i \in 1..n : exchanges[i] \in Delayed
  BY <1>1, <1>3
<1>10. \A i \in 1..k : window[i].rtt = Rtt(exchanges, (n - k) + i)
  BY <1>1, <1>7, <1>8, <1>9, ExactType DEF Rtt
<1>11. PICK c \in 1..k :
         /\ Best(window) = window[c]
         /\ \A i \in 1..k : window[c].rtt < window[i].rtt \/ (window[c].rtt = window[i].rtt /\ i <= c)
  BY <1>1, <1>2, <1>6, BestIsLeast
<1>12. PICK b : b = (n - k) + c
  OBVIOUS
<1>13. b \in 1..n /\ b > n - Window
  BY <1>4, <1>5, <1>6, <1>12
<1>14. ASSUME NEW i \in 1..n, i > n - Window
       PROVE  \/ Rtt(exchanges, b) < Rtt(exchanges, i)
              \/ Rtt(exchanges, b) = Rtt(exchanges, i) /\ i <= b
  <2>1. PICK j : j = i - (n - k)
    OBVIOUS
  <2>2. j \in 1..k /\ (n - k) + j = i
    BY <1>4, <1>5, <1>6, <1>14, <2>1
  <2>3. window[c].rtt < window[j].rtt \/ (window[c].rtt = window[j].rtt /\ j <= c)
    BY <1>11, <2>2
  <2>4. window[c].rtt = Rtt(exchanges, b) /\ window[j].rtt = Rtt(exchanges, i)
    BY <1>10, <1>12, <2>2
  <2>5. j <= c => i <= b
    BY <1>4, <1>6, <1>12, <2>2
  <2> QED
    BY <2>3, <2>4, <2>5
<1>15. exchanges[b] \in Delayed /\ estimate = Exact(theta, exchanges[b])
  BY <1>1, <1>7, <1>9, <1>11, <1>12, <1>13
<1>16. b \in Recent(exchanges) /\ \A i \in Recent(exchanges) : i \in 1..n /\ i > n - Window
  BY <1>3, <1>13 DEF Recent
<1> QED
  BY <1>14, <1>15, <1>16

\* The true clock difference is within half the reported round trip of the offset
\* that push returns (clocksync.cpp), for all delays, clocks and window lengths.
THEOREM EstimateError == Spec => []ErrorBound
<1>1. FInv => ErrorBound
  <2> SUFFICES ASSUME FInv, estimate # None PROVE Sound(estimate)
    BY DEF ErrorBound
  <2>1. theta \in Int /\ exchanges # << >>
    BY ThetaType DEF FInv
  <2>2. PICK b : exchanges[b] \in Delayed /\ estimate = Exact(theta, exchanges[b])
    BY <2>1, EstimateIs
  <2> QED
    BY <2>1, <2>2, ExactSound
<1> QED
  BY <1>1, FInvAlways, PTL

\* The estimate push returns (clocksync.cpp) is the least-delayed of the last Window
\* exchanges, the most recent on a tie, for every window length.
THEOREM EstimateIsBest == Spec => []BestOfWindow
<1>1. FInv => BestOfWindow
  <2>1. CASE ~(FInv /\ Len(exchanges) > 0)
    BY <2>1 DEF BestOfWindow
  <2>2. CASE FInv /\ Len(exchanges) > 0
    <3>1. exchanges # << >>
      BY <2>2, EmptySeq
    <3> QED
      BY <2>2, <3>1, EstimateIs DEF BestOfWindow, Exact, Recent, Rtt
  <2> QED
    BY <2>1, <2>2
<1> QED
  BY <1>1, FInvAlways, PTL

\* The members of the filter (clocksync.hpp) keep their types.
THEOREM FilterTyping == Spec => []TypeOK
<1>1. FInv => TypeOK
  BY DEF FInv
<1> QED
  BY <1>1, FInvAlways, PTL
=============================================================================
