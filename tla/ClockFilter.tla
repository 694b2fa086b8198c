---------------------------- MODULE ClockFilter ----------------------------
(***************************************************************************)
(* proto/src/clocksync.cpp: the clock estimate of the client, from the     *)
(* CLOCK_PING / CLOCK_PONG exchanges the session completes.                *)
(*                                                                         *)
(* The two machines are modelled too, since the filter is only right about *)
(* them: the host's clock is the client's plus a constant theta (of either *)
(* sign), a ping takes d1 and its pong d2 on the way, and the host holds   *)
(* the ping for a while.  The client sees the four timestamps only.        *)
(***************************************************************************)
EXTENDS Integers, Sequences

CONSTANTS
  Thetas,    \* differences between the two clocks
  Delays,    \* one-way delays
  Holds,     \* how long the host may hold a ping
  Starts,    \* client times of a ping
  Window,    \* kWindow, 16 in the code
  None

ASSUME ClocksAssumption ==
  /\ \A x \in Thetas : x \in Int
  /\ \A d \in Delays : d \in Nat
  /\ \A h \in Holds : h \in Nat
  /\ \A t \in Starts : t \in Nat
ASSUME WindowAssumption == Window \in Nat \ {0}
ASSUME NoEstimateAssumption == None \notin [rtt : Int, offset : Int]

VARIABLES
  theta,      \* host clock minus client clock
  window,     \* window_: the last samples, oldest first
  estimate,   \* what the last push returned
  exchanges   \* history: [d1, d2] of every exchange

kvars == <<theta, window, estimate, exchanges>>

Init ==
  /\ theta \in Thetas
  /\ window = << >>
  /\ estimate = None
  /\ exchanges = << >>

-----------------------------------------------------------------------------
\* C++ integer division truncates toward zero ...
Trunc2(n) == IF n >= 0 THEN n \div 2 ELSE -((-n) \div 2)

\* ... and floor_div2 corrects it for a negative odd numerator.
floor_div2(n) == IF n % 2 # 0 /\ n < 0 THEN Trunc2(n) - 1 ELSE Trunc2(n)

\* Fault: the sign of the way back is wrong.
SampleSign(t0, t1, t2, t3) ==
  [rtt |-> (t3 - t0) - (t2 - t1),
   offset |-> floor_div2((t1 - t0) - (t2 - t3))]

Sample(t0, t1, t2, t3) ==
  [rtt |-> (t3 - t0) - (t2 - t1),
   offset |-> floor_div2((t1 - t0) + (t2 - t3))]

\* The window after push_back and, beyond Window samples, pop_front.
Slide(s) ==
  LET w == Append(window, s) IN IF Len(w) > Window THEN Tail(w) ELSE w

\* Fault: the older sample wins a tie.
BeatsStrictly(s, b) == s.rtt < b.rtt

Beats(s, b) == s.rtt <= b.rtt

\* The loop over the window: oldest to newest, <= lets the newer sample win a tie.
Best(w) ==
  LET scan[i \in 1..Len(w)] ==
        IF i = 1 THEN w[1]
        ELSE IF Beats(w[i], scan[i - 1]) THEN w[i] ELSE scan[i - 1]
  IN scan[Len(w)]

push(t0, t1, t2, t3) ==
  /\ window' = Slide(Sample(t0, t1, t2, t3))
  /\ estimate' = Best(window')

\* One exchange: the ping leaves at t0 and the pong is handled at t3.
Exchange(t0, d1, hold, d2) ==
  /\ push(t0, t0 + d1 + theta, t0 + d1 + hold + theta, t0 + d1 + hold + d2)
  /\ exchanges' = Append(exchanges, [d1 |-> d1, d2 |-> d2])
  /\ UNCHANGED theta

Next ==
  \E t0 \in Starts, d1, d2 \in Delays, hold \in Holds : Exchange(t0, d1, hold, d2)

Spec == Init /\ [][Next]_kvars

-----------------------------------------------------------------------------
(***************************************************************************)
(* Properties                                                              *)
(***************************************************************************)
Estimates == [rtt : Int, offset : Int]

\* The types of the filter's members; window_ never holds more than Window samples.
TypeOK ==
  /\ theta \in Thetas
  /\ window \in Seq(Estimates)
  /\ Len(window) <= Window
  /\ estimate \in Estimates \cup {None}

\* A sample is sound when its rtt is the time spent on the way and its offset is
\* off by at most half of that, rounded up.
Sound(e) ==
  /\ e.rtt >= 0
  /\ 2 * (e.offset - theta) <= e.rtt
  /\ 2 * (theta - e.offset) <= e.rtt + 1

\* Whatever the delays and the signs of the clocks, the true clock difference is
\* within half the reported round trip of the reported offset (clocksync.hpp:
\* host_time ~= client_time + offset).
ErrorBound == estimate # None => Sound(estimate)

\* The estimate is the exchange with the least delay among the last Window ones, the
\* most recent of them on a tie, and its offset is the floor of the exact one: it
\* does not depend on where the zero of either clock is.
BestOfWindow ==
  LET n == Len(exchanges)
      recent == {i \in 1..n : i > n - Window}
      rtt(i) == exchanges[i].d1 + exchanges[i].d2
  IN n > 0 =>
       \E b \in recent :
         /\ \A i \in recent : rtt(b) < rtt(i) \/ (rtt(b) = rtt(i) /\ i <= b)
         /\ estimate = [rtt |-> rtt(b),
                        offset |-> theta + ((exchanges[b].d1 - exchanges[b].d2) \div 2)]
=============================================================================
