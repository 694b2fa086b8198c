-------------------------- MODULE SdlClientProofs --------------------------
(***************************************************************************)
(* Theorems about SdlClient, for every number of datagrams, every capacity *)
(* of the hand-off and every number of reports.                            *)
(*                                                                         *)
(* DatagramsInOrder is restated for an arbitrary list s of datagrams seen, *)
(* queue q and count a of arrivals (InOrder): the lemmas say what an       *)
(* arrival and a taken event do to it, and CInv adds that nothing waits    *)
(* for a pipeline that is there.                                           *)
(***************************************************************************)
EXTENDS SdlClient, SequenceTheorems, TLAPS

SdlEvents ==
  [kind : {"Connected", "Closed", "Datagram"}, arg : Nat]
    \cup [kind : {"ControlBytes"}, arg : {"START", "BYE", "bad"}]

DatagramsOf(q) == {i \in 1..Len(q) : q[i].kind = "Datagram"}

InOrder(s, q, a) ==
  /\ s = [i \in 1..Len(s) |-> i] /\ Len(s) <= a
  /\ \A i \in DatagramsOf(q) : q[i].arg \in (Len(s) + 1)..a
  /\ \A d \in (Len(s) + 1)..a : \E i \in DatagramsOf(q) : q[i].arg = d
  /\ \A i, j \in DatagramsOf(q) : i < j => q[i].arg < q[j].arg

\* The queue, after an event was added and after one was taken.
LEMMA Added ==
  ASSUME NEW q \in Seq(SdlEvents), NEW e \in SdlEvents
  PROVE  /\ Append(q, e) \in Seq(SdlEvents) /\ Len(q) \in Nat
         /\ Append(q, e)[Len(q) + 1] = e
         /\ \A i \in 1..Len(q) : Append(q, e)[i] = q[i]
         /\ DatagramsOf(Append(q, e)) =
              DatagramsOf(q) \cup (IF e.kind = "Datagram" THEN {Len(q) + 1} ELSE {})
<1>1. /\ Append(q, e) \in Seq(SdlEvents) /\ Len(q) \in Nat /\ Len(Append(q, e)) = Len(q) + 1
      /\ Append(q, e)[Len(q) + 1] = e
      /\ \A i \in 1..Len(q) : Append(q, e)[i] = q[i]
  OBVIOUS
<1>2. \A i : i \in 1..(Len(q) + 1) <=> i \in 1..Len(q) \/ i = Len(q) + 1
  BY <1>1
<1> DEFINE Q == Append(q, e)
<1> HIDE DEF Q
<1>3. DatagramsOf(Q) = DatagramsOf(q) \cup (IF e.kind = "Datagram" THEN {Len(q) + 1} ELSE {})
  BY <1>1, <1>2 DEF DatagramsOf, Q
<1> QED
  BY <1>1, <1>3 DEF Q

LEMMA Removed ==
  ASSUME NEW q \in Seq(SdlEvents), q # << >>
  PROVE  /\ Tail(q) \in Seq(SdlEvents) /\ Head(q) \in SdlEvents /\ Head(q) = q[1]
         /\ \A i \in DatagramsOf(Tail(q)) : i \in Nat /\ i + 1 \in DatagramsOf(q) /\ i + 1 > 1
                                            /\ Tail(q)[i] = q[i + 1]
         /\ \A i \in DatagramsOf(q) : i \in Nat /\ (i # 1 => i - 1 \in DatagramsOf(Tail(q)))
         /\ 1 \in DatagramsOf(q) <=> Head(q).kind = "Datagram"
<1>1. /\ Tail(q) \in Seq(SdlEvents) /\ Head(q) \in SdlEvents /\ Head(q) = q[1]
      /\ Len(q) \in Nat \ {0} /\ Len(Tail(q)) = Len(q) - 1
      /\ \A i \in 1..Len(Tail(q)) : Tail(q)[i] = q[i + 1]
  OBVIOUS
<1> DEFINE Q == Tail(q)
<1> HIDE DEF Q
<1>2. \A i \in DatagramsOf(Q) : i \in Nat /\ i + 1 \in DatagramsOf(q) /\ i + 1 > 1 /\ Q[i] = q[i + 1]
  BY <1>1 DEF DatagramsOf, Q
<1>3. ASSUME NEW i \in DatagramsOf(q), i # 1 PROVE i - 1 \in DatagramsOf(Q)
  <2>1. i \in 1..Len(q) /\ i - 1 \in 1..Len(Q) /\ (i - 1) + 1 = i /\ q[i].kind = "Datagram"
    BY <1>1, <1>3 DEF DatagramsOf, Q
  <2>2. Q[i - 1] = q[i]
    BY <1>1, <2>1 DEF Q
  <2> QED
    BY <2>1, <2>2 DEF DatagramsOf
<1>4. \A i \in DatagramsOf(q) : i \in Nat
  BY DEF DatagramsOf
<1>5. 1 \in DatagramsOf(q) <=> Head(q).kind = "Datagram"
  BY <1>1 DEF DatagramsOf
<1> QED
  BY <1>1, <1>2, <1>3, <1>4, <1>5 DEF Q

\* OnDatagram: the next number joins the queue.
LEMMA Arrival ==
  ASSUME NEW s \in Seq(Nat), NEW q \in Seq(SdlEvents), NEW a \in Nat, InOrder(s, q, a),
         NEW e \in SdlEvents, e.kind = "Datagram", e.arg = a + 1
  PROVE  InOrder(s, Append(q, e), a + 1)
<1> DEFINE Q == Append(q, e)
<1>1. /\ Len(q) \in Nat /\ Q[Len(q) + 1] = e /\ \A i \in DatagramsOf(q) : Q[i] = q[i]
      /\ DatagramsOf(Q) = DatagramsOf(q) \cup {Len(q) + 1}
      /\ \A i \in DatagramsOf(q) : i \in 1..Len(q)
  BY Added DEF DatagramsOf
<1>0. Len(s) \in Nat
  OBVIOUS
<1> HIDE DEF Q
<1>2. s = [i \in 1..Len(s) |-> i] /\ Len(s) <= a + 1
  BY <1>0 DEF InOrder
<1>3. \A i \in DatagramsOf(Q) : Q[i].arg \in (Len(s) + 1)..(a + 1)
  BY <1>0, <1>1 DEF InOrder
<1>4. ASSUME NEW d \in (Len(s) + 1)..(a + 1) PROVE \E i \in DatagramsOf(Q) : Q[i].arg = d
  <2>1. CASE d = a + 1
    BY <1>1, <2>1
  <2>2. CASE d \in (Len(s) + 1)..a
    BY <1>1, <2>2 DEF InOrder
  <2> QED
    BY <1>0, <2>1, <2>2
<1>5. ASSUME NEW i \in DatagramsOf(Q), NEW j \in DatagramsOf(Q), i < j PROVE Q[i].arg < Q[j].arg
  <2>0. j \in Nat /\ j <= Len(q) + 1
    BY <1>1, <1>5
  <2>1. i \in DatagramsOf(q)
    BY <1>1, <1>5, <2>0
  <2>4. Q[i] = q[i] /\ Q[i].arg \in (Len(s) + 1)..a
    BY <1>1, <2>1 DEF InOrder
  <2>2. CASE j \in DatagramsOf(q)
    BY <1>1, <1>5, <2>1, <2>2, <2>4 DEF InOrder
  <2>3. CASE j = Len(q) + 1
    BY <1>0, <1>1, <2>4, <2>3
  <2> QED
    BY <1>1, <2>2, <2>3
<1> QED
  BY <1>2, <1>3, <1>4, <1>5 DEF InOrder, Q

\* Any other event leaves the datagrams alone.
LEMMA OtherArrival ==
  ASSUME NEW s, NEW q \in Seq(SdlEvents), NEW a, InOrder(s, q, a),
         NEW e \in SdlEvents, e.kind # "Datagram"
  PROVE  InOrder(s, Append(q, e), a)
<1> DEFINE Q == Append(q, e)
<1>1. DatagramsOf(Q) = DatagramsOf(q) /\ \A i \in DatagramsOf(q) : Q[i] = q[i]
  BY Added DEF DatagramsOf
<1> HIDE DEF Q
<1>2. InOrder(s, Q, a)
  BY <1>1 DEF InOrder
<1> QED
  BY <1>2 DEF Q

LEMMA OtherTaken ==
  ASSUME NEW s, NEW q \in Seq(SdlEvents), NEW a, InOrder(s, q, a),
         q # << >>, Head(q).kind # "Datagram"
  PROVE  InOrder(s, Tail(q), a)
<1> DEFINE Q == Tail(q)
<1>1. /\ \A i \in DatagramsOf(Q) : i \in Nat /\ i + 1 \in DatagramsOf(q) /\ Q[i] = q[i + 1]
      /\ \A i \in DatagramsOf(q) : i \in Nat /\ i - 1 \in DatagramsOf(Q)
  BY Removed
<1> HIDE DEF Q
<1>2. \A i \in DatagramsOf(Q) : Q[i].arg \in (Len(s) + 1)..a
  BY <1>1 DEF InOrder
<1>3. ASSUME NEW d \in (Len(s) + 1)..a PROVE \E i \in DatagramsOf(Q) : Q[i].arg = d
  <2>1. PICK i \in DatagramsOf(q) : q[i].arg = d
    BY DEF InOrder
  <2>2. i - 1 \in DatagramsOf(Q) /\ Q[i - 1] = q[i]
    BY <1>1
  <2> QED
    BY <2>1, <2>2
<1>4. ASSUME NEW i \in DatagramsOf(Q), NEW j \in DatagramsOf(Q), i < j PROVE Q[i].arg < Q[j].arg
  <2>1. i + 1 \in DatagramsOf(q) /\ j + 1 \in DatagramsOf(q) /\ i + 1 < j + 1
    BY <1>1, <1>4
  <2>2. q[i + 1].arg < q[j + 1].arg
    BY <2>1 DEF InOrder
  <2> QED
    BY <1>1, <2>2
<1> QED
  BY <1>2, <1>3, <1>4 DEF InOrder, Q

\* NextEvent: the oldest datagram in the queue is the next one in order.
LEMMA DatagramTaken ==
  ASSUME NEW s \in Seq(Nat), NEW q \in Seq(SdlEvents), NEW a \in Nat, InOrder(s, q, a),
         q # << >>, Head(q).kind = "Datagram"
  PROVE  Head(q).arg = Len(s) + 1 /\ InOrder(Append(s, Head(q).arg), Tail(q), a)
<1> DEFINE Q == Tail(q)
<1>0. Len(s) \in Nat
  OBVIOUS
<1>1. /\ Head(q) = q[1] /\ 1 \in DatagramsOf(q)
      /\ \A i \in DatagramsOf(Q) : i \in Nat /\ i + 1 \in DatagramsOf(q) /\ i + 1 > 1 /\ Q[i] = q[i + 1]
      /\ \A i \in DatagramsOf(q) : i \in Nat /\ i >= 1 /\ (i # 1 => i - 1 \in DatagramsOf(Q))
  BY Removed DEF DatagramsOf
<1> HIDE DEF Q
<1>2. q[1].arg = Len(s) + 1
  <2>1. q[1].arg \in (Len(s) + 1)..a
    BY <1>1 DEF InOrder
  <2>2. PICK i \in DatagramsOf(q) : q[i].arg = Len(s) + 1
    BY <1>0, <2>1 DEF InOrder
  <2>3. i # 1 => q[1].arg < q[i].arg
    BY <1>1 DEF InOrder
  <2> QED
    BY <1>0, <2>1, <2>2, <2>3
<1> DEFINE t == Append(s, q[1].arg)
<1>3. Len(t) = Len(s) + 1 /\ t = [i \in 1..Len(t) |-> i]
  <2>1. t \in Seq(Nat) /\ Len(t) = Len(s) + 1 /\ \A i \in 1..Len(t) : t[i] = i
    BY <1>0, <1>2 DEF InOrder
  <2> QED
    BY <2>1
<1> HIDE DEF t
<1>4. Len(t) <= a
  BY <1>0, <1>1, <1>2, <1>3 DEF InOrder
<1>5. ASSUME NEW i \in DatagramsOf(Q) PROVE Q[i].arg \in (Len(t) + 1)..a
  <2>1. q[1].arg < q[i + 1].arg /\ q[i + 1].arg \in (Len(s) + 1)..a
    BY <1>1 DEF InOrder
  <2> QED
    BY <1>0, <1>1, <1>2, <1>3, <2>1
<1>6. ASSUME NEW d \in (Len(t) + 1)..a PROVE \E i \in DatagramsOf(Q) : Q[i].arg = d
  <2>1. d \in (Len(s) + 1)..a /\ d # q[1].arg
    BY <1>0, <1>2, <1>3
  <2>2. PICK i \in DatagramsOf(q) : q[i].arg = d
    BY <2>1 DEF InOrder
  <2>3. i # 1
    BY <2>1, <2>2
  <2>4. i - 1 \in DatagramsOf(Q)
    BY <1>1, <2>3
  <2>5. Q[i - 1] = q[i]
    BY <1>1, <2>4
  <2> QED
    BY <2>2, <2>4, <2>5
<1>7. ASSUME NEW i \in DatagramsOf(Q), NEW j \in DatagramsOf(Q), i < j PROVE Q[i].arg < Q[j].arg
  <2>1. i + 1 \in DatagramsOf(q) /\ j + 1 \in DatagramsOf(q) /\ i + 1 < j + 1
    BY <1>1, <1>7
  <2>2. q[i + 1].arg < q[j + 1].arg
    BY <2>1 DEF InOrder
  <2> QED
    BY <1>1, <2>2
<1>8. InOrder(t, Q, a)
  BY <1>3, <1>4, <1>5, <1>6, <1>7 DEF InOrder
<1> QED
  BY <1>1, <1>2, <1>8 DEF t, Q

-----------------------------------------------------------------------------
CType ==
  /\ events \in Seq(SdlEvents) /\ arrived \in Nat
  /\ fed \in Seq(Nat) /\ prebuffered \in Seq(Nat)
  /\ received \in Nat /\ base \in Nat /\ reported \in Nat

CInv ==
  /\ CType /\ StatsExact
  /\ pipeline => prebuffered = << >>
  /\ InOrder(fed \o prebuffered, events, arrived)

LEMMA CInvImplies == CInv => DatagramsInOrder
<1> SUFFICES ASSUME CInv PROVE DatagramsInOrder
  OBVIOUS
<1> DEFINE s == fed \o prebuffered
<1>1. Queued = DatagramsOf(events)
  BY DEF Queued, DatagramsOf, CInv, CType
<1>2. InOrder(s, events, arrived)
  BY DEF CInv
<1> HIDE DEF s
<1>3. {events[i].arg : i \in Queued} = (Len(s) + 1)..arrived
  BY <1>1, <1>2 DEF InOrder
<1>4. /\ s = [i \in 1..Len(s) |-> i] /\ Len(s) <= arrived
      /\ \A i, j \in Queued : i < j => events[i].arg < events[j].arg
  BY <1>1, <1>2 DEF InOrder
<1> QED
  BY <1>3, <1>4 DEF DatagramsInOrder, s

\* Steps that touch neither the datagrams nor the windows of the reports.
LEMMA ElsewhereStep ==
  ASSUME CInv, UNCHANGED <<events, arrived, fed, prebuffered, received, base, reported>>,
         UNCHANGED pipeline
  PROVE  CInv'
  BY DEF CInv, CType, StatsExact

LEMMA WorkerStep ==
  ASSUME CInv, Worker
  PROVE  CInv'
<1> USE DEF sessvars, rcvars, decvars, metvars, mainvars
<1>0. /\ events \in Seq(SdlEvents) /\ arrived \in Nat /\ fed \o prebuffered \in Seq(Nat)
      /\ InOrder(fed \o prebuffered, events, arrived)
  BY DEF CInv, CType
<1>1. ASSUME NEW e \in SdlEvents, e.kind # "Datagram", events' = Append(events, e),
             UNCHANGED <<arrived, rcvars, metvars, mainvars>>
      PROVE  CInv'
  <2>1. events' \in Seq(SdlEvents) /\ InOrder(fed \o prebuffered, events', arrived)
    BY <1>0, <1>1, OtherArrival, Added
  <2> QED
    BY <1>1, <2>1 DEF CInv, CType, StatsExact
<1>2. CASE OnConnected
  <2>1. Event("Connected", 0) \in SdlEvents /\ Event("Connected", 0).kind = "Connected"
    BY DEF Event, SdlEvents
  <2> QED
    BY <1>1, <1>2, <2>1 DEF OnConnected
<1>3. CASE OnDatagram
  <2> DEFINE e == Event("Datagram", arrived')
  <2>1. arrived' = arrived + 1 /\ events' = Append(events, e)
    BY <1>3 DEF OnDatagram
  <2>2. e \in SdlEvents /\ e.kind = "Datagram" /\ e.arg = arrived + 1
    BY <1>0, <2>1 DEF Event, SdlEvents
  <2> HIDE DEF e
  <2>3. events' \in Seq(SdlEvents) /\ InOrder(fed \o prebuffered, events', arrived')
    BY <1>0, <2>1, <2>2, Arrival, Added
  <2> QED
    BY <1>0, <1>3, <2>1, <2>3 DEF OnDatagram, CInv, CType, StatsExact
<1>4. ASSUME NEW m \in {"START", "BYE", "bad"}, OnReceive(m) PROVE CInv'
  <2>1. Event("ControlBytes", m) \in SdlEvents /\ Event("ControlBytes", m).kind = "ControlBytes"
    BY DEF Event, SdlEvents
  <2> QED
    BY <1>1, <1>4, <2>1 DEF OnReceive
<1>5. ASSUME NEW code \in 0..1, OnShutdown(code) PROVE CInv'
  <2>1. Event("Closed", code) \in SdlEvents /\ Event("Closed", code).kind = "Closed"
    BY DEF Event, SdlEvents
  <2> QED
    BY <1>1, <1>5, <2>1 DEF OnShutdown
<1> QED
  BY <1>2, <1>3, <1>4, <1>5 DEF Worker

LEMMA NextEventStep ==
  ASSUME CInv, NextEvent
  PROVE  CInv'
<1> USE DEF rcvars, decvars, metvars
<1> DEFINE e == Head(events)
           s == fed \o prebuffered
<1>0. /\ events \in Seq(SdlEvents) /\ events # << >> /\ arrived \in Nat /\ s \in Seq(Nat)
      /\ InOrder(s, events, arrived)
      /\ events' = Tail(events) /\ UNCHANGED <<arrived, metvars, pipeline>>
  BY DEF CInv, CType, NextEvent
<1>1. events' \in Seq(SdlEvents) /\ e \in SdlEvents
  BY <1>0, Removed
<1>2. CASE e.kind # "Datagram"
  <2>1. UNCHANGED <<rcvars, prebuffered>>
    BY <1>2 DEF NextEvent
  <2>2. InOrder(s, events', arrived)
    BY <1>0, <1>2, OtherTaken
  <2> QED
    BY <1>0, <1>1, <2>1, <2>2 DEF CInv, CType, StatsExact
<1>3. CASE e.kind = "Datagram"
  <2>1. e.arg \in Nat
    BY <1>1, <1>3 DEF SdlEvents
  <2>2. InOrder(Append(s, e.arg), events', arrived)
    BY <1>0, <1>3, DatagramTaken
  <2>3. CASE pipeline /\ feed_datagrams(<<e.arg>>) /\ UNCHANGED prebuffered
    <3>1. prebuffered = << >>
      BY <2>3 DEF CInv
    <3>2. fed' = fed \o <<e.arg>> /\ received' = received + 1
      BY <2>1, <2>3 DEF feed_datagrams
    <3> HIDE DEF e
    <3>3. fed' \in Seq(Nat) /\ fed' \o prebuffered' = Append(s, e.arg) /\ Len(fed') = Len(fed) + 1
      BY <2>1, <2>3, <3>1, <3>2 DEF CInv, CType
    <3>4. CType' /\ StatsExact'
      BY <1>0, <1>1, <2>3, <3>2, <3>3 DEF CInv, CType, StatsExact
    <3>5. InOrder(fed' \o prebuffered', events', arrived') /\ prebuffered' = << >>
      BY <1>0, <2>2, <2>3, <3>1, <3>3
    <3> QED
      BY <3>4, <3>5 DEF CInv
  <2>4. CASE ~pipeline /\ prebuffered' = TooEarly(e.arg) /\ UNCHANGED rcvars
    <3> HIDE DEF e
    <3>1. prebuffered' \in Seq(Nat) /\ fed \o prebuffered' = Append(s, e.arg)
      BY <2>1, <2>4, SMTT(40) DEF TooEarly, CInv, CType
    <3>2. UNCHANGED <<fed, received>>
      BY <2>4
    <3>3. CType' /\ StatsExact'
      BY <1>0, <1>1, <3>1, <3>2 DEF CInv, CType, StatsExact
    <3>4. InOrder(fed' \o prebuffered', events', arrived')
      BY <1>0, <2>2, <3>1, <3>2
    <3> QED
      BY <1>0, <2>4, <3>3, <3>4 DEF CInv
  <2> QED
    BY <1>3, <2>3, <2>4 DEF NextEvent
<1> QED
  BY <1>2, <1>3

LEMMA PollActionStep ==
  ASSUME CInv, PollAction
  PROVE  CInv'
<1> USE DEF rcvars, metvars
<1>0. UNCHANGED <<events, arrived, metvars>>
  BY DEF PollAction
<1>1. CASE UNCHANGED <<pipeline, prebuffered, rcvars>>
  BY <1>0, <1>1, ElsewhereStep
<1>2. CASE ~pipeline /\ pipeline' = TRUE /\ feed_datagrams(prebuffered) /\ prebuffered' = << >>
  <2>1. fed' = fed \o prebuffered /\ received' = received + Len(prebuffered)
    BY <1>2 DEF feed_datagrams
  <2>2. fed' \in Seq(Nat) /\ Len(fed') = Len(fed) + Len(prebuffered) /\ Len(prebuffered) \in Nat
    BY <2>1 DEF CInv, CType
  <2>3. fed' \o prebuffered' = fed \o prebuffered
    BY <1>2, <2>1, <2>2
  <2>4. CType' /\ StatsExact'
    BY <1>0, <1>2, <2>1, <2>2 DEF CInv, CType, StatsExact
  <2> QED
    BY <1>0, <1>2, <2>3, <2>4 DEF CInv
<1> QED
  BY <1>1, <1>2 DEF PollAction, start_media

LEMMA StatsStep ==
  ASSUME CInv, Stats
  PROVE  CInv'
<1>1. CASE UNCHANGED metvars
  BY <1>1, ElsewhereStep DEF Stats, netvars, rcvars, metvars
<1>2. CASE take_window
  <2>1. base' = received /\ reported' = received
    BY <1>2 DEF take_window, NextBase, CInv, CType, StatsExact
  <2> QED
    BY <2>1 DEF Stats, netvars, rcvars, CInv, CType, StatsExact
<1> QED
  BY <1>1, <1>2 DEF Stats

LEMMA CInvInit == SInit => CInv
<1> SUFFICES ASSUME SInit PROVE CInv
  OBVIOUS
<1>1. /\ fed \o prebuffered = << >> /\ Len(<< >>) = 0
      /\ << >> \in Seq(Nat) /\ events \in Seq(SdlEvents)
      /\ << >> = [i \in 1..0 |-> i]
  BY DEF SInit
<1>2. DatagramsOf(events) = {} /\ (0 + 1)..arrived = {}
  BY DEF DatagramsOf, SInit
<1>3. InOrder(fed \o prebuffered, events, arrived)
  BY <1>1, <1>2 DEF InOrder, SInit
<1> QED
  BY <1>1, <1>3 DEF CInv, CType, StatsExact, SInit

LEMMA CInvStep ==
  ASSUME CInv, [SNext]_svars
  PROVE  CInv'
<1> USE DEF netvars, sessvars, rcvars, decvars, metvars, mainvars
<1>1. CASE MainStep
  <2>1. CASE start
    BY <2>1, ElsewhereStep DEF start
  <2>2. CASE NextEvent
    BY <2>2, NextEventStep
  <2>3. CASE PumpEnds
    BY <2>3, ElsewhereStep DEF PumpEnds
  <2>4. CASE PollAction
    BY <2>4, PollActionStep
  <2>5. CASE PollEnds
    BY <2>5, ElsewhereStep DEF PollEnds
  <2>6. CASE Stats
    BY <2>6, StatsStep
  <2>7. CASE Render
    BY <2>7, ElsewhereStep DEF Render
  <2>8. CASE StopPipeline
    BY <2>8, ElsewhereStep DEF StopPipeline
  <2>9. CASE Joined
    BY <2>9, ElsewhereStep DEF Joined
  <2> QED
    BY <1>1, <2>1, <2>2, <2>3, <2>4, <2>5, <2>6, <2>7, <2>8, <2>9 DEF MainStep
<1>2. CASE DecodeStep
  BY <1>2, ElsewhereStep DEF DecodeStep, PopAu, PopEnds, Publish
<1>3. CASE Worker
  BY <1>3, WorkerStep
<1>4. CASE UNCHANGED svars
  BY <1>4, ElsewhereStep DEF svars
<1> QED
  BY <1>1, <1>2, <1>3, <1>4 DEF SNext

LEMMA SdlInvariant == SSpec => []CInv
<1>1. CInv /\ [SNext]_svars => CInv'
  BY CInvStep
<1> QED
  BY <1>1, CInvInit, PTL DEF SSpec

\* main and MsQuicTransport: every datagram reaches the receiver once and in the order
\* of arrival, however many overtake START.
THEOREM SdlDatagramsInOrder == SSpec => []DatagramsInOrder
  BY CInvImplies, SdlInvariant, PTL

\* Metrics::take_window: the reports count every frame received up to the last of them
\* exactly once.
THEOREM SdlStatsExact == SSpec => []StatsExact
<1>1. CInv => StatsExact
  BY DEF CInv
<1> QED
  BY <1>1, SdlInvariant, PTL
=============================================================================
