--------------------------- MODULE SessionProofs ---------------------------
(***************************************************************************)
(* Theorems about Session and NetSession, for every host script, every     *)
(* clock and both intervals.                                               *)
(*                                                                         *)
(* The properties of Session are about its history of actions.  Each is    *)
(* restated for an arbitrary list l of actions (Ordered, EndsLast,         *)
(* AckedLast), the lemmas say what appending one action does to it, and    *)
(* SInv says which milestones the phase of the state machine has passed.   *)
(***************************************************************************)
EXTENDS NetSession, SequenceTheorems, TLAPS

Kinds == {"SendControl", "Established", "MediaExpected", "ConfigChanged", "Fatal", "Closed"}
Sent == {"", "HELLO", "CONFIG_ACK", "CLOCK_PING", "VIEWPORT", "BYE"}
Acts == [kind : Kinds, msg : Sent, arg : Nat]

IsSend(a, msg) == a.kind = "SendControl" /\ a.msg = msg
IsEnd(a) == a.kind \in {"Fatal", "Closed"}

\* The milestones of the handshake among the first n actions of l.
Greeted(l, n) == \E h \in 1..n : IsSend(l[h], "HELLO")
Welcomed(l, n) == \E h, e \in 1..n : h < e /\ IsSend(l[h], "HELLO") /\ l[e].kind = "Established"
Prepared(l, n) ==
  \E h, e, a \in 1..n : /\ h < e /\ e < a
                        /\ IsSend(l[h], "HELLO") /\ l[e].kind = "Established"
                        /\ IsSend(l[a], "CONFIG_ACK")

\* The j-th action of l comes after the milestones it needs.
InTurn(l, j) ==
  /\ l[j].kind \in {"MediaExpected", "ConfigChanged"} => Prepared(l, j - 1)
  /\ l[j].kind = "SendControl" /\ l[j].msg \notin {"HELLO", "BYE"} => Greeted(l, j - 1)
  /\ IsSend(l[j], "HELLO") => \A i \in 1..(j - 1) : l[i].kind # "SendControl"

Ordered(l) == \A j \in 1..Len(l) : InTurn(l, j)
NoEnd(l) == \A i \in 1..Len(l) : ~IsEnd(l[i])
EndsLast(l) == \A i \in 1..Len(l) : IsEnd(l[i]) => i = Len(l)

\* c is the generation acknowledged last in l, None if there is none.
AckedLast(l, c) ==
  LET acks == {i \in 1..Len(l) : IsSend(l[i], "CONFIG_ACK")}
  IN /\ c = None <=> acks = {}
     /\ \A i \in acks : (\A k \in acks : k <= i) => l[i].arg = c

-----------------------------------------------------------------------------
\* Appending keeps the actions there are.
LEMMA AppendedAct ==
  ASSUME NEW l \in Seq(Acts), NEW a \in Acts
  PROVE  /\ Append(l, a) \in Seq(Acts)
         /\ Len(Append(l, a)) = Len(l) + 1 /\ Len(l) \in Nat
         /\ \A i \in 1..Len(l) : Append(l, a)[i] = l[i]
         /\ Append(l, a)[Len(l) + 1] = a
  OBVIOUS

\* Milestones passed stay passed.
LEMMA MilestonesKept ==
  ASSUME NEW l \in Seq(Acts), NEW a \in Acts, NEW n \in 0..Len(l), NEW m \in n..(Len(l) + 1)
  PROVE  /\ Greeted(l, n) => Greeted(Append(l, a), m)
         /\ Welcomed(l, n) => Welcomed(Append(l, a), m)
         /\ Prepared(l, n) => Prepared(Append(l, a), m)
<1> DEFINE L == Append(l, a)
<1>1. \A i \in 1..n : L[i] = l[i] /\ i \in 1..m
  BY AppendedAct
<1> HIDE DEF L
<1>2. Greeted(l, n) => Greeted(L, m)
  BY <1>1 DEF Greeted
<1>3. Welcomed(l, n) => Welcomed(L, m)
  BY <1>1 DEF Welcomed
<1>4. Prepared(l, n) => Prepared(L, m)
  BY <1>1 DEF Prepared
<1> QED
  BY <1>2, <1>3, <1>4 DEF L

LEMMA MilestonesStay ==
  ASSUME NEW l \in Seq(Acts), NEW a \in Acts
  PROVE  LET L == Append(l, a) IN
         /\ Greeted(l, Len(l)) => Greeted(L, Len(L))
         /\ Welcomed(l, Len(l)) => Welcomed(L, Len(L))
         /\ Prepared(l, Len(l)) => Prepared(L, Len(L))
<1>1. /\ Len(l) \in 0..Len(l) /\ Len(Append(l, a)) \in Len(l)..(Len(l) + 1)
  BY AppendedAct
<1> QED
  BY <1>1, MilestonesKept

\* An appended action reaches the milestone it is.
LEMMA MilestoneReached ==
  ASSUME NEW l \in Seq(Acts), NEW a \in Acts
  PROVE  LET L == Append(l, a) IN
         /\ IsSend(a, "HELLO") => Greeted(L, Len(L))
         /\ Greeted(l, Len(l)) /\ a.kind = "Established" => Welcomed(L, Len(L))
         /\ Welcomed(l, Len(l)) /\ IsSend(a, "CONFIG_ACK") => Prepared(L, Len(L))
<1> DEFINE L == Append(l, a)
<1>1. /\ Len(L) = Len(l) + 1 /\ Len(l) \in Nat
      /\ \A i \in 1..Len(l) : L[i] = l[i] /\ i \in 1..Len(L) /\ i < Len(L)
      /\ L[Len(L)] = a /\ Len(L) \in 1..Len(L)
  BY AppendedAct
<1> HIDE DEF L
<1>2. IsSend(a, "HELLO") => Greeted(L, Len(L))
  BY <1>1 DEF Greeted
<1>3. Greeted(l, Len(l)) /\ a.kind = "Established" => Welcomed(L, Len(L))
  BY <1>1 DEF Greeted, Welcomed
<1>4. Welcomed(l, Len(l)) /\ IsSend(a, "CONFIG_ACK") => Prepared(L, Len(L))
  BY <1>1 DEF Welcomed, Prepared
<1> QED
  BY <1>2, <1>3, <1>4 DEF L

\* What an appended action needs for the order of the milestones to be kept.
Admissible(l, a) ==
  /\ a.kind \in {"MediaExpected", "ConfigChanged"} => Prepared(l, Len(l))
  /\ a.kind = "SendControl" /\ a.msg \notin {"HELLO", "BYE"} => Greeted(l, Len(l))
  /\ IsSend(a, "HELLO") => \A i \in 1..Len(l) : l[i].kind # "SendControl"

LEMMA OrderKept ==
  ASSUME NEW l \in Seq(Acts), NEW a \in Acts, Ordered(l), Admissible(l, a)
  PROVE  Ordered(Append(l, a))
<1> DEFINE L == Append(l, a)
<1>1. /\ Len(L) = Len(l) + 1 /\ Len(l) \in Nat
      /\ \A i \in 1..Len(l) : L[i] = l[i]
      /\ L[Len(l) + 1] = a
  BY AppendedAct
<1>2. \A n \in 0..Len(l) : /\ Greeted(l, n) => Greeted(L, n)
                           /\ Prepared(l, n) => Prepared(L, n)
  BY <1>1, MilestonesKept
<1> HIDE DEF L
<1>3. ASSUME NEW j \in 1..Len(L) PROVE InTurn(L, j)
  <2>1. CASE j \in 1..Len(l)
    <3>1. InTurn(l, j) /\ L[j] = l[j] /\ j - 1 \in 0..Len(l)
          /\ \A i \in 1..(j - 1) : L[i] = l[i]
      BY <2>1, <1>1 DEF Ordered
    <3> QED
      BY <3>1, <1>2 DEF InTurn
  <2>2. CASE j = Len(l) + 1
    <3>1. j - 1 = Len(l) /\ L[j] = a /\ Len(l) \in 0..Len(l)
      BY <2>2, <1>1
    <3> QED
      BY <3>1, <1>1, <1>2 DEF InTurn, Admissible
  <2> QED
    BY <2>1, <2>2, <1>1
<1> QED
  BY <1>3 DEF Ordered, L

\* The first end is the last action.
LEMMA EndKept ==
  ASSUME NEW l \in Seq(Acts), NEW a \in Acts, NoEnd(l)
  PROVE  /\ EndsLast(Append(l, a))
         /\ ~IsEnd(a) => NoEnd(Append(l, a))
         /\ IsEnd(a) => ~NoEnd(Append(l, a))
  BY AppendedAct DEF EndsLast, NoEnd

\* An acknowledgement becomes the last one; anything else leaves it in place.
LEMMA AckKept ==
  ASSUME NEW l \in Seq(Acts), NEW a \in Acts, NEW c, AckedLast(l, c)
  PROVE  /\ ~IsSend(a, "CONFIG_ACK") => AckedLast(Append(l, a), c)
         /\ IsSend(a, "CONFIG_ACK") => AckedLast(Append(l, a), a.arg)
<1> DEFINE L == Append(l, a)
           A == {i \in 1..Len(l) : IsSend(l[i], "CONFIG_ACK")}
           B == {i \in 1..Len(L) : IsSend(L[i], "CONFIG_ACK")}
<1>1. /\ Len(L) = Len(l) + 1 /\ Len(l) \in Nat
      /\ \A i \in 1..Len(l) : L[i] = l[i]
      /\ L[Len(l) + 1] = a
  BY AppendedAct
<1>2. ASSUME ~IsSend(a, "CONFIG_ACK") PROVE AckedLast(L, c)
  <2>1. A = B
    BY <1>1, <1>2
  <2>2. \A i \in A : L[i] = l[i]
    BY <1>1
  <2> HIDE DEF L
  <2> QED
    BY <2>1, <2>2 DEF AckedLast
<1>3. ASSUME IsSend(a, "CONFIG_ACK") PROVE AckedLast(L, a.arg)
  <2>1. Len(L) \in B /\ L[Len(L)] = a /\ \A i \in B : i \in Int /\ i <= Len(L)
    BY <1>1, <1>3
  <2>2. a.arg # None
    BY SessionNoneAssumption DEF Acts
  <2> HIDE DEF L
  <2>3. \A i \in B : (\A k \in B : k <= i) => L[i].arg = a.arg
    BY <2>1, <1>1
  <2> QED
    BY <2>1, <2>2, <2>3 DEF AckedLast
<1> QED
  BY <1>2, <1>3

-----------------------------------------------------------------------------
(***************************************************************************)
(* The inductive invariant                                                 *)
(***************************************************************************)
SType ==
  /\ state \in {"Connecting", "Negotiating", "Streaming", "Closed", "Failed"}
  /\ step \in {"Welcome", "Config", "Start"}
  /\ config \in Nat \cup {None}
  /\ out \in Seq(Acts) /\ log \in Seq(Acts)
  /\ now \in Nat

\* What the state machine's phase says of the history.
Phases ==
  /\ state = "Connecting" => step = "Welcome" /\ log = << >>
  /\ state \in {"Negotiating", "Streaming"} => Greeted(log, Len(log))
  /\ step # "Welcome" => Welcomed(log, Len(log))
  /\ step = "Start" => Prepared(log, Len(log))
  /\ state = "Streaming" => step = "Start"
  /\ config = None <=> step # "Start"

\* A history with the properties wanted: c was acknowledged last.
Sound(l, c) == l \in Seq(Acts) /\ Ordered(l) /\ EndsLast(l) /\ AckedLast(l, c)

SInv == SType /\ Phases /\ Sound(log, config) /\ (Terminal <=> ~NoEnd(log))

\* The three properties are parts of the invariant.
LEMMA SInvImplies == SInv => EndsOnce /\ MilestoneOrder /\ ConfigAcked
<1> SUFFICES ASSUME SInv PROVE EndsOnce /\ MilestoneOrder /\ ConfigAcked
  OBVIOUS
<1>1. DOMAIN log = 1..Len(log) /\ Len(log) \in Nat
  BY DEF SInv, SType
<1>2. EndsOnce
  BY <1>1 DEF SInv, Sound, EndsLast, NoEnd, EndsOnce, Ends, IsEnd
<1>3. MilestoneOrder
  BY <1>1 DEF SInv, Sound, Ordered, InTurn, Greeted, Prepared, MilestoneOrder, Sends, IsSend
<1>4. ConfigAcked
  BY <1>1 DEF SInv, Sound, AckedLast, Phases, ConfigAcked, Sends, IsSend
<1> QED
  BY <1>2, <1>3, <1>4

\* Queueing an action that is no end.
LEMMA QueueMore ==
  ASSUME NEW l, NEW c, Sound(l, c), NoEnd(l), NEW a \in Acts, Admissible(l, a), ~IsEnd(a)
  PROVE  /\ Sound(Append(l, a), IF IsSend(a, "CONFIG_ACK") THEN a.arg ELSE c)
         /\ NoEnd(Append(l, a))
  BY AppendedAct, OrderKept, EndKept, AckKept DEF Sound

\* Queueing the end.
LEMMA QueueEnd ==
  ASSUME NEW l, NEW c, Sound(l, c), NoEnd(l), NEW a \in Acts, IsEnd(a)
  PROVE  Sound(Append(l, a), c) /\ ~NoEnd(Append(l, a))
<1>1. Admissible(l, a) /\ ~IsSend(a, "CONFIG_ACK")
  BY DEF Admissible, IsEnd, IsSend
<1> QED
  BY <1>1, AppendedAct, OrderKept, EndKept, AckKept DEF Sound

\* push, of one action and of two.
LEMMA PushOne ==
  ASSUME SType, NEW a \in Acts, push(<<a>>)
  PROVE  log' = Append(log, a) /\ out' \in Seq(Acts) /\ log' \in Seq(Acts)
  BY AppendedAct DEF SType, push

LEMMA PushTwo ==
  ASSUME SType, NEW a \in Acts, NEW b \in Acts, push(<<a, b>>)
  PROVE  /\ log' = Append(Append(log, a), b)
         /\ out' \in Seq(Acts) /\ log' \in Seq(Acts) /\ Append(log, a) \in Seq(Acts)
<1>1. <<a, b>> \in Seq(Acts)
  OBVIOUS
<1>2. log \o <<a, b>> = Append(Append(log, a), b)
  BY DEF SType
<1> QED
  BY <1>1, <1>2, AppendedAct DEF SType, push

-----------------------------------------------------------------------------
\* The steps of the state machine, each on its own.
LEMMA EndStep ==
  ASSUME SInv, ~Terminal, NEW a \in Acts, IsEnd(a), push(<<a>>),
         state' \in {"Closed", "Failed"}, UNCHANGED <<step, config, now>>
  PROVE  SInv'
<1>1. log' = Append(log, a) /\ out' \in Seq(Acts) /\ log' \in Seq(Acts)
  BY PushOne DEF SInv
<1>2. Sound(log', config) /\ ~NoEnd(log')
  BY <1>1, QueueEnd DEF SInv
<1>3. /\ Welcomed(log, Len(log)) => Welcomed(log', Len(log'))
      /\ Prepared(log, Len(log)) => Prepared(log', Len(log'))
  BY <1>1, MilestonesStay DEF SInv, SType
<1>4. SType'
  BY <1>1 DEF SInv, SType
<1>5. Phases'
  BY <1>3 DEF SInv, Phases
<1> QED
  BY <1>2, <1>4, <1>5 DEF SInv, Terminal

\* One action that is no end; what is left to show is the phase.
LEMMA MoreStep ==
  ASSUME SInv, ~Terminal, NEW a \in Acts, ~IsEnd(a), Admissible(log, a), push(<<a>>),
         state' \in {"Negotiating", "Streaming"},
         step' \in {"Welcome", "Config", "Start"}, now' \in Nat, Phases',
         config' = IF IsSend(a, "CONFIG_ACK") THEN a.arg ELSE config
  PROVE  SInv'
<1>1. log' = Append(log, a) /\ out' \in Seq(Acts) /\ log' \in Seq(Acts)
  BY PushOne DEF SInv
<1>2. Sound(log', config') /\ NoEnd(log')
  BY <1>1, QueueMore DEF SInv
<1>3. config' \in Nat \cup {None}
  BY DEF Acts, SInv, SType
<1>4. SType'
  BY <1>1, <1>3 DEF SType
<1> QED
  BY <1>2, <1>4 DEF SInv, Terminal

LEMMA ConnectedStep ==
  ASSUME SInv, state = "Connecting", Connected
  PROVE  SInv'
<1> DEFINE a == Act("SendControl", "HELLO", 0)
<1>1. a \in Acts /\ a.kind = "SendControl" /\ a.msg = "HELLO"
  BY DEF Act, Acts, Kinds, Sent
<1>2. push(<<a>>)
  BY DEF Connected
<1> HIDE DEF a
<1>3. log' = Append(log, a)
  BY <1>1, <1>2, PushOne DEF SInv
<1>4. Greeted(log', Len(log'))
  BY <1>1, <1>3, MilestoneReached DEF SInv, SType, IsSend
<1>5. Admissible(log, a) /\ ~IsEnd(a) /\ ~IsSend(a, "CONFIG_ACK")
  BY <1>1 DEF Admissible, SInv, Phases, IsSend, IsEnd
<1>6. Phases'
  BY <1>4 DEF SInv, Phases, Connected
<1> QED
  BY <1>1, <1>2, <1>5, <1>6, MoreStep DEF SInv, SType, Terminal, Connected

\* A message the state machine sends while it negotiates or streams.
LEMMA SendStep ==
  ASSUME SInv, state \in {"Negotiating", "Streaming"}, NEW a \in Acts,
         a.kind = "SendControl", a.msg \notin {"HELLO", "BYE", "CONFIG_ACK"},
         push(<<a>>), UNCHANGED score, now' \in Nat
  PROVE  SInv'
<1>1. log' = Append(log, a)
  BY PushOne DEF SInv
<1>2. /\ Greeted(log, Len(log)) => Greeted(log', Len(log'))
      /\ Welcomed(log, Len(log)) => Welcomed(log', Len(log'))
      /\ Prepared(log, Len(log)) => Prepared(log', Len(log'))
  BY <1>1, MilestonesStay DEF SInv, SType
<1>3. Admissible(log, a) /\ ~IsEnd(a) /\ ~IsSend(a, "CONFIG_ACK")
  BY DEF Admissible, SInv, Phases, IsSend, IsEnd
<1>4. Phases'
  BY <1>2 DEF SInv, Phases, score
<1> QED
  BY <1>3, <1>4, MoreStep DEF SInv, SType, Terminal, score

LEMMA TickStep ==
  ASSUME SInv, NEW t \in Nat, on_tick(t)
  PROVE  SInv'
<1>1. CASE TickDue(t)
  <2> DEFINE a == Act("SendControl", "CLOCK_PING", t)
  <2>1. a \in Acts /\ a.kind = "SendControl" /\ a.msg = "CLOCK_PING"
    BY DEF Act, Acts, Kinds, Sent
  <2>2. push(<<a>>) /\ UNCHANGED score /\ now' \in Nat
    BY <1>1 DEF on_tick
  <2> HIDE DEF a
  <2>3. state \in {"Negotiating", "Streaming"}
    BY <1>1 DEF TickDue, SInv, SType
  <2> QED
    BY <2>1, <2>2, <2>3, SendStep
<1>2. CASE ~TickDue(t)
  <2>1. UNCHANGED <<score, out, log>> /\ now' \in Nat
    BY <1>2 DEF on_tick, Quiet
  <2> QED
    BY <2>1 DEF SInv, SType, Phases, Terminal, score
<1> QED
  BY <1>1, <1>2

LEMMA ViewportStep ==
  ASSUME SInv, NEW t \in Nat, send_viewport(t)
  PROVE  SInv'
<1> DEFINE a == Act("SendControl", "VIEWPORT", t)
<1>1. a \in Acts /\ a.kind = "SendControl" /\ a.msg = "VIEWPORT"
  BY DEF Act, Acts, Kinds, Sent
<1>2. push(<<a>>) /\ UNCHANGED score /\ now' \in Nat /\ state = "Streaming"
  BY DEF send_viewport, ViewportDue
<1> HIDE DEF a
<1> QED
  BY <1>1, <1>2, SendStep

LEMMA PollStep ==
  ASSUME SInv, UNCHANGED <<score, log, now>>, out' \in Seq(Acts)
  PROVE  SInv'
  BY DEF SInv, SType, Phases, Terminal, score

LEMMA LostStep ==
  ASSUME SInv, ConnectionLost
  PROVE  SInv'
<1> DEFINE a == Act("Fatal", "", Internal)
<1>1. a \in Acts /\ IsEnd(a)
  BY CodesAssumption DEF Act, Acts, Kinds, Sent, IsEnd
<1>2. push(<<a>>) /\ state' = "Failed" /\ ~Terminal /\ UNCHANGED <<step, config, now>>
  BY DEF ConnectionLost
<1> HIDE DEF a
<1> QED
  BY <1>1, <1>2, EndStep

LEMMA UserByeStep ==
  ASSUME SInv, UserBye
  PROVE  SInv'
<1> DEFINE a == Act("SendControl", "BYE", 0)
           b == Act("Closed", "", 0)
           l == Append(log, a)
<1>1. a \in Acts /\ b \in Acts /\ a.kind = "SendControl" /\ a.msg = "BYE" /\ IsEnd(b)
  BY DEF Act, Acts, Kinds, Sent, IsEnd
<1>2. push(<<a, b>>) /\ state' = "Closed" /\ ~Terminal /\ UNCHANGED <<step, config, now>>
  BY DEF UserBye
<1> HIDE DEF a, b
<1>3. log' = Append(l, b) /\ l \in Seq(Acts) /\ log' \in Seq(Acts) /\ out' \in Seq(Acts)
  BY <1>1, <1>2, PushTwo DEF SInv
<1>4. Admissible(log, a) /\ ~IsEnd(a) /\ ~IsSend(a, "CONFIG_ACK")
  BY <1>1 DEF Admissible, IsSend, IsEnd
<1>5. Sound(l, config) /\ NoEnd(l)
  BY <1>1, <1>2, <1>4, QueueMore DEF SInv
<1>6. /\ Welcomed(log, Len(log)) => Welcomed(l, Len(l))
      /\ Prepared(log, Len(log)) => Prepared(l, Len(l))
  BY <1>1, MilestonesStay DEF SInv, SType
<1> HIDE DEF l
<1>7. Sound(log', config) /\ ~NoEnd(log')
  BY <1>1, <1>3, <1>5, QueueEnd
<1>8. /\ Welcomed(l, Len(l)) => Welcomed(log', Len(log'))
      /\ Prepared(l, Len(l)) => Prepared(log', Len(log'))
  BY <1>1, <1>3, MilestonesStay
<1>9. SType'
  BY <1>2, <1>3 DEF SInv, SType
<1>10. Phases'
  BY <1>2, <1>6, <1>8 DEF SInv, Phases
<1> QED
  BY <1>2, <1>7, <1>9, <1>10 DEF SInv, Terminal

LEMMA FatalStep ==
  ASSUME SInv, ~Terminal, NEW code \in Nat, fatal(code), UNCHANGED now
  PROVE  SInv'
<1> DEFINE a == Act("Fatal", "", code)
<1>1. a \in Acts /\ IsEnd(a)
  BY DEF Act, Acts, Kinds, Sent, IsEnd
<1>2. push(<<a>>) /\ state' = "Failed" /\ UNCHANGED <<step, config, now>>
  BY DEF fatal
<1> HIDE DEF a
<1> QED
  BY <1>1, <1>2, EndStep

LEMMA ReconfigureStep ==
  ASSUME SInv, NEW m \in Messages, Reconfigure(m), UNCHANGED now
  PROVE  SInv'
<1> DEFINE a == Ack(m)
           b == Act("ConfigChanged", "", 0)
           l == Append(log, a)
<1>1. /\ a \in Acts /\ IsSend(a, "CONFIG_ACK") /\ ~IsEnd(a) /\ a.arg = m.arg /\ m.arg \in Nat
      /\ b \in Acts /\ b.kind = "ConfigChanged"
  BY MessagesAssumption DEF Ack, Act, Acts, Kinds, Sent, IsSend, IsEnd
<1>2. push(<<a, b>>) /\ config' = a.arg /\ state = "Streaming" /\ UNCHANGED <<state, step, now>>
  BY <1>1 DEF Reconfigure, Reconfigured, Apply
<1> HIDE DEF a, b
<1>3. log' = Append(l, b) /\ l \in Seq(Acts) /\ log' \in Seq(Acts) /\ out' \in Seq(Acts)
  BY <1>1, <1>2, PushTwo DEF SInv
<1>4. Admissible(log, a)
  BY <1>1, <1>2 DEF Admissible, IsSend, SInv, Phases
<1>5. Sound(l, a.arg) /\ NoEnd(l)
  BY <1>1, <1>2, <1>4, QueueMore DEF SInv, Terminal
<1>6. /\ Greeted(l, Len(l)) /\ Welcomed(l, Len(l)) /\ Prepared(l, Len(l)) /\ step = "Start"
  BY <1>1, <1>2, MilestonesStay DEF SInv, SType, Phases
<1> HIDE DEF l
<1>7. Admissible(l, b) /\ ~IsEnd(b) /\ ~IsSend(b, "CONFIG_ACK")
  BY <1>1, <1>6 DEF Admissible, IsSend, IsEnd
<1>8. Sound(log', a.arg) /\ NoEnd(log')
  BY <1>1, <1>3, <1>5, <1>7, QueueMore
<1>9. Greeted(log', Len(log')) /\ Welcomed(log', Len(log')) /\ Prepared(log', Len(log'))
  BY <1>1, <1>3, <1>6, MilestonesStay
<1>10. SType'
  BY <1>1, <1>2, <1>3 DEF SInv, SType
<1>11. Phases'
  BY <1>1, <1>2, <1>6, <1>9, SessionNoneAssumption DEF Phases
<1> QED
  BY <1>2, <1>8, <1>10, <1>11 DEF SInv, Terminal

LEMMA WelcomeStep ==
  ASSUME SInv, NEW m \in Messages, Welcome(m), UNCHANGED now
  PROVE  SInv'
<1> DEFINE a == Act("Established", "", 0)
<1>1. a \in Acts /\ a.kind = "Established"
  BY DEF Act, Acts, Kinds, Sent
<1>2. /\ push(<<a>>) /\ state = "Negotiating" /\ step = "Welcome" /\ step' = "Config"
      /\ UNCHANGED <<state, config, now>>
  BY DEF Welcome
<1> HIDE DEF a
<1>3. log' = Append(log, a)
  BY <1>1, <1>2, PushOne DEF SInv
<1>4. Greeted(log', Len(log')) /\ Welcomed(log', Len(log'))
  BY <1>1, <1>2, <1>3, MilestonesStay, MilestoneReached DEF SInv, SType, Phases
<1>5. Admissible(log, a) /\ ~IsEnd(a) /\ ~IsSend(a, "CONFIG_ACK")
  BY <1>1 DEF Admissible, IsSend, IsEnd
<1>6. Phases'
  BY <1>2, <1>4 DEF SInv, Phases
<1> QED
  BY <1>1, <1>2, <1>5, <1>6, MoreStep DEF SInv, SType, Terminal

LEMMA ConfigureStep ==
  ASSUME SInv, NEW m \in Messages, Configure(m), UNCHANGED now
  PROVE  SInv'
<1> DEFINE a == Ack(m)
<1>1. a \in Acts /\ IsSend(a, "CONFIG_ACK") /\ a.arg = m.arg /\ m.arg \in Nat
  BY MessagesAssumption DEF Ack, Act, Acts, Kinds, Sent, IsSend
<1>2. /\ push(<<a>>) /\ state = "Negotiating" /\ step = "Config" /\ step' = "Start"
      /\ config' = a.arg /\ UNCHANGED <<state, now>>
  BY <1>1 DEF Configure, Apply
<1> HIDE DEF a
<1>3. log' = Append(log, a)
  BY <1>1, <1>2, PushOne DEF SInv
<1>4. Greeted(log', Len(log')) /\ Welcomed(log', Len(log')) /\ Prepared(log', Len(log'))
  BY <1>1, <1>2, <1>3, MilestonesStay, MilestoneReached DEF SInv, SType, Phases
<1>5. Admissible(log, a) /\ ~IsEnd(a)
  BY <1>1, <1>2 DEF Admissible, IsSend, IsEnd, SInv, Phases
<1>6. Phases'
  BY <1>1, <1>2, <1>4, SessionNoneAssumption DEF SInv, Phases
<1> QED
  BY <1>1, <1>2, <1>5, <1>6, MoreStep DEF SInv, SType, Terminal

LEMMA StartStep ==
  ASSUME SInv, NEW m \in Messages, Start(m), UNCHANGED now
  PROVE  SInv'
<1> DEFINE a == Act("MediaExpected", "", 0)
<1>1. a \in Acts /\ a.kind = "MediaExpected"
  BY DEF Act, Acts, Kinds, Sent
<1>2. /\ push(<<a>>) /\ state = "Negotiating" /\ step = "Start" /\ state' = "Streaming"
      /\ UNCHANGED <<step, config, now>>
  BY DEF Start, StartTurn
<1> HIDE DEF a
<1>3. log' = Append(log, a)
  BY <1>1, <1>2, PushOne DEF SInv
<1>4. Greeted(log', Len(log')) /\ Welcomed(log', Len(log')) /\ Prepared(log', Len(log'))
  BY <1>1, <1>2, <1>3, MilestonesStay DEF SInv, SType, Phases
<1>5. Admissible(log, a) /\ ~IsEnd(a) /\ ~IsSend(a, "CONFIG_ACK")
  BY <1>1, <1>2 DEF Admissible, IsSend, IsEnd, SInv, Phases
<1>6. Phases'
  BY <1>2, <1>4 DEF SInv, Phases
<1> QED
  BY <1>1, <1>2, <1>5, <1>6, MoreStep DEF SInv, SType, Terminal

\* handle_frame, by its outcomes.
LEMMA FrameStep ==
  ASSUME SInv, ~Terminal, NEW m \in Messages, handle_frame(m)
  PROVE  SInv'
<1>0. UNCHANGED now /\ m.arg \in Nat
  BY MessagesAssumption DEF handle_frame
<1>1. CASE Rejected(m)
  BY <1>0, <1>1, FatalStep, CodesAssumption DEF Rejected
<1>2. CASE Ignored(m)
  <2>1. UNCHANGED <<score, out, log, now>>
    BY <1>0, <1>2 DEF Ignored, Quiet
  <2> QED
    BY <2>1 DEF SInv, SType, Phases, Terminal, score
<1>3. CASE Bye(m)
  <2> DEFINE a == Act("Closed", "", 0)
  <2>1. a \in Acts /\ IsEnd(a)
    BY DEF Act, Acts, Kinds, Sent, IsEnd
  <2>2. push(<<a>>) /\ state' = "Closed" /\ UNCHANGED <<step, config, now>>
    BY <1>0, <1>3 DEF Bye
  <2> HIDE DEF a
  <2> QED
    BY <2>1, <2>2, EndStep
<1>4. CASE HostError(m)
  BY <1>0, <1>4, FatalStep DEF HostError
<1>5. CASE ClockPong(m)
  <2>1. UNCHANGED <<state, step, config, out, log, now>>
    BY <1>0, <1>5 DEF ClockPong, Quiet
  <2> QED
    BY <2>1 DEF SInv, SType, Phases, Terminal
<1>6. CASE Reconfigure(m)
  BY <1>0, <1>6, ReconfigureStep
<1>7. CASE Welcome(m)
  BY <1>0, <1>7, WelcomeStep
<1>8. CASE Configure(m)
  BY <1>0, <1>8, ConfigureStep
<1>9. CASE Start(m)
  BY <1>0, <1>9, StartStep
<1>10. CASE OutOfTurn(m)
  BY <1>0, <1>10, FatalStep, CodesAssumption DEF OutOfTurn
<1> QED
  BY <1>1, <1>2, <1>3, <1>4, <1>5, <1>6, <1>7, <1>8, <1>9, <1>10 DEF handle_frame

-----------------------------------------------------------------------------
LEMMA SInvInit == SessionInit => SInv
<1> SUFFICES ASSUME SessionInit PROVE SInv
  OBVIOUS
<1>1. log = << >> /\ Len(log) = 0 /\ 1..Len(log) = {} /\ << >> \in Seq(Acts)
  BY DEF SessionInit
<1>2. SType /\ Phases
  BY <1>1 DEF SessionInit, SType, Phases
<1>3. Sound(log, config) /\ NoEnd(log)
  BY <1>1 DEF SessionInit, Sound, Ordered, EndsLast, AckedLast, NoEnd
<1> QED
  BY <1>2, <1>3 DEF SInv, Terminal, SessionInit

\* The messages still to be handled are the host's.
SessionIInv == SInv /\ inbox \in Seq(Messages)

LEMMA SessionStep ==
  ASSUME SessionIInv, [SessionNext]_svars
  PROVE  SessionIInv'
<1> USE DEF SessionIInv
<1>1. CASE Receive
  <2>1. Head(inbox) \in Messages /\ Tail(inbox) \in Seq(Messages)
    BY <1>1 DEF Receive
  <2>2. SInv'
    BY <1>1, <2>1, FrameStep DEF Receive
  <2>3. inbox' \in Seq(Messages)
    BY <1>1, <2>1 DEF Receive, Unread
  <2> QED
    BY <2>2, <2>3
<1>2. CASE Api /\ Unread(inbox)
  <2>0. inbox' \in Seq(Messages)
    BY <1>2 DEF Unread
  <2>1. CASE state = "Connecting" /\ Connected
    BY <2>0, <2>1, ConnectedStep
  <2>2. CASE ConnectionLost
    BY <2>0, <2>2, LostStep
  <2>3. CASE UserBye
    BY <2>0, <2>3, UserByeStep
  <2>4. ASSUME NEW t \in Times, on_tick(t) PROVE SInv'
    BY <2>4, TickStep, SessionTimesAssumption
  <2>5. ASSUME NEW t \in Times, send_viewport(t) PROVE SInv'
    BY <2>5, ViewportStep, SessionTimesAssumption
  <2>6. CASE poll
    <3>1. UNCHANGED <<score, log, now>> /\ out' \in Seq(Acts)
      BY <2>6 DEF poll
    <3> QED
      BY <2>0, <3>1, PollStep
  <2> QED
    BY <1>2, <2>0, <2>1, <2>2, <2>3, <2>4, <2>5, <2>6 DEF Api
<1>3. CASE UNCHANGED svars
  BY <1>3, PollStep DEF svars, SInv, SType
<1> QED
  BY <1>1, <1>2, <1>3 DEF SessionNext

LEMMA SessionInvariant == SessionSpec => []SessionIInv
<1>1. ScriptInit => SessionIInv
  BY SInvInit, ScriptsAssumption DEF ScriptInit, SessionIInv
<1>2. SessionIInv /\ [SessionNext]_svars => SessionIInv'
  BY SessionStep
<1> QED
  BY <1>1, <1>2, PTL DEF SessionSpec

\* on_event, handle_frame, fatal: the session ends once, and no entry point queues
\* anything after the end, whatever the host sends and whenever the link is lost.
THEOREM SessionEndsOnce == SessionSpec => []EndsOnce
<1>1. SessionIInv => EndsOnce
  BY SInvImplies DEF SessionIInv
<1> QED
  BY <1>1, SessionInvariant, PTL

\* handle_frame: HELLO first, then Established, then the CONFIG_ACK, and only then
\* MediaExpected or ConfigChanged, for every sequence of host messages.
THEOREM SessionMilestones == SessionSpec => []MilestoneOrder
<1>1. SessionIInv => MilestoneOrder
  BY SInvImplies DEF SessionIInv
<1> QED
  BY <1>1, SessionInvariant, PTL

\* send_config_ack: the CONFIG in force is always the one acknowledged last.
THEOREM SessionConfigAcked == SessionSpec => []ConfigAcked
<1>1. SessionIInv => ConfigAcked
  BY SInvImplies DEF SessionIInv
<1> QED
  BY <1>1, SessionInvariant, PTL

-----------------------------------------------------------------------------
(***************************************************************************)
(* NetSession: the pump around the session                                 *)
(***************************************************************************)
Sids == {0, 1} \cup {Extras[i] : i \in DOMAIN Extras}
AllStreams == <<0>> \o Extras

Events ==
  [kind : {"Connected", "Closed"}] \cup [kind : {"ControlBytes"}, chunk : Seq(Messages)]
    \cup [kind : {"Datagram"}, sid : Sids]

\* What the queued actions hold.
EndOut == \E i \in 1..Len(out) : IsEnd(out[i])
AckOut == \E i \in 1..Len(out) : IsSend(out[i], "CONFIG_ACK")
StartOut == \E i \in 1..Len(out) : out[i].kind = "MediaExpected"

NetType ==
  /\ link \in {"starting", "up", "shut"}
  /\ pc \in {"idle", "drain", "chunk", "viewport", "poll", "app"}
  /\ events \in Seq(Events) /\ script \in Seq(Messages) /\ inbox \in Seq(Messages)

\* The connection: Connected can only be the oldest event, and the session has not
\* seen it; a datagram is queued only when its receiver is there.
Queue ==
  /\ link = "starting" => events = << >> /\ state \in {"Connecting", "Closed", "Failed"}
  /\ \A i \in 1..Len(events) :
       /\ events[i].kind = "Connected" => i = 1 /\ state \in {"Connecting", "Closed", "Failed"}
       /\ events[i].kind = "Closed" => link = "shut"
       /\ events[i].kind = "Datagram" =>
            built /\ (events[i].sid > 1 => active_features = MultiDisplay)

\* The receivers: built between the CONFIG and the poll that sends its CONFIG_ACK.
Built ==
  /\ built => config # None
  /\ config # None => built \/ pc = "chunk"
  /\ receivers = IF built /\ active_features = MultiDisplay THEN AllStreams ELSE <<0>>
  /\ AckOut \/ StartOut => config # None
  /\ "CONFIG_ACK" \in got \/ streaming => built
  /\ unserved = {}

\* The windows: they are added once, by the pump that polled the one MediaExpected.
Started ==
  /\ state \in {"Connecting", "Negotiating"} => ~streaming /\ ~StartOut /\ windows = <<0>>
  /\ StartOut => windows = <<0>>
  /\ just_started => streaming /\ pc \in {"app", "idle"}
  /\ just_started /\ pc = "app" => windows = <<0>>
  /\ windows \in Seq(Nat) /\ Injective(windows)
  /\ \A i \in 1..Len(windows) : windows[i] \in Served

\* The end: it is in the actions not drained yet, or the flags have it.
Ended ==
  /\ pc \in {"idle", "app"} => out = << >>
  /\ EndOut => Terminal
  /\ Terminal => Finished \/ EndOut
  /\ Finished => Terminal \/ link = "shut"

NInv == SInv /\ NetType /\ Queue /\ Built /\ Started /\ Ended

\* What one queued action, and two, add.
LEMMA OutOne ==
  ASSUME SType, NEW a \in Acts, push(<<a>>)
  PROVE  /\ EndOut' <=> EndOut \/ IsEnd(a)
         /\ AckOut' <=> AckOut \/ IsSend(a, "CONFIG_ACK")
         /\ StartOut' <=> StartOut \/ a.kind = "MediaExpected"
<1>1. /\ Len(out) \in Nat /\ Len(out') = Len(out) + 1
      /\ \A i \in 1..Len(out) : out'[i] = out[i]
      /\ out'[Len(out) + 1] = a
  BY DEF SType, push
<1>2. EndOut' <=> EndOut \/ IsEnd(a)
  BY <1>1 DEF EndOut
<1>3. AckOut' <=> AckOut \/ IsSend(a, "CONFIG_ACK")
  BY <1>1 DEF AckOut
<1>4. StartOut' <=> StartOut \/ a.kind = "MediaExpected"
  BY <1>1 DEF StartOut
<1> QED
  BY <1>2, <1>3, <1>4

LEMMA OutTwo ==
  ASSUME SType, NEW a \in Acts, NEW b \in Acts, push(<<a, b>>)
  PROVE  /\ EndOut' <=> EndOut \/ IsEnd(a) \/ IsEnd(b)
         /\ StartOut' <=> StartOut \/ a.kind = "MediaExpected" \/ b.kind = "MediaExpected"
<1>1. /\ Len(out) \in Nat /\ Len(out') = Len(out) + 2
      /\ \A i \in 1..Len(out) : out'[i] = out[i]
      /\ out'[Len(out) + 1] = a /\ out'[Len(out) + 2] = b
  BY DEF SType, push
<1>2. \A i \in 1..Len(out') : i \in 1..Len(out) \/ i = Len(out) + 1 \/ i = Len(out) + 2
  BY <1>1
<1>3. EndOut' <=> EndOut \/ IsEnd(a) \/ IsEnd(b)
  BY <1>1, <1>2 DEF EndOut
<1>4. StartOut' <=> StartOut \/ a.kind = "MediaExpected" \/ b.kind = "MediaExpected"
  BY <1>1, <1>2 DEF StartOut
<1> QED
  BY <1>3, <1>4

LEMMA OutNone ==
  ASSUME UNCHANGED out
  PROVE  (EndOut' <=> EndOut) /\ (AckOut' <=> AckOut) /\ (StartOut' <=> StartOut)
  BY DEF EndOut, AckOut, StartOut

\* What a call of the session does, as far as the pump can tell.
Summary ==
  /\ EndOut' <=> EndOut \/ Terminal'
  /\ AckOut' => AckOut \/ config' # None
  /\ StartOut' => StartOut \/ (state = "Negotiating" /\ config' # None)
  /\ state' \in {"Connecting", "Negotiating"} =>
       state \in {"Connecting", "Negotiating"} /\ (StartOut' => StartOut)
  /\ config # None => config' # None /\ UNCHANGED active_features

LEMMA FatalSummary ==
  ASSUME SInv, NEW a \in Acts, IsEnd(a), push(<<a>>), Terminal',
         UNCHANGED <<config, active_features>>
  PROVE  Summary
<1>1. ~IsSend(a, "CONFIG_ACK") /\ a.kind # "MediaExpected"
  BY DEF IsEnd, IsSend
<1> QED
  BY <1>1, OutOne DEF SInv, Summary, Terminal

LEMMA CallSummary ==
  ASSUME SInv, NEW a \in Acts, ~IsEnd(a), push(<<a>>), ~Terminal',
         IsSend(a, "CONFIG_ACK") => config' # None,
         a.kind = "MediaExpected" =>
           state = "Negotiating" /\ config' # None /\ state' = "Streaming",
         state' \in {"Connecting", "Negotiating"} => state \in {"Connecting", "Negotiating"},
         config # None => config' # None /\ UNCHANGED active_features
  PROVE  Summary
<1> QED
  BY OutOne DEF SInv, Summary

\* handle_frame as the pump sees it: it leaves the phase before the connection only
\* for a terminal one.
LEMMA FrameSummary ==
  ASSUME SInv, ~Terminal, NEW m \in Messages, handle_frame(m)
  PROVE  Summary /\ (state = "Connecting" => state' \in {"Connecting", "Closed", "Failed"})
<1>0. m.arg \in Nat /\ m.arg # None
  BY MessagesAssumption, SessionNoneAssumption
<1>1. ASSUME NEW code \in Nat, fatal(code)
      PROVE  Summary /\ state' = "Failed"
  <2> DEFINE a == Act("Fatal", "", code)
  <2>1. a \in Acts /\ IsEnd(a)
    BY DEF Act, Acts, Kinds, Sent, IsEnd
  <2>2. push(<<a>>) /\ state' = "Failed" /\ UNCHANGED <<config, active_features>>
    BY <1>1 DEF fatal
  <2> HIDE DEF a
  <2> QED
    BY <2>1, <2>2, FatalSummary DEF Terminal
<1>2. CASE Rejected(m)
  BY <1>1, <1>2, CodesAssumption DEF Rejected
<1>3. CASE Ignored(m)
  <2>1. UNCHANGED <<state, config, active_features, out>>
    BY <1>3 DEF Ignored, Quiet, score
  <2> QED
    BY <2>1, OutNone DEF Summary, Terminal, SInv, SType
<1>4. CASE Bye(m)
  <2> DEFINE a == Act("Closed", "", 0)
  <2>1. a \in Acts /\ IsEnd(a)
    BY DEF Act, Acts, Kinds, Sent, IsEnd
  <2>2. push(<<a>>) /\ state' = "Closed" /\ UNCHANGED <<config, active_features>>
    BY <1>4 DEF Bye
  <2> HIDE DEF a
  <2> QED
    BY <2>1, <2>2, FatalSummary DEF Terminal
<1>5. CASE HostError(m)
  BY <1>0, <1>1, <1>5 DEF HostError
<1>6. CASE ClockPong(m)
  <2>1. UNCHANGED <<state, config, active_features, out>>
    BY <1>6 DEF ClockPong, Quiet
  <2> QED
    BY <2>1, OutNone DEF Summary, Terminal, SInv, SType
<1>7. CASE Reconfigure(m)
  <2> DEFINE a == Ack(m)
             b == Act("ConfigChanged", "", 0)
  <2>1. /\ a \in Acts /\ ~IsEnd(a) /\ a.kind # "MediaExpected"
        /\ b \in Acts /\ ~IsEnd(b) /\ b.kind # "MediaExpected"
    BY <1>0 DEF Ack, Act, Acts, Kinds, Sent, IsEnd
  <2>2. /\ push(<<a, b>>) /\ config' = m.arg /\ state = "Streaming"
        /\ UNCHANGED <<state, active_features>>
    BY <1>7 DEF Reconfigure, Reconfigured, Apply
  <2> HIDE DEF a, b
  <2> QED
    BY <1>0, <2>1, <2>2, OutTwo DEF Summary, Terminal, SInv
<1>8. CASE Welcome(m)
  <2> DEFINE a == Act("Established", "", 0)
  <2>1. a \in Acts /\ ~IsEnd(a) /\ a.kind = "Established" /\ ~IsSend(a, "CONFIG_ACK")
    BY DEF Act, Acts, Kinds, Sent, IsEnd, IsSend
  <2>2. push(<<a>>) /\ state = "Negotiating" /\ step = "Welcome" /\ UNCHANGED <<state, config>>
    BY <1>8 DEF Welcome
  <2> HIDE DEF a
  <2>3. config = None
    BY <2>2 DEF SInv, Phases
  <2> QED
    BY <2>1, <2>2, <2>3, CallSummary DEF Terminal
<1>9. CASE Configure(m)
  <2> DEFINE a == Ack(m)
  <2>1. a \in Acts /\ ~IsEnd(a) /\ a.kind # "MediaExpected"
    BY <1>0 DEF Ack, Act, Acts, Kinds, Sent, IsEnd
  <2>2. push(<<a>>) /\ state = "Negotiating" /\ config' = m.arg /\ UNCHANGED <<state, active_features>>
    BY <1>9 DEF Configure, Apply
  <2> HIDE DEF a
  <2> QED
    BY <1>0, <2>1, <2>2, CallSummary DEF Terminal
<1>10. CASE Start(m)
  <2> DEFINE a == Act("MediaExpected", "", 0)
  <2>1. a \in Acts /\ ~IsEnd(a) /\ a.kind = "MediaExpected" /\ ~IsSend(a, "CONFIG_ACK")
    BY DEF Act, Acts, Kinds, Sent, IsEnd, IsSend
  <2>2. /\ push(<<a>>) /\ state = "Negotiating" /\ state' = "Streaming" /\ step = "Start"
        /\ UNCHANGED <<config, active_features>>
    BY <1>10 DEF Start, StartTurn
  <2> HIDE DEF a
  <2>3. config # None
    BY <2>2 DEF SInv, Phases
  <2> QED
    BY <2>1, <2>2, <2>3, CallSummary DEF Terminal
<1>11. CASE OutOfTurn(m)
  BY <1>1, <1>11, CodesAssumption DEF OutOfTurn
<1> QED
  BY <1>2, <1>3, <1>4, <1>5, <1>6, <1>7, <1>8, <1>9, <1>10, <1>11 DEF handle_frame

LEMMA ConnectedSummary ==
  ASSUME SInv, state = "Connecting", Connected
  PROVE  Summary
<1> DEFINE a == Act("SendControl", "HELLO", 0)
<1>1. a \in Acts /\ ~IsEnd(a) /\ a.kind # "MediaExpected" /\ ~IsSend(a, "CONFIG_ACK")
  BY DEF Act, Acts, Kinds, Sent, IsEnd, IsSend
<1>2. push(<<a>>) /\ state' = "Negotiating" /\ UNCHANGED <<config, active_features>>
  BY DEF Connected
<1> HIDE DEF a
<1> QED
  BY <1>1, <1>2, CallSummary DEF Terminal

\* A message sent on a timer; a call that sends nothing changes nothing the pump sees.
LEMMA SendSummary ==
  ASSUME SInv, ~Terminal, UNCHANGED score, NEW a \in Acts, push(<<a>>),
         a.kind = "SendControl", a.msg # "CONFIG_ACK"
  PROVE  Summary
<1>1. ~IsEnd(a) /\ a.kind # "MediaExpected" /\ ~IsSend(a, "CONFIG_ACK")
  BY DEF IsEnd, IsSend
<1> QED
  BY <1>1, CallSummary DEF score, Terminal

LEMMA TickSummary ==
  ASSUME SInv, NEW t \in Nat, on_tick(t)
  PROVE  UNCHANGED score /\ (UNCHANGED out \/ (~Terminal /\ Summary))
<1>1. CASE TickDue(t)
  <2> DEFINE a == Act("SendControl", "CLOCK_PING", t)
  <2>1. a \in Acts /\ a.kind = "SendControl" /\ a.msg # "CONFIG_ACK"
    BY DEF Act, Acts, Kinds, Sent
  <2>2. push(<<a>>) /\ UNCHANGED score /\ ~Terminal
    BY <1>1 DEF on_tick, TickDue, Terminal
  <2> HIDE DEF a
  <2> QED
    BY <2>1, <2>2, SendSummary
<1>2. CASE ~TickDue(t)
  BY <1>2 DEF on_tick, Quiet
<1> QED
  BY <1>1, <1>2

LEMMA ViewportSummary ==
  ASSUME SInv, NEW t \in Nat, send_viewport(t)
  PROVE  UNCHANGED score /\ ~Terminal /\ Summary
<1> DEFINE a == Act("SendControl", "VIEWPORT", t)
<1>1. a \in Acts /\ a.kind = "SendControl" /\ a.msg # "CONFIG_ACK"
  BY DEF Act, Acts, Kinds, Sent
<1>2. push(<<a>>) /\ UNCHANGED score /\ ~Terminal
  BY DEF send_viewport, ViewportDue, Terminal
<1> HIDE DEF a
<1> QED
  BY <1>1, <1>2, SendSummary

-----------------------------------------------------------------------------
\* The event queue, after an event was taken and after one was added.
LEMMA Taken ==
  ASSUME NEW S, NEW q \in Seq(S), q # << >>
  PROVE  /\ Head(q) = q[1] /\ Head(q) \in S /\ Len(q) \in Nat /\ 1 \in 1..Len(q)
         /\ Tail(q) \in Seq(S) /\ Len(Tail(q)) = Len(q) - 1
         /\ \A i \in 1..Len(Tail(q)) : Tail(q)[i] = q[i + 1] /\ i + 1 \in 1..Len(q) /\ i + 1 # 1
  OBVIOUS

\* A call of the session from inside the pump.  Only a chunk's frames can apply a
\* CONFIG.
LEMMA CallStep ==
  ASSUME NInv, SInv', Summary, ~Terminal,
         pc \in {"drain", "chunk", "viewport"}, pc' \in {"drain", "chunk", "viewport", "poll"},
         inbox' \in Seq(Messages),
         config' # config => pc = "chunk",
         pc = "chunk" => pc' = "chunk",
         state \in {"Connecting", "Closed", "Failed"} => state' \in {"Connecting", "Closed", "Failed"},
         UNCHANGED <<link, events, script, got, fvars, avars>>
  PROVE  NInv'
<1> USE DEF fvars, avars
<1>1. NetType'
  BY DEF NInv, NetType
<1>2. Served' = Served
  BY DEF Served
<1>3. Built'
  BY DEF NInv, Built, Summary
<1>4. Started'
  BY <1>2 DEF NInv, Started, Summary, Injective
<1>5. Ended'
  BY DEF NInv, Ended, Summary, Terminal, Finished
<1>6. Queue'
  BY DEF NInv, Queue, Built, Summary
<1> QED
  BY <1>1, <1>3, <1>4, <1>5, <1>6 DEF NInv

\* A step that leaves the session and the application alone and removes the oldest
\* event, or none.
LEMMA QueueShrinks ==
  ASSUME NetType, Queue, UNCHANGED <<link, state, built, active_features>>,
         \/ events' = events
         \/ events # << >> /\ events' = Tail(events)
  PROVE  Queue' /\ events' \in Seq(Events)
<1>1. CASE events' = events
  BY <1>1 DEF NetType, Queue
<1>2. CASE events # << >> /\ events' = Tail(events)
  <2>1. /\ events' \in Seq(Events)
        /\ \A i \in 1..Len(events') : events'[i] = events[i + 1] /\ i + 1 \in 1..Len(events) /\ i + 1 # 1
    BY <1>2, Taken DEF NetType
  <2> QED
    BY <1>2, <2>1 DEF Queue
<1> QED
  BY <1>1, <1>2

LEMMA PumpConnectedStep ==
  ASSUME NInv, PumpConnected
  PROVE  NInv'
<1> USE DEF fvars, avars
<1>1. /\ pc = "drain" /\ events # << >> /\ Head(events).kind = "Connected" /\ events' = Tail(events)
      /\ UNCHANGED <<link, script, got, fvars, avars, pc, inbox>>
  BY DEF PumpConnected, Take, svars
<1>2. /\ events[1].kind = "Connected" /\ 1 \in 1..Len(events)
      /\ events' \in Seq(Events)
      /\ \A i \in 1..Len(events') : events'[i] = events[i + 1] /\ i + 1 \in 1..Len(events) /\ i + 1 # 1
  BY <1>1, Taken DEF NInv, NetType
<1>3. state \in {"Connecting", "Closed", "Failed"} /\ link # "starting"
  BY <1>1, <1>2 DEF NInv, Queue
<1>4. Served' = Served
  BY <1>1 DEF Served
<1>5. NetType'
  BY <1>1, <1>2 DEF NInv, NetType
<1>6. CASE Terminal
  <2>1. UNCHANGED svars
    BY <1>6 DEF PumpConnected
  <2>2. SInv'
    BY <2>1, PollStep DEF svars, NInv, SInv, SType
  <2>3. UNCHANGED <<state, config, active_features, out>>
    BY <2>1 DEF svars, score
  <2>4. (EndOut' <=> EndOut) /\ (AckOut' <=> AckOut) /\ (StartOut' <=> StartOut)
    BY <2>3, OutNone
  <2>5. Queue'
    BY <1>1, <2>3, QueueShrinks DEF NInv
  <2>6. Built'
    BY <1>1, <2>3, <2>4 DEF NInv, Built
  <2>7. Started'
    BY <1>1, <1>4, <2>3, <2>4 DEF NInv, Started, Injective
  <2>8. Ended'
    BY <1>1, <2>3, <2>4 DEF NInv, Ended, Terminal, Finished
  <2> QED
    BY <1>5, <2>2, <2>5, <2>6, <2>7, <2>8 DEF NInv
<1>7. CASE ~Terminal
  <2>1. state = "Connecting" /\ Connected
    BY <1>3, <1>7 DEF PumpConnected, Terminal
  <2>2. SInv' /\ Summary
    BY <2>1, ConnectedStep, ConnectedSummary DEF NInv
  <2>3. state' = "Negotiating" /\ UNCHANGED <<config, active_features>>
    BY <2>1 DEF Connected
  <2>4. Queue'
    BY <1>1, <1>2, <1>3, <2>3 DEF NInv, Queue
  <2>5. Built'
    BY <1>1, <2>2, <2>3 DEF NInv, Built, Summary
  <2>6. Started'
    BY <1>1, <1>4, <2>1, <2>2, <2>3 DEF NInv, Started, Injective, Summary
  <2>7. Ended'
    BY <1>1, <1>7, <2>2, <2>3 DEF NInv, Ended, Terminal, Finished, Summary
  <2> QED
    BY <1>5, <2>2, <2>4, <2>5, <2>6, <2>7 DEF NInv
<1> QED
  BY <1>6, <1>7

LEMMA PumpFrameStep ==
  ASSUME NInv, PumpFrame
  PROVE  NInv'
<1>1. /\ pc = "chunk" /\ ~Terminal /\ inbox # << >> /\ handle_frame(Head(inbox))
      /\ Unread(Tail(inbox)) /\ UNCHANGED <<tvars, fvars, avars, pc>>
  BY DEF PumpFrame, Receive
<1>2. Head(inbox) \in Messages /\ inbox' \in Seq(Messages)
  BY <1>1, Taken DEF NInv, NetType, Unread
<1>3. SInv' /\ Summary /\ (state = "Connecting" => state' \in {"Connecting", "Closed", "Failed"})
  BY <1>1, <1>2, FrameStep, FrameSummary DEF NInv
<1> QED
  BY <1>1, <1>2, <1>3, CallStep DEF tvars, Terminal

\* A step that changes neither the session, nor the receivers, nor the windows.
LEMMA OutsideStep ==
  ASSUME NInv, UNCHANGED <<score, out, log, receivers, built, streaming, windows, unserved, got>>,
         now' \in Nat, NetType', Queue',
         pc = "chunk" => pc' = "chunk",
         pc' \in {"idle", "app"} => pc \in {"idle", "app"},
         pc' = "app" => pc = "app",
         just_started' => just_started /\ pc' = pc,
         Finished => Finished',
         Finished' => Finished \/ link' = "shut",
         link = "shut" => link' = "shut"
  PROVE  NInv'
<1>1. SInv'
  BY PollStep DEF NInv, SInv, SType, Phases, Terminal, score
<1>2. (EndOut' <=> EndOut) /\ (AckOut' <=> AckOut) /\ (StartOut' <=> StartOut)
  BY OutNone
<1>3. Served' = Served /\ UNCHANGED <<state, config, active_features>>
  BY DEF Served, score
<1>4. Built'
  BY <1>2, <1>3 DEF NInv, Built
<1>5. Started'
  BY <1>2, <1>3 DEF NInv, Started, Injective
<1>6. Ended'
  BY <1>2, <1>3 DEF NInv, Ended, Terminal
<1> QED
  BY <1>1, <1>4, <1>5, <1>6 DEF NInv

\* An event is added to the queue.
LEMMA QueueGrows ==
  ASSUME NetType, Queue, NEW ev \in Events, Enqueue(ev),
         UNCHANGED <<state, built, active_features>>,
         link' # "starting", link = "shut" => link' = "shut",
         ev.kind = "Connected" => link = "starting",
         ev.kind = "Closed" => link' = "shut",
         ev.kind = "Datagram" => built /\ (ev.sid > 1 => active_features = MultiDisplay)
  PROVE  Queue' /\ events' \in Seq(Events)
<1>1. /\ events' \in Seq(Events) /\ Len(events) \in Nat /\ Len(events') = Len(events) + 1
      /\ \A i \in 1..Len(events) : events'[i] = events[i]
      /\ events'[Len(events) + 1] = ev
  BY DEF NetType, Enqueue
<1>2. \A i \in 1..Len(events') : i \in 1..Len(events) \/ i = Len(events) + 1
  BY <1>1
<1>3. ev.kind = "Connected" => Len(events) = 0 /\ state \in {"Connecting", "Closed", "Failed"}
  BY DEF Queue
<1>4. ASSUME NEW i \in 1..Len(events')
      PROVE  /\ events'[i].kind = "Connected" => i = 1 /\ state \in {"Connecting", "Closed", "Failed"}
             /\ events'[i].kind = "Closed" => link' = "shut"
             /\ events'[i].kind = "Datagram" =>
                  built /\ (events'[i].sid > 1 => active_features = MultiDisplay)
  BY <1>1, <1>2, <1>3 DEF Queue
<1> QED
  BY <1>1, <1>4 DEF Queue

\* msquic's threads, the UI thread and the clock.
LEMMA OutsideNetStep ==
  ASSUME NInv, Network \/ OnShutdown \/ Clock
               \/ (\E sid \in Sids : OnDatagram(sid))
               \/ (\E size \in Sizes : request_viewport(size))
  PROVE  NInv'
<1> USE DEF tvars, fvars, avars, svars
<1>0. now \in Nat /\ NetType /\ Queue
  BY DEF NInv, SInv, SType
<1>1. CASE OnConnected
  <2> DEFINE ev == [kind |-> "Connected"]
  <2>1. ev \in Events /\ ev.kind = "Connected"
    BY DEF Events
  <2>2. Enqueue(ev) /\ link = "starting" /\ link' = "up" /\ UNCHANGED <<state, built, active_features>>
    BY <1>1 DEF OnConnected, score
  <2> HIDE DEF ev
  <2>3. Queue' /\ events' \in Seq(Events)
    BY <1>0, <2>1, <2>2, QueueGrows
  <2>4. NetType'
    BY <1>0, <1>1, <2>2, <2>3 DEF NetType, OnConnected
  <2> QED
    BY <1>0, <1>1, <2>2, <2>3, <2>4, OutsideStep DEF OnConnected, Finished, NetType
<1>2. ASSUME NEW n \in 1..2, OnControl(n) PROVE NInv'
  <2> DEFINE ev == [kind |-> "ControlBytes", chunk |-> SubSeq(script, 1, n)]
  <2>0. /\ SubSeq(script, 1, n) \in Seq(Messages)
        /\ SubSeq(script, n + 1, Len(script)) \in Seq(Messages)
    BY <1>0, <1>2, SubSeqProperties DEF NetType, OnControl
  <2>1. ev \in Events /\ ev.kind = "ControlBytes"
    BY <2>0 DEF Events
  <2>2. Enqueue(ev) /\ link = "up" /\ UNCHANGED <<link, state, built, active_features>>
    BY <1>2 DEF OnControl, score
  <2> HIDE DEF ev
  <2>3. Queue' /\ events' \in Seq(Events)
    BY <1>0, <2>1, <2>2, QueueGrows
  <2>4. NetType'
    BY <1>0, <1>2, <2>0, <2>2, <2>3 DEF NetType, OnControl
  <2> QED
    BY <1>0, <1>2, <2>2, <2>3, <2>4, OutsideStep DEF OnControl, Finished
<1>3. CASE OnShutdown
  <2> DEFINE ev == [kind |-> "Closed"]
  <2>1. ev \in Events /\ ev.kind = "Closed"
    BY DEF Events
  <2>2. Enqueue(ev) /\ link' = "shut" /\ UNCHANGED <<state, built, active_features>>
    BY <1>3 DEF OnShutdown, score
  <2> HIDE DEF ev
  <2>3. Queue' /\ events' \in Seq(Events)
    BY <1>0, <2>1, <2>2, QueueGrows
  <2>4. NetType'
    BY <1>0, <1>3, <2>2, <2>3 DEF NetType, OnShutdown
  <2> QED
    BY <1>0, <1>3, <2>2, <2>3, <2>4, OutsideStep DEF OnShutdown, Finished
<1>4. ASSUME NEW sid \in Sids, OnDatagram(sid) PROVE NInv'
  <2> DEFINE ev == [kind |-> "Datagram", sid |-> sid]
  <2>1. ev \in Events /\ ev.kind = "Datagram" /\ ev.sid = sid
    BY DEF Events
  <2>2. /\ Enqueue(ev) /\ link = "up" /\ UNCHANGED <<link, state, built, active_features>>
        /\ (sid > 1 => active_features = MultiDisplay) /\ "CONFIG_ACK" \in got
    BY <1>4 DEF OnDatagram, score
  <2> HIDE DEF ev
  <2>3. built
    BY <2>2 DEF NInv, Built
  <2>4. Queue' /\ events' \in Seq(Events)
    BY <1>0, <2>1, <2>2, <2>3, QueueGrows
  <2>5. NetType'
    BY <1>0, <1>4, <2>2, <2>4 DEF NetType, OnDatagram
  <2> QED
    BY <1>0, <1>4, <2>2, <2>4, <2>5, OutsideStep DEF OnDatagram, Finished
<1>5. ASSUME NEW size \in Sizes, request_viewport(size) PROVE NInv'
  <2>1. NetType' /\ Queue'
    BY <1>5, <1>0 DEF request_viewport, NetType, Queue, score
  <2> QED
    BY <1>0, <1>5, <2>1, OutsideStep DEF request_viewport, Finished
<1>6. CASE Clock
  <2>1. NetType' /\ Queue'
    BY <1>6, <1>0 DEF Clock, NetType, Queue, score
  <2> QED
    BY <1>0, <1>6, <2>1, OutsideStep DEF Clock, Finished
<1> QED
  BY <1>1, <1>2, <1>3, <1>4, <1>5, <1>6 DEF Network

-----------------------------------------------------------------------------
\* The streams behind the receivers.
LEMMA ServedStreams ==
  ASSUME Built
  PROVE  /\ 0 \in Served
         /\ built /\ active_features = MultiDisplay => Served = {0} \cup {Extras[i] : i \in DOMAIN Extras}
         /\ Injective(receivers) /\ receivers[1] = 0
<1>1. CASE receivers = <<0>>
  <2>1. Served = {0} /\ Injective(receivers) /\ receivers[1] = 0
    BY <1>1 DEF Served, Injective
  <2>2. built /\ active_features = MultiDisplay => <<0>> = AllStreams
    BY <1>1 DEF Built
  <2>3. <<0>> = AllStreams => DOMAIN Extras = {}
    BY ExtrasAssumption DEF AllStreams
  <2> QED
    BY <2>1, <2>2, <2>3
<1>2. CASE receivers = AllStreams
  <2>1. /\ DOMAIN receivers = 1..(Len(Extras) + 1) /\ receivers[1] = 0
        /\ DOMAIN Extras = 1..Len(Extras) /\ Len(Extras) \in Nat
        /\ \A i \in DOMAIN Extras : i + 1 \in DOMAIN receivers /\ receivers[i + 1] = Extras[i]
        /\ \A i \in DOMAIN receivers : i # 1 => i - 1 \in DOMAIN Extras /\ receivers[i] = Extras[i - 1]
    BY <1>2, ExtrasAssumption DEF AllStreams
  <2>2. Served = {0} \cup {Extras[i] : i \in DOMAIN Extras}
    <3>1. ASSUME NEW i \in DOMAIN receivers
          PROVE  receivers[i] \in {0} \cup {Extras[k] : k \in DOMAIN Extras}
      BY <2>1
    <3>2. 0 \in Served /\ \A i \in DOMAIN Extras : Extras[i] \in Served
      BY <2>1 DEF Served
    <3> QED
      BY <3>1, <3>2 DEF Served
  <2>3. Injective(receivers)
    <3>1. SUFFICES ASSUME NEW i \in DOMAIN receivers, NEW j \in DOMAIN receivers, i # j
                   PROVE  receivers[i] # receivers[j]
      BY DEF Injective
    <3>2. \A k \in DOMAIN Extras : Extras[k] >= 2 /\ Extras[k] \in Nat
      BY ExtrasAssumption
    <3>3. CASE i = 1 \/ j = 1
      BY <2>1, <3>1, <3>2, <3>3
    <3>4. CASE i # 1 /\ j # 1
      BY <2>1, <3>1, <3>4, ExtrasAssumption
    <3> QED
      BY <3>3, <3>4
  <2> QED
    BY <2>1, <2>2, <2>3
<1> QED
  BY <1>1, <1>2 DEF Built

LEMMA PumpEventStep ==
  ASSUME NInv, PumpBegin \/ PumpControl \/ PumpDatagram \/ PumpClosed
  PROVE  NInv'
<1> USE DEF tvars, fvars, avars, svars
<1>0. now \in Nat /\ NetType /\ Queue /\ Built
  BY DEF NInv, SInv, SType
<1>1. CASE PumpBegin
  <2>1. NetType' /\ Queue'
    BY <1>0, <1>1 DEF PumpBegin, NetType, Queue, score
  <2> QED
    BY <1>0, <1>1, <2>1, OutsideStep DEF PumpBegin, ClearFlags, Finished
<1>2. CASE PumpControl
  <2>1. /\ pc = "drain" /\ events # << >> /\ Head(events).kind = "ControlBytes"
        /\ events' = Tail(events) /\ pc' = "chunk"
        /\ UNCHANGED <<link, script, state, built, active_features, fvars>>
    BY <1>2 DEF PumpControl, Take, score
  <2>2. Queue' /\ events' \in Seq(Events)
    BY <1>0, <2>1, QueueShrinks
  <2>3. Head(events) \in Events
    BY <1>0, <2>1, Taken DEF NetType
  <2>4. Head(events).chunk \in Seq(Messages)
    BY <2>1, <2>3 DEF Events
  <2>5. inbox' \in Seq(Messages)
    BY <1>2, <2>4 DEF PumpControl, Chunk
  <2>6. NetType'
    BY <1>0, <2>1, <2>2, <2>5 DEF NetType
  <2> QED
    BY <1>0, <1>2, <2>1, <2>2, <2>6, OutsideStep DEF PumpControl, Take, Finished, NInv, Started
<1>3. CASE PumpDatagram
  <2>1. /\ pc = "drain" /\ events # << >> /\ Head(events).kind = "Datagram"
        /\ events' = Tail(events)
        /\ UNCHANGED <<link, script, state, built, active_features, fvars, pc, inbox>>
    BY <1>3 DEF PumpDatagram, Take, score
  <2>2. Queue' /\ events' \in Seq(Events)
    BY <1>0, <2>1, QueueShrinks
  <2>3. NetType'
    BY <1>0, <2>1, <2>2 DEF NetType
  <2>4. Head(events) \in Events /\ Head(events) = events[1] /\ 1 \in 1..Len(events)
    BY <1>0, <2>1, Taken DEF NetType
  <2>5. Head(events).sid \in Sids
    BY <2>1, <2>4 DEF Events
  <2>6. built /\ (Head(events).sid > 1 => active_features = MultiDisplay)
    BY <1>0, <2>1, <2>4 DEF Queue
  <2>7. Head(events).sid \in Served \cup {1}
    <3>1. CASE Head(events).sid \in {0, 1}
      BY <1>0, <3>1, ServedStreams
    <3>2. CASE Head(events).sid \in {Extras[i] : i \in DOMAIN Extras}
      <4>1. Head(events).sid > 1
        BY <3>2, ExtrasAssumption
      <4> QED
        BY <1>0, <2>6, <3>2, <4>1, ServedStreams
    <3> QED
      BY <2>5, <3>1, <3>2 DEF Sids
  <2>8. unserved' = unserved
    BY <1>3, <2>7 DEF PumpDatagram
  <2> QED
    BY <1>0, <1>3, <2>1, <2>2, <2>3, <2>8, OutsideStep DEF PumpDatagram, Take, Finished
<1>4. CASE PumpClosed
  <2>1. /\ pc = "drain" /\ events # << >> /\ Head(events).kind = "Closed"
        /\ events' = Tail(events)
        /\ UNCHANGED <<link, script, state, built, active_features, pc, inbox>>
    BY <1>4 DEF PumpClosed, Take, score
  <2>2. Queue' /\ events' \in Seq(Events)
    BY <1>0, <2>1, QueueShrinks
  <2>3. NetType'
    BY <1>0, <2>1, <2>2 DEF NetType
  <2>4. link = "shut"
    BY <1>0, <2>1, Taken DEF NetType, Queue
  <2> QED
    BY <1>0, <1>4, <2>1, <2>2, <2>3, <2>4, OutsideStep DEF PumpClosed, ClosedSeen, Take, Finished
<1> QED
  BY <1>1, <1>2, <1>3, <1>4

LEMMA PumpBuildStep ==
  ASSUME NInv, PumpBuild
  PROVE  NInv'
<1> USE DEF tvars, fvars, avars, svars
<1>1. SInv'
  BY PollStep DEF PumpBuild, NInv, SInv, SType, Phases, Terminal, score
<1>2. (EndOut' <=> EndOut) /\ (AckOut' <=> AckOut) /\ (StartOut' <=> StartOut)
  BY OutNone DEF PumpBuild
<1>3. NetType'
  BY DEF PumpBuild, NInv, NetType
<1>4. UNCHANGED <<state, config, active_features, events, link, got, streaming, unserved, windows,
                  just_started, closed, fatal_seen, out>> /\ pc = "chunk" /\ pc' = "drain"
  BY DEF PumpBuild, score
<1>5. Built'
  <2>1. CASE BuildDue
    <3>1. <<0>> \o Extras = AllStreams
      BY DEF AllStreams
    <3> QED
      BY <1>2, <1>4, <2>1, <3>1 DEF PumpBuild, BuildDue, NInv, Built
  <2>2. CASE ~BuildDue
    BY <1>2, <1>4, <2>2 DEF PumpBuild, BuildDue, NInv, Built
  <2> QED
    BY <2>1, <2>2
<1>6. built => built'
  BY DEF PumpBuild
<1>7. Queue'
  BY <1>4, <1>6 DEF NInv, Queue
<1>8. Served \subseteq Served'
  <2>1. CASE receivers' = receivers
    BY <2>1 DEF Served
  <2>2. CASE receivers' # receivers
    <3>1. ~built
      BY <2>2 DEF PumpBuild, BuildDue
    <3>2. receivers = <<0>>
      BY <3>1 DEF NInv, Built
    <3>3. Served = {0}
      BY <3>2 DEF Served
    <3>4. receivers' = <<0>> \o Extras
      BY <2>2, <3>2 DEF PumpBuild
    <3>5. 1 \in DOMAIN receivers' /\ receivers'[1] = 0
      BY <3>4, ExtrasAssumption
    <3>6. 0 \in Served'
      BY <3>5 DEF Served
    <3> QED
      BY <3>3, <3>6
  <2> QED
    BY <2>1, <2>2
<1>9. Started'
  BY <1>2, <1>4, <1>8 DEF NInv, Started, Injective
<1>10. Ended'
  BY <1>2, <1>4 DEF NInv, Ended, Terminal, Finished
<1> QED
  BY <1>1, <1>3, <1>5, <1>7, <1>9, <1>10 DEF NInv

LEMMA PumpTickStep ==
  ASSUME NInv, PumpTick
  PROVE  NInv'
<1> USE DEF tvars, fvars, avars
<1>1. /\ now \in Nat /\ on_tick(now) /\ pc = "drain" /\ pc' = "viewport"
      /\ UNCHANGED <<inbox, tvars, fvars, avars>>
  BY DEF PumpTick, NInv, SInv, SType
<1>2. SInv'
  BY <1>1, TickStep DEF NInv
<1>3. UNCHANGED score /\ (UNCHANGED out \/ (~Terminal /\ Summary))
  BY <1>1, TickSummary DEF NInv
<1>4. UNCHANGED <<state, config, active_features>>
  BY <1>3 DEF score
<1>5. CASE UNCHANGED out
  <2>1. (EndOut' <=> EndOut) /\ (AckOut' <=> AckOut) /\ (StartOut' <=> StartOut)
    BY <1>5, OutNone
  <2>2. NetType' /\ Queue'
    BY <1>1, <1>4 DEF NInv, NetType, Queue
  <2>3. Built'
    BY <1>1, <1>4, <2>1 DEF NInv, Built
  <2>4. Started'
    BY <1>1, <1>4, <2>1 DEF NInv, Started, Injective, Served
  <2>5. Ended'
    BY <1>1, <1>4, <2>1 DEF NInv, Ended, Terminal, Finished
  <2> QED
    BY <1>2, <2>2, <2>3, <2>4, <2>5 DEF NInv
<1>6. CASE ~Terminal /\ Summary
  <2>1. inbox' \in Seq(Messages)
    BY <1>1 DEF NInv, NetType
  <2> QED
    BY <1>1, <1>2, <1>4, <1>6, <2>1, CallStep
<1> QED
  BY <1>3, <1>5, <1>6

LEMMA PumpViewportStep ==
  ASSUME NInv, PumpViewport
  PROVE  NInv'
<1> USE DEF tvars, fvars, avars
<1>1. /\ now \in Nat /\ pc = "viewport" /\ pc' = "poll" /\ UNCHANGED <<inbox, tvars, fvars, avars>>
      /\ (send_viewport(now) \/ UNCHANGED svars)
  BY DEF PumpViewport, NInv, SInv, SType, svars
<1>2. CASE send_viewport(now)
  <2>1. SInv' /\ UNCHANGED score /\ ~Terminal /\ Summary
    BY <1>1, <1>2, ViewportStep, ViewportSummary DEF NInv
  <2>2. UNCHANGED <<state, config, active_features>>
    BY <2>1 DEF score
  <2>3. inbox' \in Seq(Messages)
    BY <1>1 DEF NInv, NetType
  <2> QED
    BY <1>1, <2>1, <2>2, <2>3, CallStep
<1>3. CASE UNCHANGED svars
  <2>1. UNCHANGED <<score, out, log, now, state, built, active_features>>
    BY <1>1, <1>3 DEF svars, score
  <2>2. NetType' /\ Queue'
    BY <1>1, <2>1 DEF NInv, NetType, Queue
  <2>3. ~just_started
    BY <1>1 DEF NInv, Started
  <2> QED
    BY <1>1, <2>1, <2>2, <2>3, OutsideStep DEF Finished
<1> QED
  BY <1>1, <1>2, <1>3

LEMMA PumpPollStep ==
  ASSUME NInv, PumpPoll
  PROVE  NInv'
<1> USE DEF tvars, fvars, avars
<1>1. /\ pc = "poll" /\ pc' = "app" /\ out' = << >>
      /\ UNCHANGED <<score, log, now, inbox>>
      /\ UNCHANGED <<receivers, built, link, events, script, avars>>
  BY DEF PumpPoll, poll, svars
<1>2. UNCHANGED <<state, config, active_features>>
  BY <1>1 DEF score
<1>3. SInv'
  BY <1>1, PollStep DEF NInv
<1>4. ~EndOut' /\ ~AckOut' /\ ~StartOut'
  BY <1>1 DEF EndOut, AckOut, StartOut
<1>5. /\ Polled("MediaExpected") <=> StartOut
      /\ Polled("Fatal") \/ Polled("Closed") <=> EndOut
      /\ "CONFIG_ACK" \in Delivers => AckOut
  <2>1. DOMAIN out = 1..Len(out)
    BY DEF NInv, SInv, SType
  <2> QED
    BY <2>1 DEF Polled, StartOut, EndOut, AckOut, Delivers, IsEnd, IsSend
<1>6. NetType' /\ Queue'
  BY <1>1, <1>2 DEF NInv, NetType, Queue
<1>7. Built'
  <2>1. AckOut \/ StartOut => built
    BY <1>1 DEF NInv, Built
  <2>2. "CONFIG_ACK" \in got' \/ streaming' => built
    BY <1>5, <2>1 DEF NInv, Built, PumpPoll
  <2> QED
    BY <1>1, <1>2, <1>4, <2>2 DEF NInv, Built
<1>8. Started'
  <2>1. streaming' <=> streaming \/ StartOut
    BY <1>5 DEF PumpPoll
  <2>2. just_started' <=> StartOut
    BY <1>1, <1>5 DEF PumpPoll, NInv, Started
  <2>3. Served' = Served /\ windows' = windows
    BY <1>1 DEF Served
  <2> QED
    BY <1>1, <1>2, <1>4, <2>1, <2>2, <2>3 DEF NInv, Started, Injective
<1>9. Ended'
  <2>1. Finished' <=> Finished \/ EndOut
    BY <1>5 DEF PumpPoll, Finished, FatalSeen
  <2> QED
    BY <1>1, <1>2, <1>4, <2>1 DEF NInv, Ended, Terminal
<1> QED
  BY <1>3, <1>6, <1>7, <1>8, <1>9 DEF NInv

\* start_decoder adds windows for streams with a receiver, none of them twice.
LEMMA WindowsAdded ==
  ASSUME NInv, windows = << 0 >>, start_decoder, UNCHANGED receivers
  PROVE  /\ windows' \in Seq(Nat) /\ Injective(windows)'
         /\ \A i \in 1..Len(windows') : windows'[i] \in Served
<1>1. PICK n \in 0..Len(Extras) : \E up \in [1..n -> DOMAIN Extras] :
        /\ \A k \in 1..n : Extras[up[k]] \in Served /\ \A j \in 1..(k - 1) : up[j] < up[k]
        /\ windows' = windows \o [k \in 1..n |-> Extras[up[k]]]
  BY DEF start_decoder
<1>2. PICK up \in [1..n -> DOMAIN Extras] :
        /\ \A k \in 1..n : Extras[up[k]] \in Served /\ \A j \in 1..(k - 1) : up[j] < up[k]
        /\ windows' = windows \o [k \in 1..n |-> Extras[up[k]]]
  BY <1>1
<1> DEFINE w == [k \in 1..n |-> Extras[up[k]]]
<1>3. /\ n \in Nat /\ DOMAIN Extras = 1..Len(Extras) /\ Len(Extras) \in Nat
      /\ \A i \in DOMAIN Extras : Extras[i] \in Nat /\ Extras[i] >= 2
  BY ExtrasAssumption
<1>4. w \in Seq(Nat) /\ Len(w) = n /\ \A k \in 1..n : w[k] = Extras[up[k]] /\ up[k] \in 1..Len(Extras)
  BY <1>2, <1>3
<1> HIDE DEF w
<1>5. windows' = <<0>> \o w
  BY <1>2 DEF w
<1>6. /\ windows' \in Seq(Nat) /\ Len(windows') = n + 1 /\ DOMAIN windows' = 1..(n + 1)
      /\ windows'[1] = 0
      /\ \A i \in 2..(n + 1) : windows'[i] = Extras[up[i - 1]] /\ i - 1 \in 1..n
  BY <1>3, <1>4, <1>5
<1>7. \A i \in 1..(n + 1) : i = 1 \/ i \in 2..(n + 1)
  BY <1>3
<1>8. \A i \in 1..Len(windows') : windows'[i] \in Served
  <2>1. 0 \in Served
    BY ServedStreams DEF NInv
  <2> QED
    BY <1>2, <1>6, <1>7, <2>1
<1>9. Injective(windows)'
  <2> SUFFICES ASSUME NEW i \in 1..(n + 1), NEW j \in 1..(n + 1), i < j
               PROVE  windows'[i] # windows'[j]
    BY <1>3, <1>6 DEF Injective
  <2>2. j \in 2..(n + 1) /\ windows'[j] = Extras[up[j - 1]] /\ j - 1 \in 1..n
        /\ up[j - 1] \in DOMAIN Extras
    BY <1>3, <1>4, <1>6
  <2>3. CASE i = 1
    BY <1>3, <1>6, <2>2, <2>3
  <2>4. CASE i \in 2..(n + 1)
    <3>1. /\ windows'[i] = Extras[up[i - 1]] /\ i - 1 \in 1..((j - 1) - 1)
          /\ up[i - 1] \in DOMAIN Extras
      BY <1>3, <1>4, <1>6, <2>4
    <3>2. up[i - 1] < up[j - 1]
      BY <1>2, <2>2, <3>1
    <3>3. up[i - 1] # up[j - 1]
      BY <1>3, <2>2, <3>1, <3>2
    <3> QED
      BY <2>2, <3>1, <3>3, ExtrasAssumption
  <2> QED
    BY <1>7, <2>3, <2>4
<1> QED
  BY <1>6, <1>8, <1>9

LEMMA AppStepStep ==
  ASSUME NInv, AppStep
  PROVE  NInv'
<1> USE DEF tvars, fvars, avars, svars
<1>1. pc = "app" /\ pc' = "idle" /\ UNCHANGED <<svars, tvars, fvars, unserved>>
  BY DEF AppStep
<1>2. UNCHANGED <<state, config, active_features, out>>
  BY <1>1 DEF score
<1>3. SInv'
  BY <1>1, PollStep DEF NInv, SInv, SType, Phases, Terminal, score
<1>4. (EndOut' <=> EndOut) /\ (AckOut' <=> AckOut) /\ (StartOut' <=> StartOut)
  BY <1>1, OutNone
<1>5. NetType' /\ Queue' /\ Built'
  BY <1>1, <1>2, <1>4 DEF NInv, NetType, Queue, Built
<1>6. Ended'
  BY <1>1, <1>2, <1>4 DEF NInv, Ended, Terminal, Finished
<1>7. ~StartOut
  BY <1>1 DEF NInv, Ended, StartOut
<1>8. Started'
  <2>0. Served' = Served
    BY <1>1 DEF Served
  <2>1. CASE just_started /\ start_decoder
    <3>1. windows = <<0>> /\ streaming
      BY <1>1, <2>1 DEF NInv, Started
    <3>2. /\ windows' \in Seq(Nat) /\ Injective(windows)'
          /\ \A i \in 1..Len(windows') : windows'[i] \in Served
      BY <1>1, <2>1, <3>1, WindowsAdded
    <3> QED
      BY <1>1, <1>2, <1>4, <1>7, <2>0, <3>1, <3>2 DEF NInv, Started, Injective
  <2>2. CASE windows' = windows
    BY <1>1, <1>2, <1>4, <2>0, <2>2 DEF NInv, Started, Injective
  <2> QED
    BY <2>1, <2>2 DEF AppStep
<1> QED
  BY <1>3, <1>5, <1>6, <1>8 DEF NInv

-----------------------------------------------------------------------------
LEMMA NInvInit == NetInit => NInv
<1> SUFFICES ASSUME NetInit PROVE NInv
  OBVIOUS
<1>1. SInv
  BY SInvInit DEF NetInit
<1>2. NetType /\ Queue
  BY ScriptsAssumption DEF NetInit, SessionInit, NetType, Queue
<1>3. ~EndOut /\ ~AckOut /\ ~StartOut
  BY DEF NetInit, SessionInit, EndOut, AckOut, StartOut
<1>4. Built /\ Ended
  BY <1>3 DEF NetInit, SessionInit, Built, Ended, Terminal, Finished
<1>5. Started
  BY <1>3 DEF NetInit, SessionInit, Started, Injective, Served
<1> QED
  BY <1>1, <1>2, <1>4, <1>5 DEF NInv

LEMMA NetStep ==
  ASSUME NInv, [NetNext]_nvars
  PROVE  NInv'
<1>1. CASE NetNext
  <2>1. CASE Pump
    BY <2>1, PumpEventStep, PumpConnectedStep, PumpFrameStep, PumpBuildStep, PumpTickStep,
       PumpViewportStep, PumpPollStep, AppStepStep DEF Pump
  <2>2. CASE ~Pump
    BY <1>1, <2>2, OutsideNetStep DEF NetNext, Sids
  <2> QED
    BY <2>1, <2>2
<1>2. CASE UNCHANGED nvars
  <2>1. NetType' /\ Queue' /\ now \in Nat
    BY <1>2 DEF nvars, svars, score, tvars, fvars, NInv, NetType, Queue, SInv, SType
  <2> QED
    BY <1>2, <2>1, OutsideStep DEF nvars, svars, tvars, fvars, avars, Finished
<1> QED
  BY <1>1, <1>2

LEMMA NetInvariant == NetSpec => []NInv
<1>1. NInv /\ [NetNext]_nvars => NInv'
  BY NetStep
<1> QED
  BY <1>1, NInvInit, PTL DEF NetSpec

\* NetSession::pump and build_extra_receivers: for every host script, every list of
\* extra streams and however the queue interleaves, a datagram the host was allowed to
\* send meets its receiver.
THEOREM NetReadyBeforeMedia == NetSpec => []ReadyBeforeMedia
<1>1. NInv => ReadyBeforeMedia
  BY DEF NInv, Built, ReadyBeforeMedia
<1> QED
  BY <1>1, NetInvariant, PTL

\* build_extra_receivers and XrApp::start_decoder: one receiver and at most one window
\* per stream, through every number of CONFIGs.
THEOREM NetFanIn == NetSpec => []FanIn
<1>1. ASSUME NInv PROVE FanIn
  <2>1. Built /\ Injective(windows) /\ (streaming => built)
    BY <1>1 DEF NInv, Built, Started
  <2>2. {windows[i] : i \in DOMAIN windows} \subseteq Served
    BY <1>1 DEF NInv, Started
  <2> QED
    BY <2>1, <2>2, ServedStreams DEF FanIn
<1> QED
  BY <1>1, NetInvariant, PTL

-----------------------------------------------------------------------------
\* The end of the connection: it is queued, or the application has been told.
Told == link = "shut" => closed \/ ClosedQueued

\* An event is added to the queue, and none removed.
LEMMA ToldGrows ==
  ASSUME NetType, Told, NEW ev, Enqueue(ev), closed' = closed,
         link' = "shut" => link = "shut" \/ ev.kind = "Closed"
  PROVE  Told'
<1>1. /\ events \in Seq(Events) /\ DOMAIN events = 1..Len(events) /\ Len(events) \in Nat
      /\ DOMAIN events' = 1..(Len(events) + 1)
      /\ \A i \in 1..Len(events) : events'[i] = events[i]
      /\ events'[Len(events) + 1] = ev
  BY DEF NetType, Enqueue
<1>2. ClosedQueued => ClosedQueued'
  BY <1>1 DEF ClosedQueued
<1>3. ev.kind = "Closed" => ClosedQueued'
  BY <1>1 DEF ClosedQueued
<1> QED
  BY <1>2, <1>3 DEF Told

\* The oldest event is removed, and it is another one.
LEMMA ToldShrinks ==
  ASSUME NetType, Told, NEW kind, kind # "Closed", Take(kind), closed' = closed
  PROVE  Told'
<1>1. events # << >> /\ events' = Tail(events) /\ events[1].kind = kind /\ link' = link
  BY DEF Take, NetType
<1>2. /\ events \in Seq(Events) /\ DOMAIN events = 1..Len(events) /\ Len(events) \in Nat
      /\ DOMAIN events' = 1..(Len(events) - 1)
      /\ \A i \in 1..(Len(events) - 1) : events'[i] = events[i + 1]
  BY <1>1 DEF NetType
<1>3. ASSUME NEW i \in 1..Len(events), events[i].kind = "Closed" PROVE ClosedQueued'
  <2>1. i # 1 /\ i - 1 \in 1..(Len(events) - 1)
    BY <1>1, <1>2, <1>3
  <2>2. events'[i - 1] = events[i]
    BY <1>2, <2>1
  <2> QED
    BY <1>2, <1>3, <2>1, <2>2 DEF ClosedQueued
<1> QED
  BY <1>1, <1>2, <1>3 DEF Told, ClosedQueued

LEMMA ToldStep ==
  ASSUME NetType, Told, [NetNext]_nvars
  PROVE  Told'
<1> USE DEF tvars, fvars
<1>1. CASE UNCHANGED <<link, events>> /\ (closed => closed')
  BY <1>1 DEF Told, ClosedQueued
<1>2. CASE OnConnected
  BY <1>2, ToldGrows DEF OnConnected
<1>3. ASSUME NEW n \in 1..2, OnControl(n) PROVE Told'
  BY <1>3, ToldGrows DEF OnControl
<1>4. ASSUME NEW sid \in Sids, OnDatagram(sid) PROVE Told'
  BY <1>4, ToldGrows DEF OnDatagram
<1>5. CASE OnShutdown
  BY <1>5, ToldGrows DEF OnShutdown
<1>6. CASE PumpConnected
  BY <1>6, ToldShrinks DEF PumpConnected
<1>7. CASE PumpControl
  BY <1>7, ToldShrinks DEF PumpControl
<1>8. CASE PumpDatagram
  BY <1>8, ToldShrinks DEF PumpDatagram
<1>9. CASE PumpClosed
  BY <1>9 DEF PumpClosed, ClosedSeen, Told
<1>10. CASE (\E size \in Sizes : request_viewport(size)) \/ Clock \/ UNCHANGED nvars
  BY <1>1, <1>10 DEF request_viewport, Clock, nvars
<1>11. CASE PumpBegin \/ PumpFrame \/ PumpBuild \/ PumpTick \/ PumpViewport \/ PumpPoll \/ AppStep
  BY <1>1, <1>11 DEF PumpBegin, PumpFrame, PumpBuild, PumpTick, PumpViewport, PumpPoll, AppStep
<1> QED
  BY <1>2, <1>3, <1>4, <1>5, <1>6, <1>7, <1>8, <1>9, <1>10, <1>11 DEF NetNext, Network, Pump, Sids

LEMMA ToldAlways == NetSpec => []Told
<1>1. NetInit => Told
  BY DEF NetInit, Told
<1>2. NInv => NetType
  BY DEF NInv
<1>3. NetType /\ Told /\ [NetNext]_nvars => Told'
  BY ToldStep
<1> QED
  BY <1>1, <1>2, <1>3, NetInvariant, PTL DEF NetSpec

\* pump: between two pumps finished() is true if the session has ended; it is true, or a
\* Closed event is queued, when the connection is gone; and never while both the session
\* and the connection last.
THEOREM NetEndReachesApp == NetSpec => []EndReachesApp
<1>1. ASSUME NInv, Told PROVE EndReachesApp
  <2>1. pc = "idle" => ~EndOut
    BY <1>1 DEF NInv, Ended, EndOut
  <2>2. link = "shut" => Finished \/ ClosedQueued
    BY <1>1 DEF Told, Finished
  <2> QED
    BY <1>1, <2>1, <2>2 DEF NInv, Ended, EndReachesApp
<1> QED
  BY <1>1, NetInvariant, ToldAlways, PTL
=============================================================================
