------------------------ MODULE VideoReceiverProofs ------------------------
(***************************************************************************)
(* Theorems about VideoReceiver, for every stream of fragments, every      *)
(* clock, every request interval and every size of the hand-off.           *)
(***************************************************************************)
EXTENDS VideoReceiver, ReassemblerProofs, SequenceTheorems

-----------------------------------------------------------------------------
(***************************************************************************)
(* The reassembler inside the receiver                                     *)
(***************************************************************************)
Busy == {"overrun", "push", "notify"}

\* What a push shows to the receiver: no event, a request, or a frame that is newer than
\* every frame delivered before and is a keyframe or follows the newest of them.
QuietPush(t) ==
  /\ UNCHANGED <<events, last_decoded, idr_last_t, Delivered>>
  /\ gapped' # gapped => IdrSuppressed(t)

AskingPush(t) ==
  /\ events' # events /\ Current'.kind = "IdrRequest" /\ Current'.last_good \in Nat
  /\ idr_last_t' = t
  /\ UNCHANGED <<last_decoded, Delivered>>

HandingPush(n) ==
  /\ events' # events /\ Current'.kind = "Deliver" /\ Current'.frame_seq = n
  /\ n \in Nat /\ Current'.keyframe \in BOOLEAN
  /\ \A s \in Delivered : s < n
  /\ Delivered' = Delivered \cup {n}
  /\ ~Current'.keyframe => last_decoded = n - 1 /\ last_decoded \in Delivered
  /\ last_decoded' = n
  /\ UNCHANGED <<idr_last_t, gapped>>

LEMMA PushKinds ==
  ASSUME EInv, NEW t \in Times, NEW f \in Fragments, push(t, f)
  PROVE  QuietPush(t) \/ AskingPush(t) \/ HandingPush(f.frame_seq)
<1>0. WInv /\ events \in Seq(Event)
  BY DEF EInv, WInv, TypeOK
<1>1. CASE PushStale(t, f) \/ PushPartial(t, f)
  <2>1. Delivered' = Delivered
    BY <1>0, <1>1, PushDelivered
  <2> QED
    BY <1>1, <2>1 DEF PushStale, PushPartial, QuietPush
<1>2. CASE PushDiscard(t, f) /\ IdrSuppressed(t)
  <2>1. Delivered' = Delivered
    BY <1>0, <1>2, PushDelivered
  <2> QED
    BY <1>2, <2>1 DEF PushDiscard, maybe_idr, QuietPush
<1>3. CASE PushDiscard(t, f) /\ ~IdrSuppressed(t)
  <2> DEFINE g == IF last_decoded = None THEN 0 ELSE last_decoded
             e == [kind |-> "IdrRequest", t_ms |-> t, frame_seq |-> 0, keyframe |-> FALSE, last_good |-> g]
  <2>1. g \in Nat
    BY <1>0, FragmentType DEF WInv, TypeOK, Seqs
  <2>2. e \in Event /\ e.kind = "IdrRequest" /\ e.last_good \in Nat
    BY <2>1 DEF Event
  <2>3. events' = Append(events, e) /\ idr_last_t' = t /\ last_decoded' = last_decoded
    BY <1>3 DEF PushDiscard, maybe_idr
  <2> HIDE DEF e
  <2>4. events' # events /\ Current' = e
    BY <1>0, <2>2, <2>3 DEF Current
  <2>5. Delivered' = Delivered
    BY <1>0, <1>3, PushDelivered
  <2> QED
    BY <2>2, <2>3, <2>4, <2>5 DEF AskingPush
<1>4. CASE PushDeliver(t, f)
  <2> DEFINE e == [kind |-> "Deliver", t_ms |-> t, frame_seq |-> f.frame_seq,
                   keyframe |-> Entry(f).keyframe, last_good |-> 0]
  <2>1. /\ e \in Event /\ e.kind = "Deliver" /\ e.frame_seq = f.frame_seq /\ e.keyframe = Entry(f).keyframe
        /\ e.keyframe \in BOOLEAN /\ f.frame_seq \in Nat
    BY <1>0, EntryType, FragmentType DEF Event
  <2>2. /\ events' = Append(events, e) /\ last_decoded' = f.frame_seq
        /\ UNCHANGED <<idr_last_t, gapped>>
    BY <1>4 DEF PushDeliver, deliver
  <2>3. Entry(f).keyframe \/ (last_decoded # None /\ last_decoded = f.frame_seq - 1)
    BY <1>4 DEF PushDeliver, Decodable
  <2> HIDE DEF e
  <2>4. events' # events /\ Current' = e
    BY <1>0, <2>1, <2>2 DEF Current
  <2>5. Delivered' = Delivered \cup {f.frame_seq}
    BY <1>0, <1>4, PushDelivered
  <2>6. f.frame_seq > newest_complete /\ newest_complete \in Int
    <3>1. ~(f.frame_seq <= newest_complete) /\ newest_complete \in Int
      BY <1>0, <1>4, FragmentType DEF PushDeliver, Complete, IsStale, WInv, TypeOK, Seqs
    <3> QED
      BY <2>1, <3>1
  <2>7. \A s \in Delivered : s < f.frame_seq
    <3>1. \A s \in Delivered : s <= newest_complete /\ s \in Nat
      BY DeliveredIsOld
    <3> QED
      BY <2>1, <2>6, <3>1
  <2>8. last_decoded # None => last_decoded \in Delivered
    BY DEF EInv, LogInv, Delivered, Deliveries
  <2> QED
    BY <2>1, <2>2, <2>3, <2>4, <2>5, <2>7, <2>8 DEF HandingPush
<1> QED
  BY <1>1, <1>2, <1>3, <1>4 DEF push

\* Every step of the receiver is a push or leaves the reassembler alone.
LEMMA InsideStep == VNext => [Next]_rvars
<1>1. ASSUME NEW t \in Times, NEW f \in Fragments, NEW empty \in BOOLEAN, feed_datagram(t, f, empty)
      PROVE  Next
  BY <1>1 DEF feed_datagram, FeedQuiet, FeedIdr, FeedNoAu, FeedAu, Next
<1>2. ASSUME Stop \/ StartDecoder \/ ProducerStep \/ DecoderStep \/ SpuriousWake
      PROVE  UNCHANGED rvars
  BY <1>2 DEF Stop, StartDecoder, ProducerStep, DecoderStep, SpuriousWake, CheckOverrun, PushAu, NotifyOne,
              NotifyAll, Resume, PopAu, PopStopped, PopWait, LoopEnds
<1> QED
  BY <1>1, <1>2 DEF VNext

LEMMA InsideInv == VSpec => []EInv
<1>1. VInit => EInv
  BY EInvInit DEF VInit
<1>2. EInv /\ [VNext]_vvars => EInv'
  BY EInvStep, InsideStep DEF vvars
<1> QED
  BY <1>1, <1>2, PTL DEF VSpec

-----------------------------------------------------------------------------
(***************************************************************************)
(* The wake-ups                                                            *)
(***************************************************************************)
WakeInv == NoLostWakeup /\ (stop => producer \in {"notify_all", "join"})

\* pop_au, PushAu and stop: between the change of the hand-off or of stop_ and its
\* notification the producer does nothing else, so a sleeping decode thread is woken.
THEOREM ReceiverNoLostWakeup == VSpec => []NoLostWakeup
<1>1. VInit => WakeInv
  BY DEF VInit, WakeInv, NoLostWakeup
<1>2. ASSUME WakeInv, [VNext]_vvars PROVE WakeInv'
  <2>1. ASSUME NEW t \in Times, NEW f \in Fragments, NEW empty \in BOOLEAN, feed_datagram(t, f, empty)
        PROVE  WakeInv'
    <3>1. producer = "idle" /\ UNCHANGED <<au_queue, stop, decoder>>
      BY <2>1 DEF feed_datagram
    <3> QED
      BY <1>2, <3>1 DEF WakeInv, NoLostWakeup
  <2>2. CASE Stop
    BY <1>2, <2>2 DEF Stop, WakeInv, NoLostWakeup
  <2>3. CASE StartDecoder
    BY <1>2, <2>3 DEF StartDecoder, WakeInv, NoLostWakeup
  <2>4. CASE CheckOverrun
    <3>1. producer = "overrun" /\ UNCHANGED <<stop, decoder>> /\ au_queue' \in {<< >>, au_queue}
      BY <2>4 DEF CheckOverrun
    <3> QED
      BY <1>2, <3>1 DEF WakeInv, NoLostWakeup
  <2>5. CASE PushAu
    BY <1>2, <2>5 DEF PushAu, WakeInv, NoLostWakeup
  <2>6. CASE NotifyOne
    BY <1>2, <2>6 DEF NotifyOne, WakeInv, NoLostWakeup
  <2>7. CASE NotifyAll
    BY <1>2, <2>7 DEF NotifyAll, WakeInv, NoLostWakeup
  <2>8. CASE Resume
    BY <1>2, <2>8 DEF Resume, WakeInv, NoLostWakeup
  <2>9. CASE PopAu
    BY <1>2, <2>9 DEF PopAu, WakeInv, NoLostWakeup
  <2>10. CASE PopStopped \/ PopWait \/ LoopEnds
    BY <1>2, <2>10 DEF PopStopped, PopWait, LoopEnds, WakeInv, NoLostWakeup
  <2>11. CASE SpuriousWake
    BY <1>2, <2>11 DEF SpuriousWake, WakeInv, NoLostWakeup
  <2>12. CASE UNCHANGED vvars
    BY <1>2, <2>12 DEF vvars, WakeInv, NoLostWakeup
  <2> QED
    BY <1>2, <2>1, <2>2, <2>3, <2>4, <2>5, <2>6, <2>7, <2>8, <2>9, <2>10, <2>11, <2>12
       DEF VNext, ProducerStep, DecoderStep
<1>3. WakeInv => NoLostWakeup
  BY DEF WakeInv
<1> QED
  BY <1>1, <1>2, <1>3, PTL DEF VSpec

-----------------------------------------------------------------------------
(***************************************************************************)
(* The requests                                                            *)
(***************************************************************************)
Asks == [t_ms : Nat, last_good : Nat]

\* The gate's clock is that of the last request sent, and the reassembler's timer, which
\* also runs when the gate swallows its request, is less than one interval ahead of it.
GateInv ==
  /\ last_idr_request_ms \in Int /\ last_idr_request_ms <= now
  /\ last_good_seq \in Nat
  /\ producer \in Busy => Current.frame_seq \in Nat
  /\ sent \in Seq(Asks)
  /\ sent # << >> => last_idr_request_ms >= 0
  /\ \A i \in 1..Len(sent) : sent[i].t_ms <= last_idr_request_ms
  /\ \A i, j \in 1..Len(sent) : i < j => sent[j].t_ms - sent[i].t_ms >= IdrMinInterval
  /\ idr_last_t # None =>
       /\ idr_last_t <= now /\ last_idr_request_ms >= 0
       /\ idr_last_t - last_idr_request_ms < IdrMinInterval

LEMMA Clock ==
  ASSUME EInv
  PROVE  /\ now \in Nat /\ (idr_last_t # None => idr_last_t \in Nat)
         /\ IdrMinInterval \in Nat /\ IdrMinInterval > 0
  BY TimesAssumption, IntervalAssumption DEF EInv, WInv, TypeOK

LEMMA Differences ==
  /\ \A a, t, i \in Nat, l \in Int : a <= t /\ t - l < i => a - l < i
  /\ \A a, t, i \in Nat, l \in Int : t - a < i /\ a - l < i => t - l < 2 * i
  /\ \A t, i \in Nat, l \in Int : t - l < i => t - l < 2 * i
  OBVIOUS

\* After request_idr, sent or swallowed, a request less than one interval old is on record.
LEMMA Requested ==
  ASSUME EInv, GateInv, NEW t \in Nat, t >= now, NEW g \in Nat, request_idr(g, t)
  PROVE  /\ last_idr_request_ms' \in Int /\ last_idr_request_ms' <= t /\ last_idr_request_ms' >= 0
         /\ t - last_idr_request_ms' < IdrMinInterval
         /\ last_idr_request_ms' >= last_idr_request_ms
         /\ sent' \in Seq(Asks)
         /\ \A i \in 1..Len(sent') : sent'[i].t_ms <= last_idr_request_ms'
         /\ \A i, j \in 1..Len(sent') : i < j => sent'[j].t_ms - sent'[i].t_ms >= IdrMinInterval
<1>0. now \in Nat /\ last_idr_request_ms \in Int /\ IdrMinInterval \in Nat /\ IdrMinInterval > 0
  BY Clock DEF GateInv
<1>1. CASE GateShut(t)
  <2>1. UNCHANGED <<last_idr_request_ms, sent>> /\ last_idr_request_ms >= 0
        /\ t - last_idr_request_ms < IdrMinInterval
    BY <1>1 DEF request_idr, GateShut
  <2>2. last_idr_request_ms <= t
    BY <1>0 DEF GateInv
  <2> QED
    BY <1>0, <2>1, <2>2 DEF GateInv
<1>2. CASE ~GateShut(t)
  <2> DEFINE x == [t_ms |-> t, last_good |-> g]
  <2>1. /\ last_idr_request_ms' = t /\ sent' = Append(sent, x)
        /\ last_idr_request_ms >= 0 => t - last_idr_request_ms >= IdrMinInterval
    BY <1>0, <1>2 DEF request_idr, GateShut
  <2>2. x \in Asks /\ x.t_ms = t
    BY DEF Asks
  <2>3. sent \in Seq(Asks) /\ \A i \in 1..Len(sent) : sent[i] \in Asks
    BY DEF GateInv
  <2> HIDE DEF x
  <2>4. /\ sent' \in Seq(Asks) /\ Len(sent) \in Nat /\ Len(sent') = Len(sent) + 1
        /\ sent'[Len(sent) + 1] = x /\ \A i \in 1..Len(sent) : sent'[i] = sent[i]
    BY <2>1, <2>2, <2>3
  <2>5. \A i : i \in 1..Len(sent') <=> i \in 1..Len(sent) \/ i = Len(sent) + 1
    BY <2>4
  <2>6. ASSUME NEW i \in 1..Len(sent)
        PROVE  sent[i].t_ms \in Nat /\ sent[i].t_ms <= last_idr_request_ms /\ t - sent[i].t_ms >= IdrMinInterval
    <3>1. sent[i].t_ms \in Nat /\ sent[i].t_ms <= last_idr_request_ms
      BY <2>3 DEF GateInv, Asks
    <3>2. last_idr_request_ms >= 0
      BY <1>0, <3>1
    <3> QED
      BY <1>0, <2>1, <3>1, <3>2
  <2>7. \A i \in 1..Len(sent') : sent'[i].t_ms <= t
    <3> SUFFICES ASSUME NEW i \in 1..Len(sent') PROVE sent'[i].t_ms <= t
      OBVIOUS
    <3>1. CASE i = Len(sent) + 1
      BY <2>2, <2>4, <3>1
    <3>2. CASE i \in 1..Len(sent)
      BY <1>0, <2>4, <2>6, <3>2
    <3> QED
      BY <2>5, <3>1, <3>2
  <2>8. \A i, j \in 1..Len(sent') : i < j => sent'[j].t_ms - sent'[i].t_ms >= IdrMinInterval
    <3> SUFFICES ASSUME NEW i \in 1..Len(sent'), NEW j \in 1..Len(sent'), i < j
                 PROVE  sent'[j].t_ms - sent'[i].t_ms >= IdrMinInterval
      OBVIOUS
    <3>1. i \in 1..Len(sent)
      BY <2>4
    <3>2. CASE j = Len(sent) + 1
      BY <2>2, <2>4, <2>6, <3>1, <3>2
    <3>3. CASE j \in 1..Len(sent)
      BY <2>4, <3>1, <3>3 DEF GateInv
    <3> QED
      BY <2>5, <3>2, <3>3
  <2>9. t - t < IdrMinInterval /\ t >= last_idr_request_ms
    BY <1>0 DEF GateInv
  <2> QED
    BY <2>1, <2>4, <2>7, <2>8, <2>9
<1> QED
  BY <1>1, <1>2

\* A request made by CheckOverrun or by a push, and what it leaves of the invariant.
LEMMA GateAfterRequest ==
  ASSUME EInv, GateInv, NEW t \in Nat, t >= now, now' = t, NEW g \in Nat, request_idr(g, t),
         idr_last_t' = idr_last_t \/ idr_last_t' = t,
         last_good_seq' \in Nat, producer' \in Busy => Current'.frame_seq \in Nat
  PROVE  GateInv'
<1>1. /\ last_idr_request_ms' \in Int /\ last_idr_request_ms' <= t /\ last_idr_request_ms' >= 0
      /\ t - last_idr_request_ms' < IdrMinInterval
      /\ last_idr_request_ms' >= last_idr_request_ms
      /\ sent' \in Seq(Asks)
      /\ \A i \in 1..Len(sent') : sent'[i].t_ms <= last_idr_request_ms'
      /\ \A i, j \in 1..Len(sent') : i < j => sent'[j].t_ms - sent'[i].t_ms >= IdrMinInterval
  BY Requested
<1>2. /\ now \in Nat /\ (idr_last_t # None => idr_last_t \in Nat) /\ IdrMinInterval \in Nat
      /\ last_idr_request_ms \in Int
  BY Clock DEF GateInv
<1>3. idr_last_t' # None =>
        /\ idr_last_t' <= t /\ idr_last_t' - last_idr_request_ms' < IdrMinInterval
  <2> SUFFICES ASSUME idr_last_t' # None
               PROVE  idr_last_t' <= t /\ idr_last_t' - last_idr_request_ms' < IdrMinInterval
    OBVIOUS
  <2>1. idr_last_t' \in Nat /\ idr_last_t' <= t
    BY <1>2 DEF GateInv
  <2>2. idr_last_t' - last_idr_request_ms' < IdrMinInterval
    BY <1>1, <1>2, <2>1, Differences
  <2> QED
    BY <2>1, <2>2
<1> QED
  BY <1>1, <1>3 DEF GateInv

\* A step that asks for nothing.
LEMMA GateKept ==
  ASSUME EInv, GateInv, UNCHANGED <<last_idr_request_ms, sent, idr_last_t>>,
         now' \in Nat, now' >= now,
         last_good_seq' \in Nat, producer' \in Busy => Current'.frame_seq \in Nat
  PROVE  GateInv'
<1>1. /\ now \in Nat /\ (idr_last_t # None => idr_last_t \in Nat) /\ last_idr_request_ms \in Int
  BY Clock DEF GateInv
<1>2. last_idr_request_ms <= now' /\ (idr_last_t # None => idr_last_t <= now')
  BY <1>1 DEF GateInv
<1> QED
  BY <1>2 DEF GateInv

LEMMA GateStep == EInv /\ GateInv /\ [VNext]_vvars => GateInv'
<1> SUFFICES ASSUME EInv, GateInv, [VNext]_vvars PROVE GateInv'
  OBVIOUS
<1>0. now \in Nat /\ last_good_seq \in Nat
  BY Clock DEF GateInv
<1>1. ASSUME NEW t \in Times, NEW f \in Fragments, NEW empty \in BOOLEAN, feed_datagram(t, f, empty)
      PROVE  GateInv'
  <2>1. /\ producer = "idle" /\ t >= now /\ last_good_seq' = last_good_seq /\ now' = t /\ t \in Nat
        /\ push(t, f)
    BY <1>1, TimesAssumption DEF feed_datagram, FeedQuiet, FeedIdr, FeedNoAu, FeedAu, push
  <2>2. QuietPush(t) \/ AskingPush(t) \/ HandingPush(f.frame_seq)
    BY <2>1, PushKinds
  <2>3. CASE FeedQuiet(t, f)
    <3>1. UNCHANGED <<last_idr_request_ms, sent, idr_last_t, producer>>
      BY <2>2, <2>3 DEF FeedQuiet, QuietPush, AskingPush, HandingPush
    <3> QED
      BY <1>0, <2>1, <3>1, GateKept DEF Busy
  <2>4. CASE FeedIdr(t, f)
    <3>1. /\ Current'.kind = "IdrRequest" /\ events' # events /\ UNCHANGED producer
          /\ request_idr(Current'.last_good, t)
      BY <2>4 DEF FeedIdr, Current
    <3>2. AskingPush(t)
      BY <2>2, <3>1 DEF QuietPush, HandingPush
    <3>3. Current'.last_good \in Nat /\ idr_last_t' = t
      BY <3>2 DEF AskingPush
    <3> QED
      BY <1>0, <2>1, <3>1, <3>3, GateAfterRequest DEF Busy
  <2>5. CASE FeedNoAu(t, f, empty) \/ FeedAu(t, f, empty)
    <3>1. Current'.kind = "Deliver" /\ events' # events /\ UNCHANGED <<last_idr_request_ms, sent>>
      BY <2>5 DEF FeedNoAu, FeedAu, Current
    <3>2. HandingPush(f.frame_seq)
      BY <2>2, <3>1 DEF QuietPush, AskingPush
    <3>3. Current'.frame_seq \in Nat /\ idr_last_t' = idr_last_t
      BY <3>2 DEF HandingPush
    <3> QED
      BY <1>0, <2>1, <3>1, <3>3, GateKept
  <2> QED
    BY <1>1, <2>3, <2>4, <2>5 DEF feed_datagram
<1>2. CASE CheckOverrun
  <2>1. producer = "overrun" /\ UNCHANGED rvars
    BY <1>2 DEF CheckOverrun
  <2>2. Current.frame_seq \in Nat /\ UNCHANGED <<Current, now, idr_last_t>>
    BY <2>1 DEF GateInv, Busy, Current, rvars
  <2>3. \/ request_idr(last_good_seq, now) /\ UNCHANGED last_good_seq
        \/ last_good_seq' = Current.frame_seq /\ UNCHANGED <<last_idr_request_ms, sent>>
    BY <1>2 DEF CheckOverrun
  <2>4. CASE request_idr(last_good_seq, now) /\ UNCHANGED last_good_seq
    BY <1>0, <2>2, <2>4, GateAfterRequest
  <2>5. CASE last_good_seq' = Current.frame_seq /\ UNCHANGED <<last_idr_request_ms, sent>>
    BY <1>0, <2>2, <2>5, GateKept
  <2> QED
    BY <2>3, <2>4, <2>5
<1>3. ASSUME UNCHANGED <<rvars, last_idr_request_ms, sent, last_good_seq>>,
             producer' \in Busy => producer \in Busy
      PROVE  GateInv'
  <2>1. UNCHANGED <<Current, now, idr_last_t>>
    BY <1>3 DEF Current, rvars
  <2>2. producer' \in Busy => Current'.frame_seq \in Nat
    BY <1>3, <2>1 DEF GateInv
  <2> QED
    BY <1>0, <1>3, <2>1, <2>2, GateKept
<1>4. CASE Stop \/ StartDecoder \/ SpuriousWake
  BY <1>3, <1>4 DEF Stop, StartDecoder, SpuriousWake, pvars, Busy
<1>5. CASE PushAu \/ NotifyOne \/ NotifyAll \/ Resume
  BY <1>3, <1>5 DEF PushAu, NotifyOne, NotifyAll, Resume, pvars, Busy
<1>6. CASE DecoderStep
  BY <1>3, <1>6 DEF DecoderStep, PopAu, PopStopped, PopWait, LoopEnds, pvars
<1>7. CASE UNCHANGED vvars
  BY <1>3, <1>7 DEF vvars, pvars
<1> QED
  BY <1>1, <1>2, <1>4, <1>5, <1>6, <1>7 DEF VNext, ProducerStep

LEMMA GateAlways == VSpec => []GateInv
<1>1. VInit => GateInv
  <2> SUFFICES ASSUME VInit PROVE GateInv
    OBVIOUS
  <2>1. /\ last_idr_request_ms = -1 /\ now = 0 /\ last_good_seq = 0 /\ producer = "idle" /\ sent = << >>
        /\ idr_last_t = None
    BY DEF VInit, Init
  <2> QED
    BY <2>1 DEF GateInv, Busy
<1> QED
  BY <1>1, GateStep, InsideInv, PTL DEF VSpec

\* request_idr: whatever asks, and whenever, two IDR_REQUESTs leave the client at least
\* IdrMinInterval apart.
THEOREM ReceiverIdrGate == VSpec => []IdrGate
<1>1. GateInv => IdrGate
  <2> SUFFICES ASSUME GateInv PROVE IdrGate
    OBVIOUS
  <2>1. DOMAIN sent = 1..Len(sent)
    BY DEF GateInv
  <2> QED
    BY <2>1 DEF GateInv, IdrGate
<1> QED
  BY <1>1, GateAlways, PTL

\* While frames are thrown away for want of a keyframe, by the decode gate or by the
\* overrun check, the last IDR_REQUEST really sent is less than two intervals old.
THEOREM ReceiverDiscardIsRequested == VSpec => DiscardIsRequested
<1> DEFINE Asked == gapped' # gapped \/ (awaiting_keyframe' /\ discarded' # discarded) =>
                      /\ last_idr_request_ms' >= 0
                      /\ now' - last_idr_request_ms' < 2 * IdrMinInterval
<1>1. EInv /\ GateInv /\ [VNext]_vvars => [Asked]_vvars
  <2> SUFFICES ASSUME EInv, GateInv, VNext,
                      gapped' # gapped \/ (awaiting_keyframe' /\ discarded' # discarded)
               PROVE  /\ last_idr_request_ms' >= 0
                      /\ now' - last_idr_request_ms' < 2 * IdrMinInterval
    OBVIOUS
  <2>0. /\ now \in Nat /\ (idr_last_t # None => idr_last_t \in Nat) /\ last_idr_request_ms \in Int
        /\ IdrMinInterval \in Nat /\ IdrMinInterval > 0 /\ last_good_seq \in Nat
    BY Clock DEF GateInv
  <2>1. ASSUME NEW t \in Nat, t >= now, now' = t, NEW g \in Nat, request_idr(g, t)
        PROVE  last_idr_request_ms' >= 0 /\ now' - last_idr_request_ms' < 2 * IdrMinInterval
    <3>1. last_idr_request_ms' \in Int /\ last_idr_request_ms' >= 0 /\ t - last_idr_request_ms' < IdrMinInterval
      BY <2>1, Requested
    <3>2. t - last_idr_request_ms' < 2 * IdrMinInterval
      BY <2>0, <3>1, Differences
    <3> QED
      BY <2>1, <3>1, <3>2
  <2>2. ASSUME NEW t \in Times, NEW f \in Fragments, NEW empty \in BOOLEAN, feed_datagram(t, f, empty)
        PROVE  last_idr_request_ms' >= 0 /\ now' - last_idr_request_ms' < 2 * IdrMinInterval
    <3>1. /\ t >= now /\ now' = t /\ t \in Nat /\ push(t, f) /\ UNCHANGED discarded
      BY <2>2, TimesAssumption DEF feed_datagram, FeedQuiet, FeedIdr, FeedNoAu, FeedAu, push
    <3>2. gapped' # gapped
      BY <3>1
    <3>3. QuietPush(t) \/ AskingPush(t)
      BY <3>1, <3>2, PushKinds DEF HandingPush
    <3>4. CASE QuietPush(t)
      <4>1. FeedQuiet(t, f)
        BY <2>2, <3>4 DEF feed_datagram, FeedIdr, FeedNoAu, FeedAu, QuietPush
      <4>2. UNCHANGED last_idr_request_ms
        BY <4>1 DEF FeedQuiet
      <4>3. idr_last_t # None /\ t - idr_last_t < IdrMinInterval
        BY <3>2, <3>4 DEF QuietPush, IdrSuppressed
      <4>4. last_idr_request_ms >= 0 /\ idr_last_t - last_idr_request_ms < IdrMinInterval
        BY <4>3 DEF GateInv
      <4>5. t - last_idr_request_ms < 2 * IdrMinInterval
        BY <2>0, <3>1, <4>3, <4>4, Differences
      <4> QED
        BY <3>1, <4>2, <4>4, <4>5
    <3>5. CASE AskingPush(t)
      <4>1. FeedIdr(t, f)
        BY <2>2, <3>5 DEF feed_datagram, FeedQuiet, FeedNoAu, FeedAu, AskingPush, Current
      <4>2. request_idr(Current'.last_good, t) /\ Current'.last_good \in Nat
        BY <3>5, <4>1 DEF FeedIdr, AskingPush, Current
      <4> QED
        BY <2>1, <3>1, <4>2
    <3> QED
      BY <3>3, <3>4, <3>5
  <2>3. CASE CheckOverrun
    <3>1. UNCHANGED rvars
      BY <2>3 DEF CheckOverrun
    <3>2. now' = now /\ awaiting_keyframe'
      BY <3>1 DEF rvars
    <3>3. request_idr(last_good_seq, now)
      BY <2>3, <3>2 DEF CheckOverrun
    <3> QED
      BY <2>0, <2>1, <3>2, <3>3
  <2>4. ASSUME Stop \/ StartDecoder \/ SpuriousWake \/ PushAu \/ NotifyOne \/ NotifyAll \/ Resume \/ DecoderStep
        PROVE  FALSE
    <3>1. UNCHANGED <<gapped, discarded>>
      BY <2>4 DEF Stop, StartDecoder, SpuriousWake, PushAu, NotifyOne, NotifyAll, Resume, DecoderStep,
                  PopAu, PopStopped, PopWait, LoopEnds, pvars, rvars
    <3> QED
      BY <3>1
  <2> QED
    BY <2>2, <2>3, <2>4 DEF VNext, ProducerStep
<1> QED
  BY <1>1, InsideInv, GateAlways, PTL DEF VSpec, DiscardIsRequested

-----------------------------------------------------------------------------
(***************************************************************************)
(* The hand-off as a queue of access units                                 *)
(***************************************************************************)
Units == [frame_seq : Nat, keyframe : BOOLEAN]
SeqsOf(q) == {q[i].frame_seq : i \in 1..Len(q)}
Ordered(q) == \A i, j \in 1..Len(q) : i < j => q[i].frame_seq < q[j].frame_seq

\* Every unit is a keyframe, or what it references is in B or ahead of it in the queue.
Chained(q, B) ==
  \A i \in 1..Len(q) :
    q[i].keyframe \/ q[i].frame_seq - 1 \in B \cup {q[k].frame_seq : k \in 1..(i - 1)}

LEMMA NoUnit ==
  /\ << >> \in Seq(Units) /\ SeqsOf(<< >>) = {} /\ Ordered(<< >>) /\ Len(<< >>) = 0
  /\ \A B : Chained(<< >>, B)
  BY DEF SeqsOf, Ordered, Chained

LEMMA ChainedMore ==
  ASSUME NEW q, NEW B, NEW C, B \subseteq C, Chained(q, B)
  PROVE  Chained(q, C)
  BY DEF Chained

LEMMA UnitAppended ==
  ASSUME NEW q \in Seq(Units), NEW a \in Units, NEW B,
         Ordered(q), \A s \in SeqsOf(q) : s < a.frame_seq,
         Chained(q, B), a.keyframe \/ a.frame_seq - 1 \in B \cup SeqsOf(q)
  PROVE  /\ Append(q, a) \in Seq(Units) /\ Len(Append(q, a)) = Len(q) + 1
         /\ SeqsOf(Append(q, a)) = SeqsOf(q) \cup {a.frame_seq}
         /\ Ordered(Append(q, a)) /\ Chained(Append(q, a), B)
<1> DEFINE Q == Append(q, a)
           n == Len(q)
<1>1. /\ Q \in Seq(Units) /\ n \in Nat /\ Len(Q) = n + 1 /\ Q[n + 1] = a
      /\ \A i \in 1..n : Q[i] = q[i]
  OBVIOUS
<1>2. \A i : i \in 1..(n + 1) <=> i \in 1..n \/ i = n + 1
  BY <1>1
<1> HIDE DEF Q
<1>3. SeqsOf(Q) = SeqsOf(q) \cup {a.frame_seq}
  <2>1. SeqsOf(Q) \subseteq SeqsOf(q) \cup {a.frame_seq}
    BY <1>1, <1>2 DEF SeqsOf
  <2>2. a.frame_seq \in SeqsOf(Q)
    <3>1. n + 1 \in 1..Len(Q)
      BY <1>1
    <3> QED
      BY <1>1, <3>1 DEF SeqsOf
  <2>3. ASSUME NEW i \in 1..n PROVE q[i].frame_seq \in SeqsOf(Q)
    <3>1. i \in 1..Len(Q) /\ Q[i] = q[i]
      BY <1>1
    <3> QED
      BY <3>1 DEF SeqsOf
  <2>4. SeqsOf(q) \subseteq SeqsOf(Q)
    BY <2>3 DEF SeqsOf
  <2> QED
    BY <2>1, <2>2, <2>4
<1>4. Ordered(Q)
  <2> SUFFICES ASSUME NEW i \in 1..(n + 1), NEW j \in 1..(n + 1), i < j
               PROVE  Q[i].frame_seq < Q[j].frame_seq
    BY <1>1 DEF Ordered
  <2>1. i \in 1..n
    BY <1>1
  <2>2. CASE j = n + 1
    BY <1>1, <2>1, <2>2 DEF SeqsOf
  <2>3. CASE j \in 1..n
    BY <1>1, <2>1, <2>3 DEF Ordered
  <2> QED
    BY <1>2, <2>2, <2>3
<1>5. Chained(Q, B)
  <2> SUFFICES ASSUME NEW i \in 1..(n + 1), ~Q[i].keyframe
               PROVE  Q[i].frame_seq - 1 \in B \cup {Q[k].frame_seq : k \in 1..(i - 1)}
    BY <1>1 DEF Chained
  <2>1. \A k \in 1..(i - 1) : k \in 1..n /\ Q[k] = q[k]
    BY <1>1
  <2>2. {Q[k].frame_seq : k \in 1..(i - 1)} = {q[k].frame_seq : k \in 1..(i - 1)}
    BY <2>1
  <2>3. CASE i = n + 1
    <3>1. {q[k].frame_seq : k \in 1..(i - 1)} = SeqsOf(q)
      BY <1>1, <2>3 DEF SeqsOf
    <3> QED
      BY <1>1, <2>2, <2>3, <3>1
  <2>4. CASE i \in 1..n
    BY <1>1, <2>2, <2>4 DEF Chained
  <2> QED
    BY <1>2, <2>3, <2>4
<1> QED
  BY <1>1, <1>3, <1>4, <1>5 DEF Q

LEMMA UnitPopped ==
  ASSUME NEW q \in Seq(Units), q # << >>, Ordered(q), NEW B, Chained(q, B)
  PROVE  /\ Head(q) \in Units /\ Tail(q) \in Seq(Units)
         /\ Len(q) \in Nat /\ Len(Tail(q)) = Len(q) - 1
         /\ SeqsOf(q) = SeqsOf(Tail(q)) \cup {Head(q).frame_seq}
         /\ \A s \in SeqsOf(Tail(q)) : Head(q).frame_seq < s
         /\ Ordered(Tail(q))
         /\ Head(q).keyframe \/ Head(q).frame_seq - 1 \in B
         /\ Chained(Tail(q), B \cup {Head(q).frame_seq})
<1> DEFINE Q == Tail(q)
           h == Head(q)
<1>1. /\ Q \in Seq(Units) /\ h \in Units /\ h = q[1]
      /\ Len(q) \in Nat \ {0} /\ Len(Q) = Len(q) - 1
      /\ \A i \in 1..Len(Q) : Q[i] = q[i + 1]
  OBVIOUS
<1> HIDE DEF Q, h
<1>2. \A i \in 1..Len(Q) : i + 1 \in 1..Len(q) /\ 1 < i + 1
  BY <1>1
<1>3. \A i \in 1..Len(q) : i = 1 \/ (i - 1 \in 1..Len(Q) /\ (i - 1) + 1 = i)
  BY <1>1
<1>4. 1 \in 1..Len(q)
  BY <1>1
<1>5. Ordered(Q)
  <2> SUFFICES ASSUME NEW i \in 1..Len(Q), NEW j \in 1..Len(Q), i < j
               PROVE  Q[i].frame_seq < Q[j].frame_seq
    BY DEF Ordered
  <2>1. i + 1 < j + 1
    BY <1>1
  <2> QED
    BY <1>1, <1>2, <2>1 DEF Ordered
<1>6. SeqsOf(q) \subseteq SeqsOf(Q) \cup {h.frame_seq}
  <2> SUFFICES ASSUME NEW i \in 1..Len(q) PROVE q[i].frame_seq \in SeqsOf(Q) \cup {h.frame_seq}
    BY DEF SeqsOf
  <2>1. CASE i = 1
    BY <1>1, <2>1
  <2>2. CASE i # 1
    <3>1. i - 1 \in 1..Len(Q) /\ (i - 1) + 1 = i
      BY <1>3, <2>2
    <3>2. Q[i - 1] = q[i]
      BY <1>1, <3>1
    <3> QED
      BY <3>1, <3>2 DEF SeqsOf
  <2> QED
    BY <2>1, <2>2
<1>7. SeqsOf(Q) \cup {h.frame_seq} \subseteq SeqsOf(q)
  <2>1. h.frame_seq \in SeqsOf(q)
    BY <1>1, <1>4 DEF SeqsOf
  <2>2. ASSUME NEW i \in 1..Len(Q) PROVE Q[i].frame_seq \in SeqsOf(q)
    BY <1>1, <1>2 DEF SeqsOf
  <2>3. SeqsOf(Q) \subseteq SeqsOf(q)
    BY <2>2 DEF SeqsOf
  <2> QED
    BY <2>1, <2>3
<1>8. \A s \in SeqsOf(Q) : h.frame_seq < s
  BY <1>1, <1>2, <1>4 DEF SeqsOf, Ordered
<1>9. h.keyframe \/ h.frame_seq - 1 \in B
  <2>1. 1..(1 - 1) = {}
    OBVIOUS
  <2> QED
    BY <1>1, <1>4, <2>1 DEF Chained
<1>10. Chained(Q, B \cup {h.frame_seq})
  <2> SUFFICES ASSUME NEW i \in 1..Len(Q), ~Q[i].keyframe
               PROVE  Q[i].frame_seq - 1 \in (B \cup {h.frame_seq}) \cup {Q[k].frame_seq : k \in 1..(i - 1)}
    BY DEF Chained
  <2>1. Q[i] = q[i + 1] /\ i + 1 \in 1..Len(q) /\ (i + 1) - 1 = i
    BY <1>1, <1>2
  <2>2. q[i + 1].frame_seq - 1 \in B \cup {q[k].frame_seq : k \in 1..i}
    BY <2>1 DEF Chained
  <2>3. CASE q[i + 1].frame_seq - 1 \in B
    BY <2>1, <2>3
  <2>4. ASSUME NEW k \in 1..i, q[i + 1].frame_seq - 1 = q[k].frame_seq
        PROVE  q[k].frame_seq \in {h.frame_seq} \cup {Q[m].frame_seq : m \in 1..(i - 1)}
    <3>1. CASE k = 1
      BY <1>1, <3>1
    <3>2. CASE k # 1
      <4>1. k - 1 \in 1..(i - 1) /\ k - 1 \in 1..Len(Q) /\ (k - 1) + 1 = k
        BY <1>1, <3>2
      <4>2. Q[k - 1] = q[k]
        BY <1>1, <4>1
      <4> QED
        BY <4>1, <4>2
    <3> QED
      BY <3>1, <3>2
  <2> QED
    BY <2>1, <2>2, <2>3, <2>4
<1> QED
  BY <1>1, <1>5, <1>6, <1>7, <1>8, <1>9, <1>10 DEF Q, h

\* An ordered queue holds as many frames as it has units.
LEMMA UnitsCounted ==
  ASSUME NEW q \in Seq(Units), Ordered(q)
  PROVE  IsFiniteSet(SeqsOf(q)) /\ Cardinality(SeqsOf(q)) = Len(q)
<1> DEFINE n == Len(q)
           S == SeqsOf(q)
           f == [i \in 1..n |-> q[i].frame_seq]
<1>0. n \in Nat /\ \A i \in 1..n : q[i] \in Units
  OBVIOUS
<1>1. n \in Nat /\ \A i \in 1..n : q[i].frame_seq \in Nat
  BY <1>0 DEF Units
<1>2. f \in [1..n -> S] /\ \A i \in 1..n : f[i] = q[i].frame_seq
  BY DEF SeqsOf
<1> HIDE DEF f
<1>3. \A i, j \in 1..n : f[i] = f[j] => i = j
  <2> SUFFICES ASSUME NEW i \in 1..n, NEW j \in 1..n, i # j PROVE f[i] # f[j]
    OBVIOUS
  <2>1. i < j \/ j < i
    BY <1>1
  <2>2. q[i].frame_seq < q[j].frame_seq \/ q[j].frame_seq < q[i].frame_seq
    BY <2>1 DEF Ordered
  <2> QED
    BY <1>1, <1>2, <2>2
<1>4. \A s \in S : \E i \in 1..n : f[i] = s
  BY <1>2 DEF SeqsOf
<1>5. f \in Bijection(1..n, S)
  <2>1. DOMAIN f = 1..n
    BY <1>2
  <2> HIDE DEF n, S
  <2>2. f \in Injection(1..n, S)
    BY <1>2, <1>3, <2>1 DEF Injection, IsInjective
  <2>3. f \in Surjection(1..n, S)
    BY <1>2, <1>4 DEF Surjection
  <2> QED
    BY <2>2, <2>3 DEF Bijection
<1> HIDE DEF n, S
<1>6. IsFiniteSet(1..n) /\ Cardinality(1..n) = n
  BY <1>1, FS_Interval
<1>7. IsFiniteSet(S) /\ Cardinality(S) = Cardinality(1..n)
  <2>1. ExistsBijection(1..n, S)
    BY <1>5 DEF ExistsBijection
  <2> QED
    BY <1>6, <2>1, FS_Bijection
<1> QED
  BY <1>6, <1>7 DEF n, S

-----------------------------------------------------------------------------
(***************************************************************************)
(* The ledger of the delivered frames                                      *)
(***************************************************************************)
Taken == {u.frame_seq : u \in popped}
Queued == SeqsOf(au_queue)

LType ==
  /\ au_queue \in Seq(Units) /\ popped \subseteq Units /\ awaiting_keyframe \in BOOLEAN
  /\ IsFiniteSet(popped) /\ IsFiniteSet(Taken) /\ IsFiniteSet(discarded) /\ IsFiniteSet(missing)

\* The frame in the producer's hands is the newest one delivered.
Handing ==
  producer \in Busy =>
    /\ Current.frame_seq \in Nat /\ Current.keyframe \in BOOLEAN
    /\ Current.frame_seq = last_decoded
    /\ \A s \in Delivered : s <= Current.frame_seq

\* The order of the hand-off, and the room left for the push after the overrun check.
InLine ==
  /\ Ordered(au_queue)
  /\ \A s \in Taken, n \in Queued : s < n
  /\ Len(au_queue) <= MaxPendingAus
  /\ producer = "push" => Len(au_queue) < MaxPendingAus

\* What was handed over, or is about to be, is decodable.
Links ==
  /\ \A u \in popped : u.keyframe \/ u.frame_seq - 1 \in Taken \cup missing
  /\ Chained(au_queue, Taken \cup missing)
  /\ producer = "push" =>
       Current.keyframe \/ Current.frame_seq - 1 \in (Taken \cup missing) \cup Queued

\* Every delivered frame is in exactly one place.
Places ==
  /\ Delivered = Taken \cup Queued \cup InHand \cup discarded \cup missing
  /\ InHand \cap (Taken \cup Queued \cup discarded \cup missing) = {}
  /\ discarded \cap (Taken \cup Queued \cup missing) = {}
  /\ missing \cap (Taken \cup Queued) = {}

Counts ==
  /\ Cardinality(popped) = Cardinality(Taken)
  /\ stale_at_decoder = Cardinality(discarded)

\* Unless the receiver awaits a keyframe, the newest frame before the one in hand was
\* not thrown away: this is why the next one may follow it into the hand-off.
Reference ==
  /\ producer # "overrun" /\ ~awaiting_keyframe => last_decoded \notin discarded
  /\ producer = "overrun" /\ ~Current.keyframe =>
       /\ Current.frame_seq - 1 \in Delivered
       /\ ~awaiting_keyframe => Current.frame_seq - 1 \notin discarded

LInv == LType /\ Handing /\ InLine /\ Links /\ Places /\ Counts /\ Reference

LEMMA LedgerInit == VInit => LInv
<1> SUFFICES ASSUME VInit PROVE LInv
  OBVIOUS
<1>1. /\ au_queue = << >> /\ popped = {} /\ discarded = {} /\ missing = {} /\ producer = "idle"
      /\ awaiting_keyframe = FALSE /\ stale_at_decoder = 0 /\ events = << >>
  BY DEF VInit, Init
<1>2. Taken = {} /\ InHand = {} /\ Delivered = {}
  BY <1>1 DEF Taken, InHand, Delivered
<1>3. Queued = {} /\ au_queue \in Seq(Units) /\ Ordered(au_queue) /\ Chained(au_queue, Taken \cup missing)
      /\ Len(au_queue) = 0
  BY <1>1, NoUnit DEF Queued
<1>4. IsFiniteSet({}) /\ Cardinality({}) = 0
  BY FS_EmptySet
<1>5. LType /\ Counts
  BY <1>1, <1>2, <1>3, <1>4 DEF LType, Counts
<1>6. InLine
  BY <1>1, <1>2, <1>3, MaxPendingAusAssumption DEF InLine
<1> QED
  BY <1>1, <1>2, <1>3, <1>5, <1>6 DEF LInv, Handing, Links, Places, Reference, Busy

\* A step that moves no frame.
LEMMA LedgerKept ==
  ASSUME LInv, UNCHANGED <<au_queue, popped, discarded, missing, awaiting_keyframe, stale_at_decoder,
                           Delivered, last_decoded>>,
         \/ producer' = producer /\ Current' = Current
         \/ producer \notin {"overrun", "push"} /\ producer' \notin Busy
  PROVE  LInv'
<1>1. UNCHANGED <<Taken, Queued>>
  BY DEF Taken, Queued
<1>2. UNCHANGED InHand
  BY DEF InHand, Busy
<1>3. LType' /\ Counts'
  BY <1>1 DEF LInv, LType, Counts
<1>4. Places'
  BY <1>1, <1>2 DEF LInv, Places
<1>5. Handing'
  BY DEF LInv, Handing
<1>6. InLine' /\ Links' /\ Reference'
  BY <1>1 DEF LInv, InLine, Links, Reference, Busy
<1> QED
  BY <1>3, <1>4, <1>5, <1>6 DEF LInv

\* A frame delivered and given up without an access unit, or taken in hand.
LEMMA LedgerFed ==
  ASSUME EInv, LInv, producer = "idle", NEW n, HandingPush(n),
         UNCHANGED <<au_queue, popped, discarded, awaiting_keyframe, stale_at_decoder>>,
         \/ producer' = "idle" /\ missing' = missing \cup {n}
         \/ producer' = "overrun" /\ missing' = missing
  PROVE  LInv'
<1>0. /\ n \in Nat /\ Current'.frame_seq = n /\ Current'.keyframe \in BOOLEAN /\ last_decoded' = n
      /\ Delivered' = Delivered \cup {n} /\ \A s \in Delivered : s < n
      /\ ~Current'.keyframe => last_decoded = n - 1 /\ last_decoded \in Delivered
  BY DEF HandingPush
<1>1. UNCHANGED <<Taken, Queued>>
  BY DEF Taken, Queued
<1>2. InHand = {} /\ Delivered = Taken \cup Queued \cup discarded \cup missing
  BY DEF LInv, Places, InHand
<1>3. n \notin Delivered
  BY <1>0
<1>4. IsFiniteSet(missing')
  BY FS_AddElement DEF LInv, LType
<1>5. LType' /\ Counts'
  BY <1>1, <1>4 DEF LInv, LType, Counts
<1>6. InHand' = IF producer' = "overrun" THEN {n} ELSE {}
  BY <1>0 DEF InHand
<1>7. Places'
  <2>1. discarded \cap (Taken \cup Queued \cup missing) = {} /\ missing \cap (Taken \cup Queued) = {}
    BY DEF LInv, Places
  <2>2. CASE producer' = "idle"
    BY <1>0, <1>1, <1>2, <1>3, <1>6, <2>1, <2>2 DEF Places
  <2>3. CASE producer' = "overrun"
    BY <1>0, <1>1, <1>2, <1>3, <1>6, <2>1, <2>3 DEF Places
  <2> QED
    BY <2>2, <2>3
<1>8. Handing'
  <2>1. \A s \in Delivered' : s <= n
    <3>1. \A s \in Delivered : s \in Nat
      BY DeliveredIsOld
    <3> QED
      BY <1>0, <3>1
  <2> QED
    BY <1>0, <2>1 DEF Handing
<1>9. InLine'
  BY <1>1 DEF LInv, InLine
<1>10. Links'
  <2>1. Taken \cup missing \subseteq (Taken \cup missing)'
    BY <1>1
  <2>2. Chained(au_queue, Taken \cup missing)
    BY DEF LInv, Links
  <2>3. Chained(au_queue, (Taken \cup missing)')
    BY <2>1, <2>2, ChainedMore
  <2> QED
    BY <2>1, <2>3 DEF LInv, Links
<1>11. Reference'
  <2>1. CASE producer' = "idle"
    BY <1>0, <1>2, <1>3, <2>1 DEF Reference
  <2>2. CASE producer' = "overrun"
    BY <1>0, <2>2 DEF LInv, Reference
  <2> QED
    BY <2>1, <2>2
<1> QED
  BY <1>5, <1>7, <1>8, <1>9, <1>10, <1>11 DEF LInv

\* deliver_frame's first critical section: an overrun drops the queue, and the frame in
\* hand goes with it unless it may be pushed.
LEMMA LedgerChecked ==
  ASSUME EInv, LInv, CheckOverrun
  PROVE  LInv'
<1> DEFINE c == Current.frame_seq
           D == IF Overrun THEN Queued ELSE {}
<1>0. /\ producer = "overrun" /\ UNCHANGED <<rvars, missing, popped>>
      /\ au_queue' = IF Overrun THEN << >> ELSE au_queue
  BY DEF CheckOverrun
<1>1. UNCHANGED <<Current, Delivered, last_decoded, Taken>>
  BY <1>0 DEF Current, Delivered, IsDeliver, Taken, rvars
<1>2. /\ c \in Nat /\ Current.keyframe \in BOOLEAN /\ c = last_decoded
      /\ \A s \in Delivered : s <= c
  BY <1>0 DEF LInv, Handing, Busy
<1>3. QueuedSeqs = Queued /\ Len(au_queue) \in Nat
  <2>1. DOMAIN au_queue = 1..Len(au_queue) /\ Len(au_queue) \in Nat
    BY DEF LInv, LType
  <2> QED
    BY <2>1 DEF QueuedSeqs, Queued, SeqsOf
<1>4. InHand = {c}
  BY <1>0 DEF InHand
<1>5. /\ Delivered = Taken \cup Queued \cup {c} \cup discarded \cup missing
      /\ c \notin Taken /\ c \notin Queued /\ c \notin discarded /\ c \notin missing
      /\ discarded \cap (Taken \cup Queued \cup missing) = {}
      /\ missing \cap (Taken \cup Queued) = {}
  BY <1>4 DEF LInv, Places
<1>6. IsFiniteSet(Queued) /\ Cardinality(Queued) = Len(au_queue)
  BY UnitsCounted DEF LInv, LType, InLine, Queued
<1>7. IsFiniteSet(D) /\ Cardinality(D) = (IF Overrun THEN Len(au_queue) ELSE 0)
  BY <1>6, FS_EmptySet
<1>8. /\ au_queue' \in Seq(Units) /\ Ordered(au_queue') /\ Queued' = Queued \ D
      /\ Chained(au_queue', Taken \cup missing)
      /\ Len(au_queue') < MaxPendingAus
  <2>1. CASE Overrun
    <3>1. au_queue' = << >>
      BY <1>0, <2>1
    <3>2. /\ au_queue' \in Seq(Units) /\ Ordered(au_queue') /\ SeqsOf(au_queue') = {}
          /\ Chained(au_queue', Taken \cup missing) /\ Len(au_queue') = 0
      BY <3>1, NoUnit
    <3>3. 0 < MaxPendingAus
      BY MaxPendingAusAssumption
    <3> QED
      BY <2>1, <3>2, <3>3 DEF Queued
  <2>2. CASE ~Overrun
    <3>1. Len(au_queue) < MaxPendingAus
      BY <1>3, <2>2, MaxPendingAusAssumption DEF Overrun
    <3>2. au_queue' = au_queue
      BY <1>0, <2>2
    <3> QED
      BY <2>2, <3>1, <3>2 DEF Queued, LInv, LType, InLine, Links
  <2> QED
    BY <2>1, <2>2
<1>9. Len(au_queue') <= MaxPendingAus
  <2>1. Len(au_queue') \in Nat
    BY <1>8
  <2> QED
    BY <1>8, <2>1, MaxPendingAusAssumption
<1>10. IsFiniteSet(discarded) /\ D \cap discarded = {} /\ D \subseteq Queued /\ stale_at_decoder = Cardinality(discarded)
  BY <1>5 DEF LInv, LType, Counts
<1>11. /\ IsFiniteSet(discarded \cup D)
       /\ Cardinality(discarded \cup D) = stale_at_decoder + Cardinality(D)
  BY <1>7, <1>10, CountGrows
<1>12. Cardinality(discarded) \in Nat /\ Cardinality(D) \in Nat
  BY <1>7, <1>10, FS_CardinalityType
<1>13. InLine'
  BY <1>0, <1>1, <1>8, <1>9 DEF LInv, InLine
<1>14. Taken \cap Queued = {}
  <2>1. \A s \in Taken : s \in Nat
    BY <1>5, DeliveredIsOld
  <2>2. \A s \in Taken : s \notin Queued
    BY <2>1 DEF LInv, InLine
  <2> QED
    BY <2>2
<1>15. CASE MustAwait
  <2>1. /\ awaiting_keyframe' = TRUE /\ producer' = "idle"
        /\ discarded' = discarded \cup {c} \cup D
        /\ stale_at_decoder' = stale_at_decoder + 1 + Cardinality(D)
    BY <1>3, <1>7, <1>15 DEF CheckOverrun
  <2> HIDE DEF D, c
  <2>2. discarded' = (discarded \cup D) \cup {c} /\ c \notin discarded \cup D
    BY <1>5, <1>10, <2>1
  <2>3. IsFiniteSet(discarded') /\ Cardinality(discarded') = Cardinality(discarded \cup D) + 1
    BY <1>11, <2>2, FS_AddElement
  <2>4. stale_at_decoder' = Cardinality(discarded')
    BY <1>10, <1>11, <1>12, <2>1, <2>3
  <2>5. LType' /\ Counts'
    BY <1>0, <1>1, <1>8, <2>1, <2>3, <2>4 DEF LInv, LType, Counts
  <2>6. InHand' = {}
    BY <2>1 DEF InHand
  <2>7. Places'
    <3>1. Taken' = Taken /\ Delivered' = Delivered /\ missing' = missing
      BY <1>0, <1>1
    <3>2. Delivered = Taken \cup (Queued \ D) \cup {} \cup ((discarded \cup D) \cup {c}) \cup missing
      BY <1>5, <1>10
    <3>3. /\ ((discarded \cup D) \cup {c}) \cap (Taken \cup (Queued \ D) \cup missing) = {}
          /\ missing \cap (Taken \cup (Queued \ D)) = {}
      BY <1>5, <1>10, <1>14
    <3> QED
      BY <1>8, <2>2, <2>6, <3>1, <3>2, <3>3 DEF Places
  <2>8. Handing' /\ Reference'
    BY <2>1 DEF Handing, Reference, Busy
  <2>9. Links'
    BY <1>0, <1>1, <1>8, <2>1 DEF LInv, Links
  <2> QED
    BY <1>13, <2>5, <2>7, <2>8, <2>9 DEF LInv
<1>16. CASE ~MustAwait
  <2>1. /\ awaiting_keyframe' = FALSE /\ producer' = "push"
        /\ discarded' = discarded \cup D
        /\ stale_at_decoder' = stale_at_decoder + Cardinality(D)
    BY <1>3, <1>7, <1>16 DEF CheckOverrun
  <2>2. Current.keyframe \/ (~awaiting_keyframe /\ ~Overrun)
    BY <1>16 DEF MustAwait
  <2>3. Current.keyframe \/ c - 1 \in (Taken \cup missing) \cup Queued'
    <3> SUFFICES ASSUME ~Current.keyframe PROVE c - 1 \in (Taken \cup missing) \cup Queued'
      OBVIOUS
    <3>1. c - 1 \in Delivered /\ c - 1 \notin discarded /\ c - 1 # c
      BY <1>0, <1>2, <2>2 DEF LInv, Reference
    <3>2. Queued' = Queued
      BY <1>8, <2>2
    <3> QED
      BY <1>5, <3>1, <3>2
  <2> HIDE DEF D, c
  <2>4. LType' /\ Counts'
    BY <1>0, <1>1, <1>8, <1>11, <2>1 DEF LInv, LType, Counts
  <2>5. InHand' = {c}
    BY <1>1, <2>1 DEF InHand, c
  <2>6. Places'
    <3>1. Taken' = Taken /\ Delivered' = Delivered /\ missing' = missing
      BY <1>0, <1>1
    <3>2. Delivered = Taken \cup (Queued \ D) \cup {c} \cup (discarded \cup D) \cup missing
      BY <1>5, <1>10
    <3>3. /\ {c} \cap (Taken \cup (Queued \ D) \cup (discarded \cup D) \cup missing) = {}
          /\ (discarded \cup D) \cap (Taken \cup (Queued \ D) \cup missing) = {}
          /\ missing \cap (Taken \cup (Queued \ D)) = {}
      BY <1>5, <1>10, <1>14
    <3> QED
      BY <1>8, <2>1, <2>5, <3>1, <3>2, <3>3 DEF Places
  <2>7. Handing'
    BY <1>1, <1>2 DEF Handing, c
  <2>8. last_decoded' \notin discarded'
    BY <1>1, <1>2, <1>5, <1>10, <2>1
  <2>9. Reference'
    BY <2>1, <2>8 DEF Reference
  <2>10. Links'
    BY <1>0, <1>1, <1>8, <2>3 DEF LInv, Links, c
  <2> QED
    BY <1>13, <2>4, <2>6, <2>7, <2>9, <2>10 DEF LInv
<1> QED
  BY <1>15, <1>16

\* The second critical section: the frame in hand becomes the last of the queue.
LEMMA LedgerPushed ==
  ASSUME EInv, LInv, PushAu
  PROVE  LInv'
<1> DEFINE c == Current.frame_seq
           a == [frame_seq |-> Current.frame_seq, keyframe |-> Current.keyframe]
<1>0. /\ producer = "push" /\ producer' = "notify" /\ au_queue' = Append(au_queue, a)
      /\ UNCHANGED <<rvars, pvars, popped>>
  BY DEF PushAu
<1>1. UNCHANGED <<Current, Delivered, last_decoded, Taken, missing, discarded, awaiting_keyframe, stale_at_decoder>>
  BY <1>0 DEF Current, Delivered, IsDeliver, Taken, rvars, pvars
<1>2. /\ c \in Nat /\ Current.keyframe \in BOOLEAN /\ c = last_decoded
      /\ \A s \in Delivered : s <= c
  BY <1>0 DEF LInv, Handing, Busy
<1>3. a \in Units /\ a.frame_seq = c /\ a.keyframe = Current.keyframe
  BY <1>2 DEF Units
<1> HIDE DEF a
<1>4. InHand = {c} /\ InHand' = {}
  BY <1>0 DEF InHand
<1>5. /\ Delivered = Taken \cup Queued \cup {c} \cup discarded \cup missing
      /\ c \notin Taken /\ c \notin Queued /\ c \notin discarded /\ c \notin missing
      /\ discarded \cap (Taken \cup Queued \cup missing) = {}
      /\ missing \cap (Taken \cup Queued) = {}
  BY <1>4 DEF LInv, Places
<1>6. \A s \in Taken \cup Queued : s < c
  <2>1. \A s \in Delivered : s \in Nat
    BY DeliveredIsOld
  <2> QED
    BY <1>2, <1>5, <2>1
<1>7. /\ au_queue' \in Seq(Units) /\ Len(au_queue') = Len(au_queue) + 1
      /\ Queued' = Queued \cup {c} /\ Ordered(au_queue') /\ Chained(au_queue', Taken \cup missing)
  <2>1. /\ au_queue \in Seq(Units) /\ Ordered(au_queue) /\ Chained(au_queue, Taken \cup missing)
        /\ a.keyframe \/ a.frame_seq - 1 \in (Taken \cup missing) \cup SeqsOf(au_queue)
        /\ \A s \in SeqsOf(au_queue) : s < a.frame_seq
    BY <1>0, <1>3, <1>6 DEF LInv, LType, InLine, Links, Queued
  <2> HIDE DEF c
  <2> QED
    BY <1>0, <1>3, <2>1, UnitAppended DEF Queued
<1> HIDE DEF c
<1>8. Len(au_queue') <= MaxPendingAus
  <2>1. Len(au_queue) \in Nat /\ Len(au_queue) < MaxPendingAus
    BY <1>0 DEF LInv, LType, InLine
  <2> QED
    BY <1>7, <2>1, MaxPendingAusAssumption
<1>9. LType' /\ Counts'
  BY <1>0, <1>1, <1>7 DEF LInv, LType, Counts
<1>10. Places'
  BY <1>1, <1>4, <1>5, <1>7 DEF Places
<1>11. InLine'
  BY <1>0, <1>1, <1>6, <1>7, <1>8 DEF LInv, InLine
<1>12. Links'
  BY <1>0, <1>1, <1>7 DEF LInv, Links
<1>13. Handing'
  BY <1>1, <1>2 DEF Handing, c
<1>14. Reference'
  BY <1>0, <1>1 DEF LInv, Reference
<1> QED
  BY <1>9, <1>10, <1>11, <1>12, <1>13, <1>14 DEF LInv

\* pop_au takes the head of the queue.
LEMMA LedgerPopped ==
  ASSUME EInv, LInv, PopAu
  PROVE  LInv'
<1> DEFINE h == Head(au_queue)
           n == h.frame_seq
<1>0. /\ au_queue # << >> /\ au_queue' = Tail(au_queue) /\ popped' = popped \cup {h}
      /\ UNCHANGED <<rvars, pvars, producer>>
  BY DEF PopAu
<1>1. UNCHANGED <<Current, Delivered, last_decoded, missing, discarded, awaiting_keyframe, stale_at_decoder>>
  BY <1>0 DEF Current, Delivered, IsDeliver, rvars, pvars
<1>2. UNCHANGED InHand
  BY <1>0, <1>1 DEF InHand
<1> HIDE DEF h
<1>3. Taken' = Taken \cup {n}
  BY <1>0 DEF Taken
<1>4. /\ h \in Units /\ au_queue' \in Seq(Units)
      /\ Len(au_queue) \in Nat /\ Len(au_queue') = Len(au_queue) - 1
      /\ Queued = Queued' \cup {n} /\ \A s \in Queued' : n < s
      /\ Ordered(au_queue') /\ (h.keyframe \/ n - 1 \in Taken \cup missing)
      /\ Chained(au_queue', (Taken \cup missing) \cup {n})
  <2>1. au_queue \in Seq(Units) /\ Ordered(au_queue) /\ Chained(au_queue, Taken \cup missing)
    BY DEF LInv, LType, InLine, Links
  <2> QED
    BY <1>0, <2>1, UnitPopped DEF Queued, h
<1>5. n \in Nat
  BY <1>4 DEF Units
<1>6. n \notin Queued'
  BY <1>4, <1>5
<1>7. /\ \A s \in Taken : s < n
      /\ \A s \in Taken, m \in Queued' : s < m
  BY <1>4 DEF LInv, InLine
<1>8. n \notin Taken /\ h \notin popped
  <2>1. n \notin Taken
    BY <1>5, <1>7
  <2> QED
    BY <2>1 DEF Taken
<1>9. /\ IsFiniteSet(popped') /\ Cardinality(popped') = Cardinality(popped) + 1
      /\ IsFiniteSet(Taken') /\ Cardinality(Taken') = Cardinality(Taken) + 1
  BY <1>0, <1>3, <1>8, FS_AddElement DEF LInv, LType
<1> HIDE DEF n
<1>10. LType' /\ Counts'
  BY <1>0, <1>1, <1>4, <1>9 DEF LInv, LType, Counts
<1>11. Places'
  BY <1>1, <1>2, <1>3, <1>4, <1>6 DEF LInv, Places
<1>12. InLine'
  <2>1. /\ Len(au_queue') <= MaxPendingAus
        /\ producer' = "push" => Len(au_queue') < MaxPendingAus
    BY <1>0, <1>4, MaxPendingAusAssumption DEF LInv, InLine
  <2> QED
    BY <1>3, <1>4, <1>7, <2>1 DEF InLine
<1>13. Links'
  <2>1. (Taken \cup missing)' = (Taken \cup missing) \cup {n}
    BY <1>1, <1>3
  <2>2. Chained(au_queue', (Taken \cup missing)')
    BY <1>4, <2>1
  <2>3. \A u \in popped' : u.keyframe \/ u.frame_seq - 1 \in (Taken \cup missing)'
    BY <1>0, <1>4, <2>1 DEF LInv, Links, n
  <2>4. (Taken \cup missing)' \cup Queued' = (Taken \cup missing) \cup Queued
    BY <1>4, <2>1
  <2>5. producer' = "push" =>
          Current'.keyframe \/ Current'.frame_seq - 1 \in (Taken \cup missing)' \cup Queued'
    BY <1>0, <1>1, <2>4 DEF LInv, Links
  <2> QED
    BY <2>2, <2>3, <2>5 DEF Links
<1>14. Handing' /\ Reference'
  BY <1>0, <1>1 DEF LInv, Handing, Reference
<1> QED
  BY <1>10, <1>11, <1>12, <1>13, <1>14 DEF LInv

LEMMA LedgerStep == EInv /\ LInv /\ [VNext]_vvars => LInv'
<1> SUFFICES ASSUME EInv, LInv, [VNext]_vvars PROVE LInv'
  OBVIOUS
<1>1. ASSUME NEW t \in Times, NEW f \in Fragments, NEW empty \in BOOLEAN, feed_datagram(t, f, empty)
      PROVE  LInv'
  <2>1. /\ producer = "idle" /\ push(t, f)
        /\ UNCHANGED <<au_queue, popped, discarded, awaiting_keyframe, stale_at_decoder>>
    BY <1>1 DEF feed_datagram, FeedQuiet, FeedIdr, FeedNoAu, FeedAu
  <2>2. QuietPush(t) \/ AskingPush(t) \/ HandingPush(f.frame_seq)
    BY <2>1, PushKinds
  <2>3. CASE FeedQuiet(t, f) \/ FeedIdr(t, f)
    <3>1. UNCHANGED <<producer, missing>> /\ (events' # events => Current'.kind # "Deliver")
      BY <2>3 DEF FeedQuiet, FeedIdr, Current
    <3>2. UNCHANGED <<Delivered, last_decoded>>
      BY <2>2, <3>1 DEF QuietPush, AskingPush, HandingPush
    <3> QED
      BY <2>1, <3>1, <3>2, LedgerKept DEF Busy
  <2>4. CASE FeedNoAu(t, f, empty) \/ FeedAu(t, f, empty)
    <3>1. /\ Current'.kind = "Deliver" /\ events' # events
          /\ \/ producer' = "idle" /\ missing' = missing \cup {f.frame_seq}
             \/ producer' = "overrun" /\ missing' = missing
      BY <2>1, <2>4 DEF FeedNoAu, FeedAu, Current
    <3>2. HandingPush(f.frame_seq)
      BY <2>2, <3>1 DEF QuietPush, AskingPush
    <3> QED
      BY <2>1, <3>1, <3>2, LedgerFed
  <2> QED
    BY <1>1, <2>3, <2>4 DEF feed_datagram
<1>2. ASSUME UNCHANGED <<rvars, au_queue, popped, discarded, missing, awaiting_keyframe, stale_at_decoder>>,
             producer' = producer \/ (producer \notin {"overrun", "push"} /\ producer' \notin Busy)
      PROVE  LInv'
  <2>1. UNCHANGED <<Current, Delivered, last_decoded>>
    BY <1>2 DEF Current, Delivered, IsDeliver, rvars
  <2> QED
    BY <1>2, <2>1, LedgerKept
<1>3. CASE Stop \/ StartDecoder \/ SpuriousWake
  BY <1>2, <1>3 DEF Stop, StartDecoder, SpuriousWake, pvars, Busy
<1>4. CASE NotifyOne \/ NotifyAll \/ Resume
  BY <1>2, <1>4 DEF NotifyOne, NotifyAll, Resume, pvars, Busy
<1>5. CASE PopStopped \/ PopWait \/ LoopEnds
  BY <1>2, <1>5 DEF PopStopped, PopWait, LoopEnds, pvars
<1>6. CASE UNCHANGED vvars
  BY <1>2, <1>6 DEF vvars, pvars
<1> QED
  BY <1>1, <1>3, <1>4, <1>5, <1>6, LedgerChecked, LedgerPushed, LedgerPopped
     DEF VNext, ProducerStep, DecoderStep

LEMMA LedgerAlways == VSpec => []LInv
  BY LedgerInit, LedgerStep, InsideInv, PTL DEF VSpec

\* Every access unit handed to the decode thread is a keyframe, or its reference was handed
\* over before it or given up without an access unit; and the hand-off keeps its bound
\* although deliver_frame releases mu_ between the overrun check and the push.
THEOREM ReceiverHandOffChain == VSpec => []HandOffChain
<1>1. EInv /\ LInv => HandOffChain
  <2> SUFFICES ASSUME EInv, LInv PROVE HandOffChain
    OBVIOUS
  <2> DEFINE Seen(i) == {u.frame_seq : u \in popped} \cup {au_queue[k].frame_seq : k \in 1..(i - 1)}
  <2>1. DOMAIN au_queue = 1..Len(au_queue) /\ Len(au_queue) \in Nat
    BY DEF LInv, LType
  <2>2. /\ Len(au_queue) <= MaxPendingAus
        /\ \A u \in popped :
             u.keyframe \/ u.frame_seq - 1 \in {w.frame_seq : w \in popped} \cup missing
    BY DEF LInv, InLine, Links, Taken
  <2>3. \A i \in DOMAIN au_queue : au_queue[i].keyframe \/ au_queue[i].frame_seq - 1 \in Seen(i) \cup missing
    BY <2>1 DEF LInv, Links, Taken, Chained
  <2>4. ASSUME NEW i \in DOMAIN au_queue, NEW s \in Seen(i) PROVE s < au_queue[i].frame_seq
    <3>1. CASE s \in Taken
      BY <2>1, <2>4, <3>1 DEF LInv, InLine, Queued, SeqsOf
    <3>2. ASSUME NEW k \in 1..(i - 1), s = au_queue[k].frame_seq PROVE s < au_queue[i].frame_seq
      <4>1. k \in 1..Len(au_queue) /\ k < i /\ i \in 1..Len(au_queue)
        BY <2>1
      <4> QED
        BY <3>2, <4>1 DEF LInv, InLine, Ordered
    <3> QED
      BY <2>4, <3>1, <3>2 DEF Taken
  <2> QED
    BY <2>2, <2>3, <2>4 DEF HandOffChain
<1> QED
  BY <1>1, InsideInv, LedgerAlways, PTL

\* Every frame the reassembler delivers is in exactly one place, and stale_at_decoder
\* counts the ones dropped at the decoder's input exactly.
THEOREM ReceiverDeliveredAccounted == VSpec => []DeliveredAccounted
<1>1. EInv /\ LInv => DeliveredAccounted
  <2> SUFFICES ASSUME EInv, LInv PROVE DeliveredAccounted
    OBVIOUS
  <2>1. DOMAIN au_queue = 1..Len(au_queue) /\ Len(au_queue) \in Nat
    BY DEF LInv, LType
  <2>2. QueuedSeqs = Queued
    BY <2>1 DEF QueuedSeqs, Queued, SeqsOf
  <2>3. /\ Delivered = Taken \cup Queued \cup InHand \cup discarded \cup missing
        /\ InHand \cap (Taken \cup Queued \cup discarded \cup missing) = {}
        /\ discarded \cap (Taken \cup Queued \cup missing) = {}
        /\ missing \cap (Taken \cup Queued) = {}
    BY DEF LInv, Places
  <2>4. Taken \cap Queued = {}
    <3>1. \A s \in Taken : s \in Nat
      BY <2>3, DeliveredIsOld
    <3>2. \A s \in Taken : s \notin Queued
      BY <3>1 DEF LInv, InLine
    <3> QED
      BY <3>2
  <2>5. IsFiniteSet(Queued) /\ Cardinality(Queued) = Len(au_queue)
    BY UnitsCounted DEF LInv, LType, InLine, Queued
  <2>6. IsFiniteSet(InHand)
    BY FS_EmptySet, FS_Singleton DEF InHand
  <2>7. IsFiniteSet(Taken) /\ IsFiniteSet(discarded) /\ IsFiniteSet(missing)
    BY DEF LInv, LType
  <2> DEFINE A == Taken \cup Queued
             B == A \cup InHand
             C == B \cup discarded
  <2>8. IsFiniteSet(A) /\ Cardinality(A) = Cardinality(Taken) + Cardinality(Queued)
    BY <2>4, <2>5, <2>7, CountGrows
  <2>9. IsFiniteSet(B) /\ Cardinality(B) = Cardinality(A) + Cardinality(InHand)
    <3>1. A \cap InHand = {}
      BY <2>3
    <3> HIDE DEF A
    <3> QED
      BY <2>6, <2>8, <3>1, CountGrows
  <2>10. IsFiniteSet(C) /\ Cardinality(C) = Cardinality(B) + Cardinality(discarded)
    <3>1. B \cap discarded = {}
      BY <2>3
    <3> HIDE DEF B
    <3> QED
      BY <2>7, <2>9, <3>1, CountGrows
  <2>11. Cardinality(Delivered) = Cardinality(C) + Cardinality(missing)
    <3>1. C \cap missing = {} /\ Delivered = C \cup missing
      BY <2>3
    <3> HIDE DEF C
    <3> QED
      BY <2>7, <2>10, <3>1, CountGrows
  <2>12. Cardinality(popped) = Cardinality(Taken) /\ stale_at_decoder = Cardinality(discarded)
    BY DEF LInv, Counts
  <2> HIDE DEF A, B, C
  <2>13. Cardinality(Delivered) = Cardinality(popped) + Len(au_queue) + Cardinality(InHand)
                                  + Cardinality(discarded) + Cardinality(missing)
    BY <2>5, <2>8, <2>9, <2>10, <2>11, <2>12
  <2> QED
    BY <2>2, <2>3, <2>12, <2>13 DEF DeliveredAccounted, Taken
<1> QED
  BY <1>1, InsideInv, LedgerAlways, PTL
=============================================================================
