--------------------------- MODULE VideoReceiver ---------------------------
(***************************************************************************)
(* core/src/video_receiver.cpp on top of the reassembler: fragment         *)
(* payloads (pending), the bounded hand-off to the decode thread           *)
(* (au_queue, mutex and condition variable), the wait for a keyframe after *)
(* an overrun, and the gate every IDR request passes.                      *)
(*                                                                         *)
(* Two threads.  The producer runs feed_datagram, and stop/resume when it  *)
(* replaces the decoder; the decode thread runs pop_au in a loop.  Only    *)
(* au_queue and stop are shared, so the steps are the critical sections of *)
(* mu_ and the notifications between them.                                 *)
(*                                                                         *)
(* A datagram that does not decode, or belongs to another stream, changes  *)
(* nothing and is a stuttering step.  The host is honest: the fragments of *)
(* one frame agree on frag_count, on the keyframe flag and on whether the  *)
(* body is longer than the 8-byte capture timestamp.                       *)
(***************************************************************************)
EXTENDS Reassembler

CONSTANTS
  MaxPendingAus,   \* kMaxPendingAus, 2 in the code
  PruneKeep        \* kPruneKeep, 4 in the code

ASSUME MaxPendingAusAssumption == MaxPendingAus \in Nat \ {0}
ASSUME PruneKeepAssumption == PruneKeep \in Nat

VARIABLES
  pending,              \* frame_seq -> [count, parts]: payloads awaiting assembly
  au_queue,             \* the hand-off: access units [frame_seq, keyframe]
  stop,                 \* stop_
  awaiting_keyframe,
  last_idr_request_ms,  \* -1 = never
  last_good_seq,
  stale_at_decoder,
  frames_received,
  producer,             \* where the producer thread is
  decoder,              \* where the decode thread is
  host,                 \* what the host sent: frame_seq -> [count, keyframe, empty]
  sent,                 \* history: the IDR requests sent, [t_ms, last_good]
  popped,               \* history: the access units pop_au returned
  discarded,            \* history: frames dropped at the decoder input
  missing               \* history: delivered frames that never became an access unit

pvars == <<pending, awaiting_keyframe, last_idr_request_ms, last_good_seq,
           stale_at_decoder, frames_received, sent, discarded, missing>>
vvars == <<rvars, pvars, au_queue, stop, producer, decoder, host, popped>>

VInit ==
  /\ Init
  /\ pending = << >>
  /\ au_queue = << >>
  /\ stop = FALSE
  /\ awaiting_keyframe = FALSE
  /\ last_idr_request_ms = -1
  /\ last_good_seq = 0
  /\ stale_at_decoder = 0
  /\ frames_received = 0
  /\ producer = "idle"
  /\ decoder = "gone"
  /\ host = << >>
  /\ sent = << >>
  /\ popped = {}
  /\ discarded = {}
  /\ missing = {}

-----------------------------------------------------------------------------
\* Fault: the interval is one short.
GateShutShort(t) ==
  last_idr_request_ms >= 0 /\ t - last_idr_request_ms < IdrMinInterval - 1

\* Fault: the gate never opens again.
GateShutForever(t) == last_idr_request_ms >= 0

\* Every IDR request passes this gate, whatever its source.
GateShut(t) ==
  last_idr_request_ms >= 0 /\ t - last_idr_request_ms < IdrMinInterval

request_idr(last_good, t) ==
  \/ /\ GateShut(t)
     /\ UNCHANGED <<last_idr_request_ms, sent>>
  \/ /\ ~GateShut(t)
     /\ last_idr_request_ms' = t
     /\ sent' = Append(sent, [t_ms |-> t, last_good |-> last_good])

\* The payload map once the fragment's payload is stashed.
Stash(f) ==
  [s \in DOMAIN pending \cup {f.frame_seq} |->
     IF s # f.frame_seq THEN pending[s]
     ELSE [count |-> f.frag_count,
           parts |-> {f.frag_index} \cup (IF s \in DOMAIN pending THEN pending[s].parts
                                                                   ELSE {})]]

\* prune: payloads more than PruneKeep frames older than the datagram just fed go.
Kept(newest, p) ==
  {s \in DOMAIN p : ~(newest > PruneKeep /\ s < newest - PruneKeep)}

prune(newest, p) == [s \in Kept(newest, p) |-> p[s]]

Without(p, seq) == [s \in DOMAIN p \ {seq} |-> p[s]]

\* deliver_frame finds all the payloads of the frame.
Assembled(p, seq) ==
  /\ seq \in DOMAIN p
  /\ Cardinality(p[seq].parts) = p[seq].count

\* The event of the push that is being handled.
Current == events[Len(events)]

HonestHost(f, empty) ==
  LET sends == [count |-> f.frag_count, keyframe |-> f.keyframe, empty |-> empty]
  IN /\ f.frame_seq \in DOMAIN host => host[f.frame_seq] = sends
     /\ host' = [s \in DOMAIN host \cup {f.frame_seq} |->
                   IF s = f.frame_seq THEN sends ELSE host[s]]

-----------------------------------------------------------------------------
\* feed_datagram up to the end, when the push raises no event.
FeedQuiet(t, f) ==
  /\ push(t, f)
  /\ events' = events
  /\ pending' = prune(f.frame_seq, Stash(f))
  /\ UNCHANGED <<producer, last_idr_request_ms, sent, missing>>

\* ... when the push raises an IDR request.
FeedIdr(t, f) ==
  /\ push(t, f)
  /\ events' # events
  /\ events'[Len(events')].kind = "IdrRequest"
  /\ request_idr(events'[Len(events')].last_good, t)
  /\ pending' = prune(f.frame_seq, Stash(f))
  /\ UNCHANGED <<producer, missing>>

\* ... when the push delivers a frame and deliver_frame returns early: payloads
\* are missing, or the body holds no more than the capture timestamp.
FeedNoAu(t, f, empty) ==
  /\ push(t, f)
  /\ events' # events
  /\ events'[Len(events')].kind = "Deliver"
  /\ \/ /\ ~Assembled(Stash(f), f.frame_seq)
        /\ pending' = prune(f.frame_seq, Stash(f))
     \/ /\ Assembled(Stash(f), f.frame_seq)
        /\ empty
        /\ pending' = prune(f.frame_seq, Without(Stash(f), f.frame_seq))
  /\ missing' = missing \cup {f.frame_seq}
  /\ UNCHANGED <<producer, last_idr_request_ms, sent>>

\* ... and when it delivers a frame that becomes an access unit: deliver_frame is
\* about to take mu_ for the first time.
FeedAu(t, f, empty) ==
  /\ push(t, f)
  /\ events' # events
  /\ events'[Len(events')].kind = "Deliver"
  /\ Assembled(Stash(f), f.frame_seq)
  /\ ~empty
  /\ pending' = Without(Stash(f), f.frame_seq)
  /\ producer' = "overrun"
  /\ UNCHANGED <<last_idr_request_ms, sent, missing>>

feed_datagram(t, f, empty) ==
  /\ producer = "idle"
  /\ t >= now
  /\ HonestHost(f, empty)
  /\ \/ FeedQuiet(t, f)
     \/ FeedIdr(t, f)
     \/ FeedNoAu(t, f, empty)
     \/ FeedAu(t, f, empty)
  /\ UNCHANGED <<awaiting_keyframe, last_good_seq, stale_at_decoder,
                 frames_received, discarded, au_queue, stop, decoder, popped>>

\* deliver_frame, first critical section: a hand-off that is full is stale.
Overrun == Len(au_queue) >= MaxPendingAus

QueuedSeqs == {au_queue[i].frame_seq : i \in DOMAIN au_queue}

\* Fault: the wait for a keyframe ends with the call that started it.
MustAwaitOnce == Overrun /\ ~Current.keyframe

\* The frame that cannot be decoded any more waits for the IDR instead.
MustAwait ==
  /\ awaiting_keyframe \/ Overrun
  /\ ~Current.keyframe

CheckOverrun ==
  /\ producer = "overrun"
  /\ au_queue' = IF Overrun THEN << >> ELSE au_queue
  /\ \/ /\ MustAwait
        /\ awaiting_keyframe' = TRUE
        /\ discarded' = discarded \cup {Current.frame_seq}
                                  \cup (IF Overrun THEN QueuedSeqs ELSE {})
        /\ stale_at_decoder' = stale_at_decoder + 1 + (IF Overrun THEN Len(au_queue) ELSE 0)
        /\ request_idr(last_good_seq, now)
        /\ pending' = prune(Current.frame_seq, pending)
        /\ producer' = "idle"
        /\ UNCHANGED <<last_good_seq, frames_received>>
     \/ /\ ~MustAwait
        /\ awaiting_keyframe' = FALSE
        /\ discarded' = discarded \cup (IF Overrun THEN QueuedSeqs ELSE {})
        /\ stale_at_decoder' = stale_at_decoder + (IF Overrun THEN Len(au_queue) ELSE 0)
        /\ last_good_seq' = Current.frame_seq
        /\ frames_received' = frames_received + 1
        /\ producer' = "push"
        /\ UNCHANGED <<last_idr_request_ms, sent, pending>>
  /\ UNCHANGED <<rvars, missing, stop, decoder, host, popped>>

\* Second critical section: the access unit goes into the hand-off.
PushAu ==
  /\ producer = "push"
  /\ au_queue' = Append(au_queue, [frame_seq |-> Current.frame_seq,
                                   keyframe |-> Current.keyframe])
  /\ producer' = "notify"
  /\ UNCHANGED <<rvars, pvars, stop, decoder, host, popped>>

\* notify_one after the unlock, and the rest of feed_datagram.
NotifyOne ==
  /\ producer = "notify"
  /\ decoder' = IF decoder = "waiting" THEN "ready" ELSE decoder
  /\ pending' = prune(Current.frame_seq, pending)
  /\ producer' = "idle"
  /\ UNCHANGED <<rvars, awaiting_keyframe, last_idr_request_ms, last_good_seq,
                 stale_at_decoder, frames_received, sent, discarded, missing,
                 au_queue, stop, host, popped>>

-----------------------------------------------------------------------------
\* The client replaces its decoder: the decoder's stop calls stop() and joins the
\* decode thread, then resume() revives the receiver.
Stop ==
  /\ producer = "idle"
  /\ decoder # "gone"
  /\ stop' = TRUE
  /\ producer' = "notify_all"
  /\ UNCHANGED <<rvars, pvars, au_queue, decoder, host, popped>>

NotifyAll ==
  /\ producer = "notify_all"
  /\ decoder' = IF decoder = "waiting" THEN "ready" ELSE decoder
  /\ producer' = "join"
  /\ UNCHANGED <<rvars, pvars, au_queue, stop, host, popped>>

Resume ==
  /\ producer = "join"
  /\ decoder = "gone"
  /\ stop' = FALSE
  /\ producer' = "idle"
  /\ UNCHANGED <<rvars, pvars, au_queue, decoder, host, popped>>

StartDecoder ==
  /\ producer = "idle"
  /\ decoder = "gone"
  /\ decoder' = "ready"
  /\ UNCHANGED <<rvars, pvars, au_queue, stop, producer, host, popped>>

-----------------------------------------------------------------------------
\* Fault: the front of the queue is copied and not popped.
PopAuKeeps ==
  /\ decoder = "ready"
  /\ au_queue # << >>
  /\ popped' = popped \cup {Head(au_queue)}
  /\ UNCHANGED <<rvars, pvars, au_queue, stop, producer, decoder, host>>

\* pop_au on the decode thread, one critical section each.
PopAu ==
  /\ decoder = "ready"
  /\ au_queue # << >>
  /\ popped' = popped \cup {Head(au_queue)}
  /\ au_queue' = Tail(au_queue)
  /\ UNCHANGED <<rvars, pvars, stop, producer, decoder, host>>

PopStopped ==
  /\ decoder = "ready"
  /\ au_queue = << >>
  /\ stop
  /\ decoder' = "gone"
  /\ UNCHANGED <<rvars, pvars, au_queue, stop, producer, host, popped>>

\* HevcDecoder's loop tests running_, which its stop clears before anything else,
\* between two calls of pop_au: the hand-off keeps what is in it.
LoopEnds ==
  /\ decoder = "ready"
  /\ producer \in {"notify_all", "join"}
  /\ decoder' = "gone"
  /\ UNCHANGED <<rvars, pvars, au_queue, stop, producer, host, popped>>

\* Fault: the wait does not test stop_.
PopWaitThroughStop ==
  /\ decoder = "ready"
  /\ au_queue = << >>
  /\ decoder' = "waiting"
  /\ UNCHANGED <<rvars, pvars, au_queue, stop, producer, host, popped>>

PopWait ==
  /\ decoder = "ready"
  /\ au_queue = << >>
  /\ ~stop
  /\ decoder' = "waiting"
  /\ UNCHANGED <<rvars, pvars, au_queue, stop, producer, host, popped>>

\* A condition variable may wake without a notification.
SpuriousWake ==
  /\ decoder = "waiting"
  /\ decoder' = "ready"
  /\ UNCHANGED <<rvars, pvars, au_queue, stop, producer, host, popped>>

ProducerStep == CheckOverrun \/ PushAu \/ NotifyOne \/ NotifyAll \/ Resume
DecoderStep == PopAu \/ PopStopped \/ PopWait \/ LoopEnds

VNext ==
  \/ \E t \in Times, f \in Fragments, empty \in BOOLEAN : feed_datagram(t, f, empty)
  \/ Stop
  \/ StartDecoder
  \/ ProducerStep
  \/ DecoderStep
  \/ SpuriousWake

VSpec == VInit /\ [][VNext]_vvars

\* The two threads keep running: neither a thread inside a call nor a decode
\* thread that can take mu_ is suspended for ever.  Nothing is assumed of the
\* network, of the decoder's owner or of spurious wake-ups.
VFairSpec == VSpec /\ WF_vvars(ProducerStep) /\ WF_vvars(DecoderStep)

-----------------------------------------------------------------------------
(***************************************************************************)
(* Properties                                                              *)
(***************************************************************************)
InHand == IF producer \in {"overrun", "push"} THEN {Current.frame_seq} ELSE {}

\* At most one IDR_REQUEST per IdrMinInterval leaves the client, across both of
\* its sources (gaps seen by the reassembler, overruns of the hand-off).
IdrGate ==
  \A i, j \in DOMAIN sent :
    i < j => sent[j].t_ms - sent[i].t_ms >= IdrMinInterval

\* A frame handed to the decode thread is decodable: it is a keyframe or the one
\* it references was handed over before it, in the hand-off's order.  The only
\* exception is a reference that deliver_frame gave up without an access unit.  The
\* hand-off is bounded although the overrun check and the push are two critical
\* sections.
HandOffChain ==
  LET Seen(i) == {u.frame_seq : u \in popped} \cup {au_queue[k].frame_seq : k \in 1..(i - 1)}
  IN /\ Len(au_queue) <= MaxPendingAus
     /\ \A u \in popped :
          u.keyframe \/ u.frame_seq - 1 \in {w.frame_seq : w \in popped} \cup missing
     /\ \A i \in DOMAIN au_queue :
          au_queue[i].keyframe \/ au_queue[i].frame_seq - 1 \in Seen(i) \cup missing
     /\ \A i \in DOMAIN au_queue : \A s \in Seen(i) : s < au_queue[i].frame_seq

\* Every frame the reassembler delivered is in exactly one place: with the decode
\* thread, in the hand-off, in the producer's hands, dropped as stale, or given up.
\* stale_at_decoder, the receiver's share of frames_dropped, counts frames exactly.
DeliveredAccounted ==
  LET taken == {u.frame_seq : u \in popped}
  IN /\ Delivered = taken \cup QueuedSeqs \cup InHand \cup discarded \cup missing
     /\ Cardinality(Delivered) = Cardinality(popped) + Len(au_queue)
                                 + Cardinality(InHand) + Cardinality(discarded)
                                 + Cardinality(missing)
     /\ stale_at_decoder = Cardinality(discarded)

\* No lost wake-up: while the decode thread sleeps in pop_au on a hand-off that
\* holds an access unit, or after stop(), the notification is still to come.
NoLostWakeup ==
  decoder = "waiting" =>
    /\ au_queue # << >> => producer = "notify"
    /\ stop => producer = "notify_all"

\* While the client discards frames for want of a keyframe it keeps asking: at
\* every such discard the last request sent is less than two intervals old.  (The
\* reassembler's own timer also runs when the gate swallows its request, so one
\* interval is not enough.)
DiscardIsRequested ==
  [][gapped' # gapped \/ (awaiting_keyframe' /\ discarded' # discarded) =>
       /\ last_idr_request_ms' >= 0
       /\ now' - last_idr_request_ms' < 2 * IdrMinInterval]_vvars

\* stop() always gets the decode thread out of pop_au, so the join returns.
StopReturns == producer = "notify_all" ~> producer = "idle"

\* video_receiver.cpp l.78: "shouldn't happen: reassembler only delivers complete
\* frames": every delivered frame whose body is not empty becomes an access unit.
CompleteFramesAssemble == \A s \in missing : host[s].empty
=============================================================================
