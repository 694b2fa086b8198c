---------------------------- MODULE Reassembler ----------------------------
(***************************************************************************)
(* proto/src/reassembly.cpp: the client receive model.  One call of push   *)
(* takes one fragment header; it drops the fragment as stale, stores it in *)
(* the window of at most two incomplete frames, or completes a frame.  A   *)
(* completed frame is delivered or discarded by the decode gate, and a     *)
(* discarded one may raise an IDR request.                                 *)
(*                                                                         *)
(* The network is every order, loss and duplication of fragments: push is  *)
(* enabled for every member of Fragments at every time.  Nothing assumes   *)
(* that the fragments of one frame agree on frag_count or on the keyframe  *)
(* flag, since the code does not check it either.                          *)
(***************************************************************************)
EXTENDS Integers, Sequences, FiniteSets

CONSTANTS
  Fragments,        \* the fragment headers the datagram decoder may let through
  Times,            \* the values of the monotonic millisecond clock
  IdrMinInterval,   \* 250 in the code
  None              \* an empty std::optional

ASSUME FragmentsAssumption ==
  \A f \in Fragments :
    /\ DOMAIN f = {"frame_seq", "frag_index", "frag_count", "keyframe"}
    /\ f.frame_seq \in Nat
    /\ f.frag_count \in Nat \ {0}
    /\ f.frag_index \in 0..(f.frag_count - 1)
    /\ f.keyframe \in BOOLEAN
ASSUME TimesAssumption == \A t \in Times : t \in Nat
ASSUME IntervalAssumption == IdrMinInterval \in Nat \ {0}
ASSUME NoneAssumption == None \notin Int

VARIABLES
  newest_complete,  \* highest frame_seq ever fully reassembled, -1 if none
  last_decoded,     \* newest frame handed to the decoder, or None
  incomplete,       \* the in-flight frames: frame_seq -> [need, have, keyframe]
  events,           \* the event log, never shortened
  counters,
  idr_last_t,       \* time of the last IDR request, or None
  now,              \* the clock value of the last push
  lost,             \* history: frames dropped while incomplete
  gapped            \* history: completed frames the decode gate discarded

rvars == <<newest_complete, last_decoded, incomplete, events, counters,
           idr_last_t, now, lost, gapped>>

Seqs == {f.frame_seq : f \in Fragments}

Event ==
  [kind : {"Deliver", "IdrRequest"}, t_ms : Times, frame_seq : Nat,
   keyframe : BOOLEAN, last_good : Nat]

\* The window of rule 2.
MaxIncomplete == 2

Init ==
  /\ newest_complete = -1
  /\ last_decoded = None
  /\ incomplete = << >>
  /\ events = << >>
  /\ counters = [dropped_incomplete |-> 0, discarded_gap |-> 0, stale_fragments |-> 0]
  /\ idr_last_t = None
  /\ now = 0
  /\ lost = {}
  /\ gapped = {}

-----------------------------------------------------------------------------
InFlight == DOMAIN incomplete

\* Fault: the window check is off by one and lets a third frame in.
WindowFullLate == Cardinality(InFlight) > MaxIncomplete

WindowFull == Cardinality(InFlight) >= MaxIncomplete

Oldest == CHOOSE s \in InFlight : \A r \in InFlight : s <= r

\* Fault: rule 1 is missing, late fragments of old frames count again.
IsStaleWindowOnly(f) ==
  f.frame_seq \notin InFlight /\ WindowFull /\ ~(f.frame_seq > Oldest)

\* Fault: a frame older than a full window is let in and evicts another.
IsStaleCompletedOnly(f) == f.frame_seq <= newest_complete

\* Rule 1: at or below the newest completed frame.  The second case is the one
\* of rule 2: a frame older than everything in a full window is not let in.
IsStale(f) ==
  \/ f.frame_seq <= newest_complete
  \/ f.frame_seq \notin InFlight /\ WindowFull /\ ~(f.frame_seq > Oldest)

\* Rule 2: a new frame evicts the oldest one of a full window.
Evicted(f) ==
  IF f.frame_seq \notin InFlight /\ WindowFull THEN {Oldest} ELSE {}

\* The frame's entry once the fragment is in: need and keyframe are those of the
\* frame's first fragment, a duplicate changes nothing.
Entry(f) ==
  IF f.frame_seq \in InFlight
  THEN [incomplete[f.frame_seq] EXCEPT !.have = @ \cup {f.frag_index}]
  ELSE [need |-> f.frag_count, have |-> {f.frag_index}, keyframe |-> f.keyframe]

Completes(f) == Cardinality(Entry(f).have) = Entry(f).need

\* The window loses the frames of gone, and each of them is counted.
Drop(gone) ==
  /\ lost' = lost \cup gone
  /\ counters' = [counters EXCEPT !.dropped_incomplete = @ + Cardinality(gone)]

PushStale(t, f) ==
  /\ IsStale(f)
  /\ counters' = [counters EXCEPT !.stale_fragments = @ + 1]
  /\ UNCHANGED <<newest_complete, last_decoded, incomplete, events, idr_last_t,
                 lost, gapped>>

PushPartial(t, f) ==
  /\ ~IsStale(f)
  /\ ~Completes(f)
  /\ incomplete' = [s \in (InFlight \ Evicted(f)) \cup {f.frame_seq} |->
                      IF s = f.frame_seq THEN Entry(f) ELSE incomplete[s]]
  /\ Drop(Evicted(f))
  /\ UNCHANGED <<newest_complete, last_decoded, events, idr_last_t, gapped>>

-----------------------------------------------------------------------------
\* Rule-1 cleanup: what is in flight at or below the completed frame dies with it.
Overtaken(f) == {s \in InFlight \ (Evicted(f) \cup {f.frame_seq}) : s <= f.frame_seq}

Dead(f) == Evicted(f) \cup Overtaken(f)

\* Rule 3: the frame is delivered iff it is a keyframe or directly follows the
\* newest delivered frame.
Decodable(f) ==
  \/ Entry(f).keyframe
  \/ last_decoded # None /\ last_decoded = f.frame_seq - 1

deliver(t, f) ==
  /\ events' = Append(events,
       [kind |-> "Deliver", t_ms |-> t, frame_seq |-> f.frame_seq,
        keyframe |-> Entry(f).keyframe, last_good |-> 0])
  /\ last_decoded' = f.frame_seq

\* Fault: the interval is one short.
IdrSuppressedShort(t) == idr_last_t # None /\ t - idr_last_t < IdrMinInterval - 1

\* Fault: a request is never repeated.
IdrSuppressedForever(t) == idr_last_t # None

IdrSuppressed(t) == idr_last_t # None /\ t - idr_last_t < IdrMinInterval

maybe_idr(t) ==
  \/ /\ IdrSuppressed(t)
     /\ UNCHANGED <<events, idr_last_t>>
  \/ /\ ~IdrSuppressed(t)
     /\ events' = Append(events,
          [kind |-> "IdrRequest", t_ms |-> t, frame_seq |-> 0, keyframe |-> FALSE,
           last_good |-> IF last_decoded = None THEN 0 ELSE last_decoded])
     /\ idr_last_t' = t

\* A frame becomes complete.  It leaves the window and takes the overtaken with it.
Complete(f) ==
  /\ ~IsStale(f)
  /\ Completes(f)
  /\ newest_complete' = IF newest_complete < f.frame_seq THEN f.frame_seq
                                                         ELSE newest_complete
  /\ incomplete' = [s \in InFlight \ (Dead(f) \cup {f.frame_seq}) |-> incomplete[s]]
  /\ lost' = lost \cup Dead(f)

PushDeliver(t, f) ==
  /\ Complete(f)
  /\ Decodable(f)
  /\ deliver(t, f)
  /\ counters' = [counters EXCEPT !.dropped_incomplete = @ + Cardinality(Dead(f))]
  /\ UNCHANGED <<idr_last_t, gapped>>

PushDiscard(t, f) ==
  /\ Complete(f)
  /\ ~Decodable(f)
  /\ maybe_idr(t)
  /\ counters' = [counters EXCEPT !.dropped_incomplete = @ + Cardinality(Dead(f)),
                                  !.discarded_gap = @ + 1]
  /\ gapped' = gapped \cup {f.frame_seq}
  /\ UNCHANGED last_decoded

push(t, f) ==
  /\ now' = t
  /\ \/ PushStale(t, f)
     \/ PushPartial(t, f)
     \/ PushDeliver(t, f)
     \/ PushDiscard(t, f)

Next == \E t \in Times, f \in Fragments : t >= now /\ push(t, f)

Spec == Init /\ [][Next]_rvars

-----------------------------------------------------------------------------
(***************************************************************************)
(* Properties                                                              *)
(***************************************************************************)
IsDeliver(i) == events[i].kind = "Deliver"
IsIdr(i) == events[i].kind = "IdrRequest"

Handed == {[frame_seq |-> events[i].frame_seq, keyframe |-> events[i].keyframe] :
             i \in {j \in DOMAIN events : IsDeliver(j)}}
Delivered == {events[i].frame_seq : i \in {j \in DOMAIN events : IsDeliver(j)}}

\* The types of the Reassembler's members (reassembly.hpp, private section).
TypeOK ==
  /\ newest_complete \in Seqs \cup {-1}
  /\ last_decoded \in Seqs \cup {None}
  /\ InFlight \subseteq Seqs
  /\ incomplete \in [InFlight -> [need : Nat \ {0}, have : SUBSET Nat, keyframe : BOOLEAN]]
  /\ events \in Seq(Event)
  /\ counters \in [dropped_incomplete : Nat, discarded_gap : Nat, stale_fragments : Nat]
  /\ idr_last_t \in Times \cup {None}
  /\ now \in Times \cup {0}
  /\ lost \subseteq Seqs
  /\ gapped \subseteq Seqs

\* reassembly.hpp state invariants: at most two frames are in flight whatever
\* arrives, all of them newer than the newest completed frame, and each of them
\* really lacks a fragment (so a frame is never stuck in the window complete).
WindowInv ==
  /\ Cardinality(InFlight) <= MaxIncomplete
  /\ \A s \in InFlight :
       /\ s > newest_complete
       /\ Cardinality(incomplete[s].have) \in 1..(incomplete[s].need - 1)

\* The event log of push is a decodable stream: deliveries are strictly increasing
\* in frame_seq, and a delivered frame that is not a keyframe is the successor of
\* the frame delivered before it, with no delivery in between (rule 3).
DeliveredChain ==
  \A j \in DOMAIN events : IsDeliver(j) =>
    /\ \A i \in 1..(j - 1) : IsDeliver(i) => events[i].frame_seq < events[j].frame_seq
    /\ ~events[j].keyframe =>
         \E i \in 1..(j - 1) : IsDeliver(i) /\ events[i].frame_seq = events[j].frame_seq - 1

\* Any two IDR requests of maybe_idr are at least IdrMinInterval apart.
IdrSpacing ==
  \A i, j \in DOMAIN events :
    i < j /\ IsIdr(i) /\ IsIdr(j) => events[j].t_ms - events[i].t_ms >= IdrMinInterval

\* The last_good of an IDR request is the newest frame delivered before it, and 0
\* when there is none: the host learns exactly how far the client got.
IdrNamesNewest ==
  \A j \in DOMAIN events : IsIdr(j) =>
    LET before == {i \in 1..(j - 1) : IsDeliver(i)} IN
      /\ before = {} => events[j].last_good = 0
      /\ before # {} => \E i \in before : events[i].frame_seq = events[j].last_good
      /\ \A i \in before : events[i].frame_seq <= events[j].last_good

\* Both together: what the host may rely on in the requests it gets from maybe_idr,
\* when they come and what they say.
IdrDiscipline == IdrSpacing /\ IdrNamesNewest

\* Every frame push ever let into the window has one fate, and the counters count
\* frames: a frame evicted or overtaken never comes back through a late fragment
\* to be dropped, discarded or delivered again.
OneFate ==
  /\ lost \cap gapped = {}
  /\ (lost \cup gapped) \cap Delivered = {}
  /\ (lost \cup gapped \cup Delivered) \cap InFlight = {}
  /\ counters.dropped_incomplete = Cardinality(lost)
  /\ counters.discarded_gap = Cardinality(gapped)

\* No discard goes unasked: when the decode gate discards a frame, the latest IDR
\* request is less than IdrMinInterval old (this push's own included), so while the
\* client cannot decode the request is repeated at that cadence (maybe_idr).
DiscardIsAsked ==
  [][gapped' # gapped =>
       /\ idr_last_t' # None
       /\ now' - idr_last_t' < IdrMinInterval
       /\ \E i \in DOMAIN events' : /\ events'[i].kind = "IdrRequest"
                                    /\ events'[i].t_ms = idr_last_t']_rvars

\* The deliveries are a decodable stream in the sense of DecodableStream.
Stream == INSTANCE DecodableStream WITH FrameSeqs <- Seqs, handed <- Handed
RefinesStream == Stream!Spec
=============================================================================
