------------------------- MODULE ReassemblerProofs -------------------------
(***************************************************************************)
(* Theorems about Reassembler, for every set of fragments, every clock and *)
(* every request interval.                                                 *)
(***************************************************************************)
EXTENDS Reassembler, FiniteSetTheorems, TLAPS

\* The window is a finite set of frames, each with finitely many fragments: what
\* the arithmetic on cardinalities needs besides WindowInv.
Finiteness ==
  /\ IsFiniteSet(InFlight)
  /\ \A s \in InFlight : IsFiniteSet(incomplete[s].have)

WInv == TypeOK /\ Finiteness /\ WindowInv

\* A finite set of naturals with two elements has a least one.
LEMMA LeastOfTwo ==
  ASSUME NEW S, S \subseteq Nat, IsFiniteSet(S), Cardinality(S) = 2
  PROVE  \E s \in S : \A r \in S : s <= r
<1>1. PICK a : a \in S
  BY FS_EmptySet
<1>2. IsFiniteSet(S \ {a}) /\ Cardinality(S \ {a}) = 1
  BY <1>1, FS_RemoveElement
<1>3. PICK b : S \ {a} = {b}
  BY <1>2, FS_Singleton
<1>4. S = {a, b}
  BY <1>1, <1>3
<1>5. a \in Nat /\ b \in Nat
  BY <1>4
<1>6. a <= b \/ b <= a
  BY <1>5
<1> QED
  BY <1>4, <1>5, <1>6

\* The oldest frame of a full window is one of its frames, and no other is older.
LEMMA OldestInWindow ==
  ASSUME WInv, WindowFull
  PROVE  Oldest \in InFlight /\ \A r \in InFlight : Oldest <= r
<1>1. Seqs \subseteq Nat
  BY FragmentsAssumption DEF Seqs
<1>2. IsFiniteSet(InFlight) /\ Cardinality(InFlight) = 2 /\ InFlight \subseteq Nat
  BY <1>1, FS_CardinalityType DEF WInv, Finiteness, WindowInv, TypeOK, WindowFull, MaxIncomplete
<1>3. \E s \in InFlight : \A r \in InFlight : s <= r
  BY <1>2, LeastOfTwo
<1> QED
  BY <1>3 DEF Oldest

\* What a fragment is, spelled out from FragmentsAssumption.
LEMMA FragmentType ==
  ASSUME NEW f \in Fragments
  PROVE  /\ f.frame_seq \in Nat /\ f.frame_seq \in Seqs
         /\ f.frag_count \in Nat \ {0}
         /\ f.frag_index \in Nat /\ f.frag_index < f.frag_count
         /\ f.keyframe \in BOOLEAN
BY FragmentsAssumption DEF Seqs

\* The entry of a frame with one more fragment: of the right type, and never with
\* more fragments than the frame needs, since an entry of the window lacks one.
LEMMA EntryType ==
  ASSUME WInv, NEW f \in Fragments
  PROVE  /\ Entry(f) \in [need : Nat \ {0}, have : SUBSET Nat, keyframe : BOOLEAN]
         /\ IsFiniteSet(Entry(f).have)
         /\ Cardinality(Entry(f).have) \in 1..Entry(f).need
<1>1. CASE f.frame_seq \in InFlight
  <2> DEFINE e == incomplete[f.frame_seq]
  <2>1. /\ e \in [need : Nat \ {0}, have : SUBSET Nat, keyframe : BOOLEAN]
        /\ IsFiniteSet(e.have)
        /\ Cardinality(e.have) \in 1..(e.need - 1)
    BY <1>1 DEF WInv, TypeOK, Finiteness, WindowInv
  <2>3. Entry(f) = [e EXCEPT !.have = e.have \cup {f.frag_index}]
    BY <1>1 DEF Entry
  <2> HIDE DEF e
  <2>2. /\ IsFiniteSet(e.have \cup {f.frag_index})
        /\ \/ Cardinality(e.have \cup {f.frag_index}) = Cardinality(e.have)
           \/ Cardinality(e.have \cup {f.frag_index}) = Cardinality(e.have) + 1
    BY <2>1, FS_AddElement, Zenon
  <2>4. /\ Entry(f).need = e.need /\ Entry(f).have = e.have \cup {f.frag_index}
        /\ Entry(f) \in [need : Nat \ {0}, have : SUBSET Nat, keyframe : BOOLEAN]
    BY <2>1, <2>3, FragmentType
  <2>5. Cardinality(e.have \cup {f.frag_index}) \in 1..e.need
    BY <2>1, <2>2
  <2> QED
    BY <2>2, <2>4, <2>5
<1>2. CASE f.frame_seq \notin InFlight
  <2>1. Entry(f) = [need |-> f.frag_count, have |-> {f.frag_index}, keyframe |-> f.keyframe]
    BY <1>2 DEF Entry
  <2>2. IsFiniteSet({f.frag_index}) /\ Cardinality({f.frag_index}) = 1
    BY FS_Singleton
  <2> QED
    BY <2>1, <2>2, FragmentType
<1> QED
  BY <1>1, <1>2

-----------------------------------------------------------------------------
\* An eviction makes room: a fragment of a new frame leaves at most two in flight.
LEMMA RoomAfterEviction ==
  ASSUME WInv, NEW f \in Fragments
  PROVE  /\ Evicted(f) \subseteq InFlight
         /\ f.frame_seq \notin Evicted(f)
         /\ IsFiniteSet((InFlight \ Evicted(f)) \cup {f.frame_seq})
         /\ Cardinality((InFlight \ Evicted(f)) \cup {f.frame_seq}) <= MaxIncomplete
<1> DEFINE W == (InFlight \ Evicted(f)) \cup {f.frame_seq}
<1>0. /\ IsFiniteSet(InFlight) /\ Cardinality(InFlight) \in Nat
      /\ Cardinality(InFlight) <= 2 /\ MaxIncomplete = 2
  BY FS_CardinalityType DEF WInv, Finiteness, WindowInv, MaxIncomplete
<1>1. CASE f.frame_seq \in InFlight
  <2>1. Evicted(f) = {} /\ W = InFlight
    BY <1>1 DEF Evicted
  <2> QED
    BY <1>0, <2>1
<1>2. CASE f.frame_seq \notin InFlight /\ ~WindowFull
  <2>1. Evicted(f) = {} /\ W = InFlight \cup {f.frame_seq}
    BY <1>2 DEF Evicted
  <2>2. Cardinality(InFlight) <= 1
    BY <1>0, <1>2 DEF WindowFull
  <2>3. IsFiniteSet(W) /\ Cardinality(W) <= 2
    BY <1>0, <2>1, <2>2, FS_AddElement
  <2> QED
    BY <1>0, <2>1, <2>3
<1>3. CASE f.frame_seq \notin InFlight /\ WindowFull
  <2>1. Evicted(f) = {Oldest} /\ Oldest \in InFlight
    BY <1>3, OldestInWindow DEF Evicted
  <2> DEFINE R == InFlight \ {Oldest}
  <2>2. IsFiniteSet(R) /\ Cardinality(R) = Cardinality(InFlight) - 1
    BY <1>0, <2>1, FS_RemoveElement, Zenon
  <2>3. f.frame_seq \notin R /\ W = R \cup {f.frame_seq}
    BY <1>3, <2>1
  <2> HIDE DEF R
  <2>4. IsFiniteSet(W) /\ Cardinality(W) = Cardinality(R) + 1
    BY <2>2, <2>3, FS_AddElement, Zenon
  <2> QED
    BY <1>0, <1>3, <2>1, <2>2, <2>4
<1> QED
  BY <1>1, <1>2, <1>3

\* What is dropped from the window is a finite set of frames of the stream.
LEMMA DeadType ==
  ASSUME WInv, NEW f \in Fragments
  PROVE  /\ Evicted(f) \subseteq Seqs /\ IsFiniteSet(Evicted(f))
         /\ Dead(f) \subseteq Seqs /\ IsFiniteSet(Dead(f))
         /\ Cardinality(Evicted(f)) \in Nat /\ Cardinality(Dead(f)) \in Nat
<1>1. Evicted(f) \subseteq InFlight /\ Dead(f) \subseteq InFlight
  BY RoomAfterEviction DEF Dead, Overtaken
<1>2. IsFiniteSet(InFlight) /\ InFlight \subseteq Seqs
  BY DEF WInv, Finiteness, TypeOK
<1>3. IsFiniteSet(Evicted(f)) /\ IsFiniteSet(Dead(f))
  BY <1>1, <1>2, FS_Subset
<1> QED
  BY <1>1, <1>2, <1>3, FS_CardinalityType

-----------------------------------------------------------------------------
\* Initially the window is empty and nothing has happened.
LEMMA WInvInit == Init => WInv
<1> SUFFICES ASSUME Init PROVE WInv
  OBVIOUS
<1>1. InFlight = {}
  BY DEF Init, InFlight
<1>2. incomplete \in [InFlight -> [need : Nat \ {0}, have : SUBSET Nat, keyframe : BOOLEAN]]
  BY <1>1 DEF Init, InFlight
<1>3. TypeOK
  BY <1>1, <1>2 DEF Init, TypeOK
<1>4. Finiteness /\ WindowInv
  BY <1>1, FS_EmptySet DEF Finiteness, WindowInv, MaxIncomplete
<1> QED
  BY <1>3, <1>4 DEF WInv

\* A completed frame leaves a window of newer, incomplete frames behind.
LEMMA CompleteStep ==
  ASSUME WInv, NEW f \in Fragments, Complete(f)
  PROVE  /\ newest_complete' = f.frame_seq
         /\ InFlight' = InFlight \ (Dead(f) \cup {f.frame_seq})
         /\ \A s \in InFlight' : incomplete'[s] = incomplete[s]
         /\ incomplete' \in [InFlight' -> [need : Nat \ {0}, have : SUBSET Nat, keyframe : BOOLEAN]]
         /\ InFlight' \subseteq Seqs
         /\ lost' \subseteq Seqs
         /\ Finiteness'
         /\ WindowInv'
<1>1. newest_complete \in Int /\ f.frame_seq \in Nat /\ f.frame_seq > newest_complete
  <2>1. ~(f.frame_seq <= newest_complete)
    BY DEF Complete, IsStale
  <2> QED
    BY <2>1, FragmentType DEF WInv, TypeOK, Seqs
<1>2. newest_complete' = f.frame_seq
  BY <1>1 DEF Complete
<1>3. /\ InFlight' = InFlight \ (Dead(f) \cup {f.frame_seq})
      /\ \A s \in InFlight' : incomplete'[s] = incomplete[s]
  BY DEF Complete, InFlight
<1>4. InFlight' \subseteq InFlight /\ InFlight \subseteq Seqs /\ Seqs \subseteq Nat
  BY <1>3, FragmentType DEF WInv, TypeOK, Seqs
<1>5. incomplete' \in [InFlight' -> [need : Nat \ {0}, have : SUBSET Nat, keyframe : BOOLEAN]]
  BY <1>3, <1>4 DEF Complete, InFlight, WInv, TypeOK
<1>6. Finiteness'
  BY <1>3, <1>4, FS_Subset DEF WInv, Finiteness
<1>7. Cardinality(InFlight') <= 2
  <2>1. Cardinality(InFlight') <= Cardinality(InFlight)
    BY <1>4, FS_Subset DEF WInv, Finiteness
  <2>2. /\ Cardinality(InFlight') \in Nat /\ Cardinality(InFlight) \in Nat
        /\ Cardinality(InFlight) <= 2
    BY <1>6, FS_CardinalityType DEF WInv, Finiteness, WindowInv, MaxIncomplete
  <2> QED
    BY <2>1, <2>2
<1>8. ASSUME NEW s \in InFlight'
      PROVE  /\ s > newest_complete'
             /\ Cardinality(incomplete'[s].have) \in 1..(incomplete'[s].need - 1)
  <2>1. s \in InFlight /\ s \in Nat /\ incomplete'[s] = incomplete[s]
    BY <1>3, <1>4
  <2>2. s \notin Evicted(f) /\ s # f.frame_seq /\ ~(s <= f.frame_seq)
    BY <1>3, <2>1 DEF Dead, Overtaken
  <2> QED
    BY <1>1, <1>2, <2>1, <2>2 DEF WInv, WindowInv
<1>9. WindowInv'
  BY <1>7, <1>8 DEF WindowInv, MaxIncomplete
<1>10. lost' \subseteq Seqs
  BY DeadType DEF Complete, WInv, TypeOK
<1> QED
  BY <1>2, <1>3, <1>4, <1>5, <1>6, <1>9, <1>10

\* The counters stay natural numbers.
LEMMA CountersType ==
  ASSUME WInv, NEW f \in Fragments, NEW t \in Times, push(t, f)
  PROVE  counters' \in [dropped_incomplete : Nat, discarded_gap : Nat, stale_fragments : Nat]
<1>1. counters \in [dropped_incomplete : Nat, discarded_gap : Nat, stale_fragments : Nat]
  BY DEF WInv, TypeOK
<1>2. Cardinality(Evicted(f)) \in Nat /\ Cardinality(Dead(f)) \in Nat
  BY DeadType
<1>3. CASE PushStale(t, f)
  BY <1>1, <1>3 DEF PushStale
<1>4. CASE PushPartial(t, f)
  BY <1>1, <1>2, <1>4 DEF PushPartial, Drop
<1>5. CASE PushDeliver(t, f)
  BY <1>1, <1>2, <1>5 DEF PushDeliver
<1>6. CASE PushDiscard(t, f)
  <2> DEFINE d == Cardinality(Dead(f))
  <2>1. counters' = [counters EXCEPT !.dropped_incomplete = @ + d, !.discarded_gap = @ + 1]
    BY <1>6 DEF PushDiscard
  <2> HIDE DEF d
  <2>2. counters' = [dropped_incomplete |-> counters.dropped_incomplete + d,
                     discarded_gap |-> counters.discarded_gap + 1,
                     stale_fragments |-> counters.stale_fragments]
    BY <1>1, <2>1
  <2> QED
    BY <1>1, <1>2, <2>2 DEF d
<1> QED
  BY <1>3, <1>4, <1>5, <1>6 DEF push

\* Every event is of type Event, so the log stays a sequence of events.
LEMMA EventsType ==
  ASSUME WInv, NEW f \in Fragments, NEW t \in Times, push(t, f)
  PROVE  /\ events' \in Seq(Event)
         /\ last_decoded' \in Seqs \cup {None}
         /\ idr_last_t' \in Times \cup {None}
<1>1. /\ events \in Seq(Event) /\ last_decoded \in Seqs \cup {None}
      /\ idr_last_t \in Times \cup {None}
  BY DEF WInv, TypeOK
<1>2. Seqs \subseteq Nat
  BY FragmentType DEF Seqs
<1>3. CASE PushStale(t, f)
  BY <1>1, <1>3 DEF PushStale
<1>4. CASE PushPartial(t, f)
  BY <1>1, <1>4 DEF PushPartial
<1>5. CASE PushDeliver(t, f)
  <2>1. [kind |-> "Deliver", t_ms |-> t, frame_seq |-> f.frame_seq,
         keyframe |-> Entry(f).keyframe, last_good |-> 0] \in Event
    BY EntryType, FragmentType DEF Event
  <2> QED
    BY <1>1, <1>5, <2>1, FragmentType DEF PushDeliver, deliver
<1>6. CASE PushDiscard(t, f)
  <2>1. CASE IdrSuppressed(t)
    BY <1>1, <1>6, <2>1 DEF PushDiscard, maybe_idr
  <2>2. CASE ~IdrSuppressed(t)
    <3> DEFINE g == IF last_decoded = None THEN 0 ELSE last_decoded
    <3>1. g \in Nat
      BY <1>1, <1>2
    <3>2. /\ events' = Append(events, [kind |-> "IdrRequest", t_ms |-> t, frame_seq |-> 0,
                                       keyframe |-> FALSE, last_good |-> g])
          /\ idr_last_t' = t /\ last_decoded' = last_decoded
      BY <1>6, <2>2 DEF PushDiscard, maybe_idr
    <3> HIDE DEF g
    <3>3. [kind |-> "IdrRequest", t_ms |-> t, frame_seq |-> 0,
           keyframe |-> FALSE, last_good |-> g] \in Event
      BY <3>1 DEF Event
    <3> QED
      BY <1>1, <3>2, <3>3
  <2> QED
    BY <2>1, <2>2
<1> QED
  BY <1>3, <1>4, <1>5, <1>6 DEF push

\* A fragment that completes nothing leaves a window of incomplete frames.
LEMMA PartialStep ==
  ASSUME WInv, NEW f \in Fragments, NEW t \in Times, PushPartial(t, f)
  PROVE  /\ InFlight' = (InFlight \ Evicted(f)) \cup {f.frame_seq}
         /\ incomplete' \in [InFlight' -> [need : Nat \ {0}, have : SUBSET Nat, keyframe : BOOLEAN]]
         /\ InFlight' \subseteq Seqs
         /\ Finiteness'
         /\ WindowInv'
<1> DEFINE W == (InFlight \ Evicted(f)) \cup {f.frame_seq}
           E == [need : Nat \ {0}, have : SUBSET Nat, keyframe : BOOLEAN]
<1>1. incomplete' = [s \in W |-> IF s = f.frame_seq THEN Entry(f) ELSE incomplete[s]]
  BY DEF PushPartial
<1>2. /\ InFlight' = W
      /\ \A s \in W : incomplete'[s] = IF s = f.frame_seq THEN Entry(f) ELSE incomplete[s]
  BY <1>1 DEF InFlight
<1>3. newest_complete' = newest_complete
  BY DEF PushPartial
<1>4. ASSUME NEW s \in W
      PROVE  /\ incomplete'[s] \in E
             /\ IsFiniteSet(incomplete'[s].have)
             /\ s > newest_complete'
             /\ Cardinality(incomplete'[s].have) \in 1..(incomplete'[s].need - 1)
  <2>1. CASE s = f.frame_seq
    <3>1. incomplete'[s] = Entry(f)
      BY <1>2, <2>1
    <3>2. Cardinality(Entry(f).have) # Entry(f).need /\ ~(f.frame_seq <= newest_complete)
      BY DEF PushPartial, Completes, IsStale
    <3>3. f.frame_seq > newest_complete
      BY <3>2, FragmentType DEF WInv, TypeOK, Seqs
    <3>4. Entry(f).need \in Nat
      BY EntryType
    <3> QED
      BY <1>3, <2>1, <3>1, <3>2, <3>3, <3>4, EntryType
  <2>2. CASE s # f.frame_seq
    <3>1. s \in InFlight /\ incomplete'[s] = incomplete[s]
      BY <1>2, <2>2
    <3> QED
      BY <1>3, <3>1 DEF WInv, TypeOK, Finiteness, WindowInv
  <2> QED
    BY <2>1, <2>2
<1>5. incomplete' \in [InFlight' -> E]
  BY <1>1, <1>2, <1>4
<1>6. InFlight' \subseteq Seqs
  BY <1>2, FragmentType DEF WInv, TypeOK
<1>7. Finiteness' /\ WindowInv'
  BY <1>2, <1>4, RoomAfterEviction DEF Finiteness, WindowInv, MaxIncomplete
<1> QED
  BY <1>2, <1>5, <1>6, <1>7

\* WInv is inductive.
LEMMA WInvStep == WInv /\ [Next]_rvars => WInv'
<1> SUFFICES ASSUME WInv, [Next]_rvars PROVE WInv'
  OBVIOUS
<1>1. CASE UNCHANGED rvars
  BY <1>1 DEF rvars, WInv, TypeOK, Finiteness, WindowInv, InFlight
<1>2. ASSUME NEW t \in Times, NEW f \in Fragments, push(t, f)
      PROVE  WInv'
  <2>1. now' \in Times \cup {0}
    BY <1>2 DEF push
  <2>2. CASE PushStale(t, f)
    <3>1. UNCHANGED <<newest_complete, incomplete, lost, gapped>>
      BY <2>2 DEF PushStale
    <3> QED
      BY <1>2, <2>1, <3>1, EventsType, CountersType
      DEF WInv, TypeOK, Finiteness, WindowInv, InFlight
  <2>3. CASE PushPartial(t, f)
    <3>1. /\ newest_complete' = newest_complete
          /\ lost' = lost \cup Evicted(f) /\ gapped' = gapped
      BY <2>3 DEF PushPartial, Drop
    <3>2. TypeOK'
      BY <1>2, <2>1, <2>3, <3>1, PartialStep, DeadType, EventsType, CountersType
      DEF WInv, TypeOK
    <3> QED
      BY <2>3, <3>2, PartialStep DEF WInv
  <2>4. CASE PushDeliver(t, f)
    <3>1. Complete(f) /\ gapped' = gapped
      BY <2>4 DEF PushDeliver
    <3>2. TypeOK'
      BY <1>2, <2>1, <3>1, CompleteStep, EventsType, CountersType, FragmentType
      DEF WInv, TypeOK
    <3> QED
      BY <3>1, <3>2, CompleteStep DEF WInv
  <2>5. CASE PushDiscard(t, f)
    <3>1. Complete(f) /\ gapped' = gapped \cup {f.frame_seq}
      BY <2>5 DEF PushDiscard
    <3>2. TypeOK'
      BY <1>2, <2>1, <3>1, CompleteStep, EventsType, CountersType, FragmentType
      DEF WInv, TypeOK
    <3> QED
      BY <3>1, <3>2, CompleteStep DEF WInv
  <2> QED
    BY <1>2, <2>2, <2>3, <2>4, <2>5 DEF push
<1> QED
  BY <1>1, <1>2 DEF Next

\* The members of the Reassembler keep their types.
THEOREM Typing == Spec => []TypeOK
<1>1. WInv => TypeOK
  BY DEF WInv
<1> QED
  BY <1>1, WInvInit, WInvStep, PTL DEF Spec

\* Rules 1 and 2 of the receive model hold whatever arrives: at most two frames in
\* flight, all newer than the newest completed one, each lacking a fragment.
THEOREM Window == Spec => []WindowInv
<1>1. WInv => WindowInv
  BY DEF WInv
<1> QED
  BY <1>1, WInvInit, WInvStep, PTL DEF Spec

-----------------------------------------------------------------------------
(***************************************************************************)
(* The event log.  LogInv ties the log to the three members that summarise *)
(* it: last_decoded is the frame of the newest delivery, never beyond      *)
(* newest_complete, and idr_last_t is the time of the latest IDR request.  *)
(***************************************************************************)
Deliveries == {i \in DOMAIN events : IsDeliver(i)}
Requests == {i \in DOMAIN events : IsIdr(i)}

LogInv ==
  /\ last_decoded = None => Deliveries = {}
  /\ last_decoded # None =>
       /\ last_decoded <= newest_complete
       /\ \E i \in Deliveries : events[i].frame_seq = last_decoded
       /\ \A i \in Deliveries : events[i].frame_seq <= last_decoded
  /\ idr_last_t = None => Requests = {}
  /\ idr_last_t # None =>
       /\ \E i \in Requests : events[i].t_ms = idr_last_t
       /\ \A i \in Requests : events[i].t_ms <= idr_last_t

EInv == WInv /\ LogInv /\ DeliveredChain /\ IdrSpacing /\ IdrNamesNewest

\* The three things a push can do to the log.
LogQuiet ==
  /\ UNCHANGED <<events, last_decoded, idr_last_t>>
  /\ newest_complete' >= newest_complete

LogDeliver(e) ==
  /\ events' = Append(events, e)
  /\ e \in Event /\ e.kind = "Deliver"
  /\ e.frame_seq > newest_complete
  /\ e.keyframe \/ (last_decoded # None /\ last_decoded = e.frame_seq - 1)
  /\ last_decoded' = e.frame_seq /\ newest_complete' = e.frame_seq
  /\ idr_last_t' = idr_last_t

LogIdr(e) ==
  /\ events' = Append(events, e)
  /\ e \in Event /\ e.kind = "IdrRequest"
  /\ e.last_good = IF last_decoded = None THEN 0 ELSE last_decoded
  /\ idr_last_t = None \/ e.t_ms - idr_last_t >= IdrMinInterval
  /\ idr_last_t' = e.t_ms
  /\ last_decoded' = last_decoded
  /\ newest_complete' >= newest_complete

\* Every push does one of them.
LEMMA LogStep ==
  ASSUME WInv, NEW t \in Times, NEW f \in Fragments, push(t, f)
  PROVE  LogQuiet \/ (\E e : LogDeliver(e)) \/ (\E e : LogIdr(e))
<1>0. newest_complete \in Int
  BY FragmentType DEF WInv, TypeOK, Seqs
<1>1. CASE PushStale(t, f)
  BY <1>0, <1>1 DEF PushStale, LogQuiet
<1>2. CASE PushPartial(t, f)
  BY <1>0, <1>2 DEF PushPartial, LogQuiet
<1>3. CASE PushDeliver(t, f)
  <2> DEFINE e == [kind |-> "Deliver", t_ms |-> t, frame_seq |-> f.frame_seq,
                   keyframe |-> Entry(f).keyframe, last_good |-> 0]
  <2>1. Complete(f) /\ Decodable(f) /\ deliver(t, f) /\ idr_last_t' = idr_last_t
    BY <1>3 DEF PushDeliver
  <2>2. e \in Event
    BY EntryType, FragmentType DEF Event
  <2>3. f.frame_seq > newest_complete
    BY <1>0, <2>1, FragmentType DEF Complete, IsStale
  <2>4. newest_complete' = f.frame_seq
    BY <2>1, CompleteStep
  <2>5. LogDeliver(e)
    BY <2>1, <2>2, <2>3, <2>4 DEF LogDeliver, deliver, Decodable
  <2> QED
    BY <2>5
<1>4. CASE PushDiscard(t, f)
  <2>1. Complete(f) /\ maybe_idr(t) /\ last_decoded' = last_decoded
    BY <1>4 DEF PushDiscard
  <2>2. newest_complete' >= newest_complete
    BY <1>0, <2>1, CompleteStep, FragmentType DEF Complete, IsStale
  <2>3. CASE IdrSuppressed(t)
    BY <2>1, <2>2, <2>3 DEF maybe_idr, LogQuiet
  <2>4. CASE ~IdrSuppressed(t)
    <3> DEFINE g == IF last_decoded = None THEN 0 ELSE last_decoded
               e == [kind |-> "IdrRequest", t_ms |-> t, frame_seq |-> 0,
                     keyframe |-> FALSE, last_good |-> g]
    <3>1. g \in Nat
      BY FragmentType DEF WInv, TypeOK, Seqs
    <3>2. e \in Event
      BY <3>1 DEF Event
    <3>3. events' = Append(events, e) /\ idr_last_t' = t
      BY <2>1, <2>4 DEF maybe_idr
    <3>4. idr_last_t = None \/ t - idr_last_t >= IdrMinInterval
      BY <2>4, TimesAssumption, IntervalAssumption DEF IdrSuppressed, WInv, TypeOK
    <3>5. LogIdr(e)
      BY <2>1, <2>2, <3>2, <3>3, <3>4 DEF LogIdr
    <3> QED
      BY <3>5
  <2> QED
    BY <2>3, <2>4
<1> QED
  BY <1>1, <1>2, <1>3, <1>4 DEF push

\* The log one event longer: the old events keep their places.
LEMMA Appended ==
  ASSUME WInv, NEW e \in Event, events' = Append(events, e)
  PROVE  /\ Len(events) \in Nat /\ DOMAIN events = 1..Len(events)
         /\ DOMAIN events' = 1..(Len(events) + 1)
         /\ \A i \in DOMAIN events : events'[i] = events[i] /\ events[i] \in Event
         /\ events'[Len(events) + 1] = e
<1>1. events \in Seq(Event)
  BY DEF WInv, TypeOK
<1> QED
  BY <1>1

\* A delivery preserves the log's invariants: its frame is newer than every frame
\* delivered before, and a frame that is no keyframe follows the newest of them.
LEMMA DeliverKeepsLog ==
  ASSUME EInv, NEW e, LogDeliver(e)
  PROVE  LogInv' /\ DeliveredChain' /\ IdrSpacing' /\ IdrNamesNewest'
<1> DEFINE n == Len(events)
<1>0. /\ n \in Nat /\ DOMAIN events = 1..n /\ DOMAIN events' = 1..(n + 1)
      /\ \A i \in 1..n : events'[i] = events[i] /\ events[i] \in Event
      /\ events'[n + 1] = e
  BY Appended DEF EInv, LogDeliver
<1>1. e \in Event /\ e.kind = "Deliver" /\ e.frame_seq \in Nat /\ e.frame_seq > newest_complete
  BY DEF LogDeliver, Event
<1>2. newest_complete \in Int /\ (last_decoded = None \/ last_decoded \in Nat)
  BY FragmentType DEF EInv, WInv, TypeOK, Seqs
<1> HIDE DEF n
<1>3. Deliveries' = Deliveries \cup {n + 1} /\ Requests' = Requests
  BY <1>0, <1>1 DEF Deliveries, Requests, IsDeliver, IsIdr
<1>4. \A i \in Deliveries : events[i].frame_seq < e.frame_seq
  <2>1. ASSUME NEW i \in Deliveries PROVE events[i].frame_seq < e.frame_seq
    <3>1. last_decoded # None /\ last_decoded <= newest_complete
          /\ events[i].frame_seq <= last_decoded
      BY <2>1 DEF EInv, LogInv
    <3>2. events[i].frame_seq \in Nat
      BY <1>0 DEF Deliveries, Event
    <3> QED
      BY <1>1, <1>2, <3>1, <3>2
  <2> QED
    BY <2>1
<1>5. ~e.keyframe => \E i \in Deliveries : events[i].frame_seq = e.frame_seq - 1
  BY DEF EInv, LogInv, LogDeliver
<1>6. LogInv'
  <2>1. last_decoded' = e.frame_seq /\ last_decoded' # None /\ newest_complete' = e.frame_seq
    BY <1>1, NoneAssumption DEF LogDeliver
  <2>2. \A i \in Deliveries' : events'[i].frame_seq <= e.frame_seq
    <3>1. ASSUME NEW i \in Deliveries PROVE events'[i].frame_seq <= e.frame_seq
      BY <1>0, <1>1, <1>4, <3>1 DEF Deliveries, Event
    <3> QED
      BY <1>0, <1>1, <1>3, <3>1
  <2>3. \E i \in Deliveries' : events'[i].frame_seq = e.frame_seq
    BY <1>0, <1>3
  <2>4. idr_last_t' = idr_last_t /\ \A i \in Requests : events'[i] = events[i]
    BY <1>0 DEF LogDeliver, Requests
  <2> QED
    BY <1>1, <1>3, <2>1, <2>2, <2>3, <2>4 DEF EInv, LogInv
<1>7. DeliveredChain'
  <2> SUFFICES ASSUME NEW j \in Deliveries'
               PROVE  /\ \A i \in 1..(j - 1) : i \in Deliveries' =>
                             events'[i].frame_seq < events'[j].frame_seq
                      /\ ~events'[j].keyframe =>
                           \E i \in 1..(j - 1) : /\ i \in Deliveries'
                                                 /\ events'[i].frame_seq = events'[j].frame_seq - 1
    BY <1>0 DEF DeliveredChain, Deliveries, IsDeliver
  <2>1. CASE j = n + 1
    BY <1>0, <1>1, <1>3, <1>4, <1>5, <2>1 DEF Deliveries
  <2>2. CASE j # n + 1
    <3>1. j \in Deliveries /\ j \in 1..n
      BY <1>0, <1>3, <2>2 DEF Deliveries
    <3>2. /\ \A i \in 1..(j - 1) : i \in Deliveries =>
                  events[i].frame_seq < events[j].frame_seq
          /\ ~events[j].keyframe =>
                \E i \in 1..(j - 1) : /\ i \in Deliveries
                                      /\ events[i].frame_seq = events[j].frame_seq - 1
      BY <1>0, <3>1 DEF EInv, DeliveredChain, Deliveries, IsDeliver
    <3>3. \A i \in 1..j : events'[i] = events[i] /\ (i \in Deliveries' <=> i \in Deliveries)
      BY <1>0, <1>3, <3>1
    <3> QED
      BY <1>0, <3>1, <3>2, <3>3
  <2> QED
    BY <2>1, <2>2
<1>8. IdrSpacing'
  <2>1. \A i \in Requests : events'[i] = events[i]
    BY <1>0 DEF Requests
  <2>2. \A i, j \in Requests : i < j => events[j].t_ms - events[i].t_ms >= IdrMinInterval
    BY DEF EInv, IdrSpacing, Requests, IsIdr
  <2>3. \A i, j \in Requests' : i < j => events'[j].t_ms - events'[i].t_ms >= IdrMinInterval
    BY <1>3, <2>1, <2>2
  <2> QED
    BY <2>3 DEF IdrSpacing, Requests, IsIdr
<1>9. IdrNamesNewest'
  <2> SUFFICES ASSUME NEW j \in Requests'
               PROVE  LET before == {i \in 1..(j - 1) : IsDeliver(i)'} IN
                        /\ before = {} => events'[j].last_good = 0
                        /\ before # {} => \E i \in before : events'[i].frame_seq = events'[j].last_good
                        /\ \A i \in before : events'[i].frame_seq <= events'[j].last_good
    BY DEF IdrNamesNewest, Requests, IsIdr
  <2>1. j \in Requests /\ j \in 1..n /\ events'[j] = events[j]
    BY <1>0, <1>3 DEF Requests
  <2>2. \A i \in 1..(j - 1) : events'[i] = events[i] /\ (IsDeliver(i)' <=> IsDeliver(i))
    BY <1>0, <2>1 DEF IsDeliver
  <2>3. LET before == {i \in 1..(j - 1) : IsDeliver(i)} IN
          /\ before = {} => events[j].last_good = 0
          /\ before # {} => \E i \in before : events[i].frame_seq = events[j].last_good
          /\ \A i \in before : events[i].frame_seq <= events[j].last_good
    BY <1>0, <2>1 DEF EInv, IdrNamesNewest, Requests, IsIdr
  <2>4. {i \in 1..(j - 1) : IsDeliver(i)'} = {i \in 1..(j - 1) : IsDeliver(i)}
    BY <2>2
  <2> QED
    BY <2>1, <2>2, <2>3, <2>4
<1> QED
  BY <1>6, <1>7, <1>8, <1>9

\* An IDR request preserves the log's invariants: it is issued no earlier than
\* IdrMinInterval after the latest one, which is the latest of all before it.
LEMMA IdrKeepsLog ==
  ASSUME EInv, newest_complete' \in Int, NEW e, LogIdr(e)
  PROVE  LogInv' /\ DeliveredChain' /\ IdrSpacing' /\ IdrNamesNewest'
<1> DEFINE n == Len(events)
<1>0. /\ n \in Nat /\ DOMAIN events = 1..n /\ DOMAIN events' = 1..(n + 1)
      /\ \A i \in 1..n : events'[i] = events[i] /\ events[i] \in Event
      /\ events'[n + 1] = e
  BY Appended DEF EInv, LogIdr
<1>1. e \in Event /\ e.kind = "IdrRequest" /\ e.t_ms \in Nat
  BY TimesAssumption DEF LogIdr, Event
<1>2. /\ newest_complete \in Int /\ (last_decoded = None \/ last_decoded \in Nat)
      /\ newest_complete' \in Int /\ (idr_last_t = None \/ idr_last_t \in Nat)
      /\ newest_complete' >= newest_complete
  <2>1. newest_complete \in Int /\ (last_decoded = None \/ last_decoded \in Nat)
        /\ (idr_last_t = None \/ idr_last_t \in Nat)
    BY FragmentType, TimesAssumption DEF EInv, WInv, TypeOK, Seqs
  <2> QED
    BY <2>1 DEF LogIdr
<1> HIDE DEF n
<1>3. Deliveries' = Deliveries /\ Requests' = Requests \cup {n + 1}
  BY <1>0, <1>1 DEF Deliveries, Requests, IsDeliver, IsIdr
<1>4. \A i \in Requests : e.t_ms - events[i].t_ms >= IdrMinInterval
  <2>1. ASSUME NEW i \in Requests PROVE e.t_ms - events[i].t_ms >= IdrMinInterval
    <3>1. idr_last_t # None /\ events[i].t_ms <= idr_last_t
      BY <2>1 DEF EInv, LogInv
    <3>2. events[i].t_ms \in Nat
      BY <1>0, TimesAssumption DEF Requests, Event
    <3>3. e.t_ms - idr_last_t >= IdrMinInterval
      BY <3>1 DEF LogIdr
    <3> QED
      BY <1>1, <1>2, <3>1, <3>2, <3>3, IntervalAssumption
  <2> QED
    BY <2>1
<1>5. LogInv'
  <2>1. idr_last_t' = e.t_ms /\ idr_last_t' # None /\ last_decoded' = last_decoded
    BY <1>1, NoneAssumption DEF LogIdr
  <2>2. \A i \in Deliveries : events'[i] = events[i]
    BY <1>0 DEF Deliveries
  <2>3. last_decoded # None => last_decoded <= newest_complete'
    BY <1>2 DEF EInv, LogInv
  <2>4. \A i \in Requests' : events'[i].t_ms <= e.t_ms
    <3>1. ASSUME NEW i \in Requests PROVE events'[i].t_ms <= e.t_ms
      <4>1. events'[i] = events[i] /\ events[i].t_ms \in Nat
        BY <1>0, TimesAssumption DEF Requests, Event
      <4> QED
        BY <1>1, <1>4, <4>1, IntervalAssumption
    <3> QED
      BY <1>0, <1>1, <1>3, <3>1
  <2>5. \E i \in Requests' : events'[i].t_ms = e.t_ms
    BY <1>0, <1>3
  <2> QED
    BY <1>3, <2>1, <2>2, <2>3, <2>4, <2>5 DEF EInv, LogInv
<1>6. DeliveredChain'
  <2> SUFFICES ASSUME NEW j \in Deliveries'
               PROVE  /\ \A i \in 1..(j - 1) : i \in Deliveries' =>
                             events'[i].frame_seq < events'[j].frame_seq
                      /\ ~events'[j].keyframe =>
                           \E i \in 1..(j - 1) : /\ i \in Deliveries'
                                                 /\ events'[i].frame_seq = events'[j].frame_seq - 1
    BY <1>0 DEF DeliveredChain, Deliveries, IsDeliver
  <2>1. j \in Deliveries /\ j \in 1..n
    BY <1>0, <1>3 DEF Deliveries
  <2>2. /\ \A i \in 1..(j - 1) : i \in Deliveries =>
                events[i].frame_seq < events[j].frame_seq
        /\ ~events[j].keyframe =>
              \E i \in 1..(j - 1) : /\ i \in Deliveries
                                    /\ events[i].frame_seq = events[j].frame_seq - 1
    BY <1>0, <2>1 DEF EInv, DeliveredChain, Deliveries, IsDeliver
  <2>3. \A i \in 1..j : events'[i] = events[i]
    BY <1>0, <2>1
  <2> QED
    BY <1>0, <1>3, <2>1, <2>2, <2>3
<1>7. IdrSpacing'
  <2>1. \A i \in Requests : events'[i] = events[i] /\ i < n + 1
    BY <1>0 DEF Requests
  <2>2. \A i, j \in Requests : i < j => events[j].t_ms - events[i].t_ms >= IdrMinInterval
    BY DEF EInv, IdrSpacing, Requests, IsIdr
  <2>3. ASSUME NEW i \in Requests', NEW j \in Requests', i < j
        PROVE  events'[j].t_ms - events'[i].t_ms >= IdrMinInterval
    <3>1. i \in Requests
      BY <1>0, <1>3, <2>3 DEF Requests
    <3>2. CASE j = n + 1
      BY <1>0, <1>4, <2>1, <3>1, <3>2
    <3>3. CASE j \in Requests
      BY <2>1, <2>2, <2>3, <3>1, <3>3
    <3> QED
      BY <1>3, <3>2, <3>3
  <2> QED
    BY <2>3 DEF IdrSpacing, Requests, IsIdr
<1>8. IdrNamesNewest'
  <2> SUFFICES ASSUME NEW j \in Requests'
               PROVE  LET before == {i \in 1..(j - 1) : IsDeliver(i)'} IN
                        /\ before = {} => events'[j].last_good = 0
                        /\ before # {} => \E i \in before : events'[i].frame_seq = events'[j].last_good
                        /\ \A i \in before : events'[i].frame_seq <= events'[j].last_good
    BY DEF IdrNamesNewest, Requests, IsIdr
  <2>1. CASE j = n + 1
    <3>1. {i \in 1..(j - 1) : IsDeliver(i)'} = Deliveries
      BY <1>0, <2>1 DEF Deliveries, IsDeliver
    <3>2. \A i \in Deliveries : events'[i] = events[i]
      BY <1>0 DEF Deliveries
    <3>3. events'[j].last_good = IF last_decoded = None THEN 0 ELSE last_decoded
      BY <1>0, <2>1 DEF LogIdr
    <3> QED
      BY <3>1, <3>2, <3>3 DEF EInv, LogInv
  <2>2. CASE j # n + 1
    <3>1. j \in Requests /\ j \in 1..n /\ events'[j] = events[j]
      BY <1>0, <1>3, <2>2 DEF Requests
    <3>2. \A i \in 1..(j - 1) : events'[i] = events[i] /\ (IsDeliver(i)' <=> IsDeliver(i))
      BY <1>0, <3>1 DEF IsDeliver
    <3>3. LET before == {i \in 1..(j - 1) : IsDeliver(i)} IN
            /\ before = {} => events[j].last_good = 0
            /\ before # {} => \E i \in before : events[i].frame_seq = events[j].last_good
            /\ \A i \in before : events[i].frame_seq <= events[j].last_good
      BY <1>0, <3>1 DEF EInv, IdrNamesNewest, Requests, IsIdr
    <3>4. {i \in 1..(j - 1) : IsDeliver(i)'} = {i \in 1..(j - 1) : IsDeliver(i)}
      BY <3>2
    <3> QED
      BY <3>1, <3>2, <3>3, <3>4
  <2> QED
    BY <2>1, <2>2
<1> QED
  BY <1>5, <1>6, <1>7, <1>8

\* A push that adds nothing to the log preserves its invariants.
LEMMA QuietKeepsLog ==
  ASSUME EInv, newest_complete' \in Int, LogQuiet
  PROVE  LogInv' /\ DeliveredChain' /\ IdrSpacing' /\ IdrNamesNewest'
<1>1. events' = events /\ last_decoded' = last_decoded /\ idr_last_t' = idr_last_t
  BY DEF LogQuiet
<1>2. last_decoded # None => last_decoded <= newest_complete'
  <2>1. newest_complete \in Int /\ (last_decoded = None \/ last_decoded \in Nat)
    BY FragmentType DEF EInv, WInv, TypeOK, Seqs
  <2> QED
    BY <2>1 DEF EInv, LogInv, LogQuiet
<1>3. Deliveries' = Deliveries /\ Requests' = Requests
  BY <1>1 DEF Deliveries, Requests, IsDeliver, IsIdr
<1>4. LogInv'
  BY <1>1, <1>2, <1>3 DEF EInv, LogInv
<1>5. DeliveredChain' /\ IdrSpacing' /\ IdrNamesNewest'
  BY <1>1 DEF EInv, DeliveredChain, IdrSpacing, IdrNamesNewest, IsDeliver, IsIdr
<1> QED
  BY <1>4, <1>5

\* EInv is inductive.
LEMMA EInvInit == Init => EInv
<1> SUFFICES ASSUME Init PROVE EInv
  OBVIOUS
<1>1. events = << >> /\ DOMAIN events = {}
  BY DEF Init
<1>2. LogInv
  BY <1>1 DEF Init, LogInv, Deliveries, Requests
<1>3. DeliveredChain /\ IdrSpacing /\ IdrNamesNewest
  BY <1>1 DEF DeliveredChain, IdrSpacing, IdrNamesNewest
<1> QED
  BY <1>2, <1>3, WInvInit DEF EInv

LEMMA EInvStep == EInv /\ [Next]_rvars => EInv'
<1> SUFFICES ASSUME EInv, [Next]_rvars PROVE EInv'
  OBVIOUS
<1>1. WInv'
  BY WInvStep DEF EInv
<1>2. newest_complete \in Int /\ newest_complete' \in Int
  BY <1>1, FragmentType DEF EInv, WInv, TypeOK, Seqs
<1>3. CASE UNCHANGED rvars
  <2>1. LogQuiet
    BY <1>2, <1>3 DEF rvars, LogQuiet
  <2> QED
    BY <1>1, <1>2, <2>1, QuietKeepsLog DEF EInv
<1>4. ASSUME NEW t \in Times, NEW f \in Fragments, push(t, f)
      PROVE  EInv'
  <2>1. LogQuiet \/ (\E e : LogDeliver(e)) \/ (\E e : LogIdr(e))
    BY <1>4, LogStep DEF EInv
  <2> QED
    BY <1>1, <1>2, <2>1, QuietKeepsLog, DeliverKeepsLog, IdrKeepsLog DEF EInv
<1> QED
  BY <1>3, <1>4 DEF Next

LEMMA EInvAlways == Spec => []EInv
BY EInvInit, EInvStep, PTL DEF Spec

\* What push delivers is decodable: in order, once, and never without a reference.
THEOREM Chain == Spec => []DeliveredChain
<1>1. EInv => DeliveredChain
  BY DEF EInv
<1> QED
  BY <1>1, EInvAlways, PTL

\* IDR requests of the reassembler are never closer than IdrMinInterval, and each
\* names the newest frame delivered before it.
THEOREM Discipline == Spec => []IdrDiscipline
<1>1. EInv => IdrDiscipline
  BY DEF EInv, IdrDiscipline
<1> QED
  BY <1>1, EInvAlways, PTL

-----------------------------------------------------------------------------
\* While the client cannot decode, every discard finds a request less than
\* IdrMinInterval old in the log, its own included.
THEOREM DiscardsAsked == Spec => DiscardIsAsked
<1> DEFINE Asked ==
      gapped' # gapped =>
        /\ idr_last_t' # None
        /\ now' - idr_last_t' < IdrMinInterval
        /\ \E i \in DOMAIN events' : /\ events'[i].kind = "IdrRequest"
                                     /\ events'[i].t_ms = idr_last_t'
<1>1. EInv /\ EInv' /\ [Next]_rvars => [Asked]_rvars
  <2> SUFFICES ASSUME EInv, EInv', NEW t \in Times, NEW f \in Fragments,
                      push(t, f), gapped' # gapped
               PROVE  Asked
    BY DEF Next
  <2>1. PushDiscard(t, f) /\ now' = t
    BY DEF push, PushStale, PushPartial, PushDeliver
  <2>2. idr_last_t' # None /\ t - idr_last_t' < IdrMinInterval
    <3>1. t \in Nat /\ (idr_last_t = None \/ idr_last_t \in Nat)
      BY TimesAssumption DEF EInv, WInv, TypeOK
    <3>2. CASE IdrSuppressed(t)
      BY <2>1, <3>2 DEF PushDiscard, maybe_idr, IdrSuppressed
    <3>3. CASE ~IdrSuppressed(t)
      BY <2>1, <3>1, <3>3, IntervalAssumption, NoneAssumption DEF PushDiscard, maybe_idr
    <3> QED
      BY <3>2, <3>3
  <2>3. \E i \in Requests' : events'[i].t_ms = idr_last_t'
    BY <2>2 DEF EInv, LogInv
  <2> QED
    BY <2>1, <2>2, <2>3 DEF Requests, IsIdr
<1> QED
  BY <1>1, EInvAlways, PTL DEF Spec, DiscardIsAsked

\* The frames in the log as the abstract stream sees them.
LEMMA HandedStep ==
  ASSUME EInv, NEW e, LogDeliver(e), e.frame_seq \in Seqs
  PROVE  Stream!Next
<1> DEFINE n == Len(events)
           Out(i) == [frame_seq |-> events[i].frame_seq, keyframe |-> events[i].keyframe]
           x == [frame_seq |-> e.frame_seq, keyframe |-> e.keyframe]
<1>0. /\ n \in Nat /\ DOMAIN events = 1..n /\ DOMAIN events' = 1..(n + 1)
      /\ \A i \in 1..n : events'[i] = events[i] /\ events[i] \in Event
      /\ events'[n + 1] = e
  BY Appended DEF EInv, LogDeliver
<1>1. e \in Event /\ e.kind = "Deliver" /\ e.frame_seq \in Nat /\ e.keyframe \in BOOLEAN
  BY DEF LogDeliver, Event
<1> HIDE DEF n
<1>2. Deliveries' = Deliveries \cup {n + 1}
  BY <1>0, <1>1 DEF Deliveries, IsDeliver
<1>3. /\ Handed = {Out(i) : i \in Deliveries}
      /\ Handed' = {[frame_seq |-> events'[i].frame_seq, keyframe |-> events'[i].keyframe] :
                       i \in Deliveries'}
  BY DEF Handed, Deliveries
<1>4. Handed' = Handed \cup {x}
  <2>1. \A i \in Deliveries : events'[i] = events[i]
    BY <1>0 DEF Deliveries
  <2> QED
    BY <1>0, <1>2, <1>3, <2>1
<1>5. \A h \in Handed : h.frame_seq < e.frame_seq
  <2>1. ASSUME NEW i \in Deliveries PROVE events[i].frame_seq < e.frame_seq
    <3>1. last_decoded # None /\ last_decoded <= newest_complete
          /\ events[i].frame_seq <= last_decoded
      BY <2>1 DEF EInv, LogInv
    <3>2. /\ events[i].frame_seq \in Nat /\ newest_complete \in Int
          /\ last_decoded = None \/ last_decoded \in Nat
      BY <1>0, FragmentType DEF Deliveries, Event, EInv, WInv, TypeOK, Seqs
    <3> QED
      BY <1>1, <3>1, <3>2 DEF LogDeliver
  <2> QED
    BY <1>3, <2>1
<1>6. ~e.keyframe => \E h \in Handed : h.frame_seq = e.frame_seq - 1
  <2>1. SUFFICES ASSUME ~e.keyframe
                 PROVE  \E h \in Handed : h.frame_seq = e.frame_seq - 1
    OBVIOUS
  <2>2. PICK i \in Deliveries : events[i].frame_seq = e.frame_seq - 1
    BY <2>1 DEF EInv, LogInv, LogDeliver
  <2>3. Out(i) \in Handed /\ Out(i).frame_seq = e.frame_seq - 1
    BY <1>3, <2>2
  <2> QED
    BY <2>3, Zenon
<1>7. CASE e.keyframe
  BY <1>1, <1>4, <1>5, <1>7 DEF Stream!Next, Stream!HandKeyframe, Stream!Newer
<1>8. CASE ~e.keyframe
  BY <1>1, <1>4, <1>5, <1>6, <1>8 DEF Stream!Next, Stream!HandSuccessor, Stream!Newer
<1> QED
  BY <1>7, <1>8

\* The reassembler implements the abstract decodable stream.
THEOREM ImplementsStream == Spec => RefinesStream
<1>1. Init => Stream!Init
  BY DEF Init, Stream!Init, Handed
<1>2. EInv /\ [Next]_rvars => [Stream!Next]_Handed
  <2> SUFFICES ASSUME EInv, [Next]_rvars PROVE [Stream!Next]_Handed
    OBVIOUS
  <2>1. CASE UNCHANGED events
    BY <2>1 DEF Handed, IsDeliver
  <2>2. ASSUME NEW t \in Times, NEW f \in Fragments, push(t, f)
        PROVE  [Stream!Next]_Handed
    <3>1. CASE LogQuiet
      BY <2>1, <3>1 DEF LogQuiet
    <3>2. ASSUME NEW e, LogDeliver(e) PROVE Stream!Next
      <4>1. e.frame_seq \in Seqs
        <5>1. WInv' /\ last_decoded' = e.frame_seq /\ e.frame_seq \in Nat
          BY <3>2, WInvStep DEF EInv, LogDeliver, Event
        <5> QED
          BY <5>1, NoneAssumption DEF WInv, TypeOK
      <4> QED
        BY <3>2, <4>1, HandedStep
    <3>3. ASSUME NEW e, LogIdr(e) PROVE Handed' = Handed
      <4>1. /\ Len(events) \in Nat /\ DOMAIN events = 1..Len(events)
            /\ DOMAIN events' = 1..(Len(events) + 1)
            /\ \A i \in DOMAIN events : events'[i] = events[i]
            /\ events'[Len(events) + 1].kind = "IdrRequest"
        BY <3>3, Appended DEF EInv, LogIdr
      <4>2. Deliveries' = Deliveries /\ \A i \in Deliveries : events'[i] = events[i]
        BY <4>1 DEF Deliveries, IsDeliver
      <4> QED
        BY <4>2 DEF Handed, Deliveries
    <3> QED
      BY <2>2, <3>1, <3>2, <3>3, LogStep DEF EInv
  <2> QED
    BY <2>1, <2>2 DEF Next, rvars
<1> QED
  BY <1>1, <1>2, EInvAlways, PTL DEF Spec, RefinesStream, Stream!Spec

-----------------------------------------------------------------------------
(***************************************************************************)
(* The fate of a frame.  A frame that is lost stays lost because a late    *)
(* fragment of it is stale: a frame at least as new has completed, or the  *)
(* window is full of newer frames, and either stays so.                    *)
(***************************************************************************)
Settled ==
  /\ \A s \in lost : s <= newest_complete \/ (WindowFull /\ \A r \in InFlight : s < r)
  /\ \A s \in gapped : s <= newest_complete

FInv == EInv /\ OneFate /\ Settled /\ IsFiniteSet(lost) /\ IsFiniteSet(gapped)

\* The delivered frames, one event later.
LEMMA DeliveredGrows ==
  ASSUME WInv, NEW e \in Event, events' = Append(events, e)
  PROVE  /\ e.kind = "Deliver" => Delivered' = Delivered \cup {e.frame_seq}
         /\ e.kind # "Deliver" => Delivered' = Delivered
<1> DEFINE n == Len(events)
<1>0. /\ n \in Nat /\ DOMAIN events = 1..n /\ DOMAIN events' = 1..(n + 1)
      /\ \A i \in 1..n : events'[i] = events[i]
      /\ events'[n + 1] = e
  BY Appended
<1> HIDE DEF n
<1>1. /\ Delivered = {events[i].frame_seq : i \in Deliveries}
      /\ Delivered' = {events'[i].frame_seq : i \in Deliveries'}
  BY DEF Delivered, Deliveries
<1>2. \A i \in Deliveries : events'[i] = events[i]
  BY <1>0 DEF Deliveries
<1>3. CASE e.kind = "Deliver"
  <2>1. Deliveries' = Deliveries \cup {n + 1}
    BY <1>0, <1>3 DEF Deliveries, IsDeliver
  <2> QED
    BY <1>0, <1>1, <1>2, <1>3, <2>1
<1>4. CASE e.kind # "Deliver"
  <2>1. Deliveries' = Deliveries
    BY <1>0, <1>4 DEF Deliveries, IsDeliver
  <2> QED
    BY <1>1, <1>2, <1>4, <2>1
<1> QED
  BY <1>3, <1>4

LEMMA PushDelivered ==
  ASSUME WInv, NEW t \in Times, NEW f \in Fragments
  PROVE  /\ PushDeliver(t, f) => Delivered' = Delivered \cup {f.frame_seq}
         /\ PushStale(t, f) \/ PushPartial(t, f) \/ PushDiscard(t, f) => Delivered' = Delivered
<1>1. ASSUME PushDeliver(t, f) PROVE Delivered' = Delivered \cup {f.frame_seq}
  <2> DEFINE e == [kind |-> "Deliver", t_ms |-> t, frame_seq |-> f.frame_seq,
                   keyframe |-> Entry(f).keyframe, last_good |-> 0]
  <2>1. e \in Event /\ e.kind = "Deliver" /\ e.frame_seq = f.frame_seq
    BY EntryType, FragmentType DEF Event
  <2>2. events' = Append(events, e)
    BY <1>1 DEF PushDeliver, deliver
  <2> HIDE DEF e
  <2> QED
    BY <2>1, <2>2, DeliveredGrows
<1>2. ASSUME UNCHANGED events PROVE Delivered' = Delivered
  BY <1>2 DEF Delivered, IsDeliver
<1>3. ASSUME PushDiscard(t, f), ~IdrSuppressed(t) PROVE Delivered' = Delivered
  <2> DEFINE g == IF last_decoded = None THEN 0 ELSE last_decoded
             e == [kind |-> "IdrRequest", t_ms |-> t, frame_seq |-> 0, keyframe |-> FALSE, last_good |-> g]
  <2>1. g \in Nat
    BY FragmentType DEF WInv, TypeOK, Seqs
  <2>2. e \in Event /\ e.kind # "Deliver"
    BY <2>1 DEF Event
  <2>3. events' = Append(events, e)
    BY <1>3 DEF PushDiscard, maybe_idr
  <2> HIDE DEF e
  <2> QED
    BY <2>2, <2>3, DeliveredGrows
<1>4. ASSUME PushStale(t, f) \/ PushPartial(t, f) PROVE Delivered' = Delivered
  BY <1>2, <1>4 DEF PushStale, PushPartial
<1>5. ASSUME PushDiscard(t, f), IdrSuppressed(t) PROVE Delivered' = Delivered
  BY <1>2, <1>5 DEF PushDiscard, maybe_idr
<1> QED
  BY <1>1, <1>3, <1>4, <1>5

LEMMA DeliveredIsOld ==
  ASSUME EInv
  PROVE  \A s \in Delivered : s <= newest_complete /\ s \in Nat
<1>1. ASSUME NEW i \in Deliveries PROVE events[i].frame_seq <= newest_complete /\ events[i].frame_seq \in Nat
  <2>1. last_decoded # None /\ last_decoded <= newest_complete /\ events[i].frame_seq <= last_decoded
    BY <1>1 DEF EInv, LogInv
  <2>2. events \in Seq(Event) /\ i \in DOMAIN events
    BY <1>1 DEF EInv, WInv, TypeOK, Deliveries
  <2>3. events[i] \in Event
    BY <2>2
  <2>4. /\ events[i].frame_seq \in Nat /\ newest_complete \in Int
        /\ last_decoded = None \/ last_decoded \in Nat
    BY <2>3, FragmentType DEF Event, EInv, WInv, TypeOK, Seqs
  <2> QED
    BY <2>1, <2>4
<1> QED
  BY <1>1 DEF Delivered, Deliveries

\* A fragment that is not stale belongs to a frame that has no fate yet; what it evicts is
\* older than it and than the rest of the window, and so is what was lost to the window.
LEMMA Fresh ==
  ASSUME FInv, NEW f \in Fragments, ~IsStale(f)
  PROVE  /\ f.frame_seq > newest_complete
         /\ f.frame_seq \notin lost /\ f.frame_seq \notin gapped /\ f.frame_seq \notin Delivered
         /\ \A s \in lost : s > newest_complete => /\ s < f.frame_seq /\ WindowFull
                                                    /\ \A r \in InFlight : s < r
         /\ \A s \in Evicted(f) : s < f.frame_seq /\ \A r \in InFlight \ Evicted(f) : s < r
<1>1. /\ newest_complete \in Int /\ f.frame_seq \in Nat /\ lost \subseteq Nat /\ gapped \subseteq Nat
      /\ InFlight \subseteq Nat
  <2>1. Seqs \subseteq Nat /\ f.frame_seq \in Nat
    BY FragmentType DEF Seqs
  <2> QED
    BY <2>1 DEF FInv, EInv, WInv, TypeOK
<1>2. f.frame_seq > newest_complete
  BY <1>1 DEF IsStale
<1>3. WInv /\ EInv
  BY DEF FInv, EInv
<1>4. WindowFull => Oldest \in InFlight /\ \A r \in InFlight : Oldest <= r
  BY <1>3, OldestInWindow
<1>5. WindowFull /\ f.frame_seq \notin InFlight => f.frame_seq > Oldest
  BY DEF IsStale
<1>6. ASSUME NEW s \in lost, s > newest_complete
      PROVE  s < f.frame_seq /\ WindowFull /\ \A r \in InFlight : s < r
  <2>1. WindowFull /\ \A r \in InFlight : s < r
    BY <1>1, <1>6 DEF FInv, Settled
  <2>2. CASE f.frame_seq \in InFlight
    BY <2>1, <2>2
  <2>3. CASE f.frame_seq \notin InFlight
    <3>1. s < Oldest /\ f.frame_seq > Oldest /\ Oldest \in Nat
      BY <1>1, <1>4, <1>5, <2>1, <2>3
    <3> QED
      BY <1>1, <2>1, <3>1
  <2> QED
    BY <2>2, <2>3
<1>7. f.frame_seq \notin lost
  BY <1>1, <1>2, <1>6
<1>8. f.frame_seq \notin gapped /\ f.frame_seq \notin Delivered
  BY <1>1, <1>2, <1>3, DeliveredIsOld DEF FInv, Settled
<1>9. ASSUME NEW s \in Evicted(f) PROVE s < f.frame_seq /\ \A r \in InFlight \ Evicted(f) : s < r
  <2>1. s = Oldest /\ Evicted(f) = {Oldest} /\ WindowFull /\ f.frame_seq \notin InFlight
    BY <1>9 DEF Evicted
  <2>2. Oldest \in Nat /\ f.frame_seq > Oldest
    BY <1>1, <1>4, <1>5, <2>1
  <2>3. ASSUME NEW r \in InFlight \ Evicted(f) PROVE s < r
    <3>1. Oldest <= r /\ r # Oldest /\ r \in Nat
      BY <1>1, <1>4, <2>1, <2>3
    <3> QED
      BY <2>1, <2>2, <3>1
  <2>4. s < f.frame_seq
    BY <1>1, <2>1, <2>2
  <2> QED
    BY <2>3, <2>4
<1> QED
  BY <1>2, <1>6, <1>7, <1>8, <1>9

\* A count grows by what is added to the set it counts.
LEMMA CountGrows ==
  ASSUME NEW S, IsFiniteSet(S), NEW T, IsFiniteSet(T), S \cap T = {}
  PROVE  IsFiniteSet(S \cup T) /\ Cardinality(S \cup T) = Cardinality(S) + Cardinality(T)
<1>1. Cardinality(S \cap T) = 0 /\ Cardinality(S) \in Nat /\ Cardinality(T) \in Nat
  BY FS_EmptySet, FS_CardinalityType
<1>2. /\ IsFiniteSet(S \cup T)
      /\ Cardinality(S \cup T) = Cardinality(S) + Cardinality(T) - Cardinality(S \cap T)
  BY FS_Union
<1> QED
  BY <1>1, <1>2

\* The window after a partial fragment, when it was full, is full of newer frames.
LEMMA StaysFull ==
  ASSUME WInv, NEW f \in Fragments, WindowFull
  PROVE  Cardinality((InFlight \ Evicted(f)) \cup {f.frame_seq}) >= 2
<1>0. IsFiniteSet(InFlight) /\ Cardinality(InFlight) \in Nat /\ Cardinality(InFlight) >= 2
  BY FS_CardinalityType DEF WInv, Finiteness, WindowFull, MaxIncomplete
<1>1. CASE f.frame_seq \in InFlight
  <2>1. (InFlight \ Evicted(f)) \cup {f.frame_seq} = InFlight
    BY <1>1 DEF Evicted
  <2> QED
    BY <1>0, <2>1
<1>2. CASE f.frame_seq \notin InFlight
  <2> DEFINE R == InFlight \ {Oldest}
  <2>1. Evicted(f) = {Oldest} /\ Oldest \in InFlight
    BY <1>2, OldestInWindow DEF Evicted
  <2>2. IsFiniteSet(R) /\ Cardinality(R) = Cardinality(InFlight) - 1
    BY <1>0, <2>1, FS_RemoveElement, Zenon
  <2>3. f.frame_seq \notin R /\ (InFlight \ Evicted(f)) \cup {f.frame_seq} = R \cup {f.frame_seq}
    BY <1>2, <2>1
  <2> HIDE DEF R
  <2>4. Cardinality(R \cup {f.frame_seq}) = Cardinality(R) + 1
    BY <2>2, <2>3, FS_AddElement, Zenon
  <2>5. Cardinality(R \cup {f.frame_seq}) >= 2
    BY <1>0, <2>2, <2>4
  <2> QED
    BY <2>3, <2>5, Zenon
<1> QED
  BY <1>1, <1>2

\* No fragment undoes a fate.
LEMMA FInvStep == FInv /\ [Next]_rvars => FInv'
<1> SUFFICES ASSUME FInv, [Next]_rvars PROVE FInv'
  OBVIOUS
<1>1. EInv' /\ WInv /\ EInv
  BY EInvStep DEF FInv, EInv
<1>2. CASE UNCHANGED rvars
  <2>1. UNCHANGED <<lost, gapped, Delivered, InFlight, counters, newest_complete, WindowFull>>
    BY <1>2 DEF rvars, Delivered, IsDeliver, InFlight, WindowFull
  <2> QED
    BY <1>1, <2>1 DEF FInv, OneFate, Settled
<1>3. ASSUME NEW t \in Times, NEW f \in Fragments, PushStale(t, f) PROVE FInv'
  <2>1. UNCHANGED <<lost, gapped, Delivered, InFlight, newest_complete, WindowFull>>
    BY <1>1, <1>3, PushDelivered DEF PushStale, InFlight, WindowFull
  <2>2. /\ counters'.dropped_incomplete = counters.dropped_incomplete
        /\ counters'.discarded_gap = counters.discarded_gap
    BY <1>1, <1>3 DEF PushStale, WInv, TypeOK
  <2> QED
    BY <1>1, <2>1, <2>2 DEF FInv, OneFate, Settled
<1>4. ASSUME NEW t \in Times, NEW f \in Fragments, PushPartial(t, f) PROVE FInv'
  <2> DEFINE n == f.frame_seq
             gone == Evicted(f)
  <2>1. /\ n > newest_complete /\ n \notin lost /\ n \notin gapped /\ n \notin Delivered
        /\ \A s \in lost : s > newest_complete => s < n /\ WindowFull /\ \A r \in InFlight : s < r
        /\ \A s \in gone : s < n /\ \A r \in InFlight \ gone : s < r
    BY <1>4, Fresh DEF PushPartial
  <2>2. gone \subseteq InFlight /\ IsFiniteSet(gone) /\ n \notin gone /\ Cardinality(gone) \in Nat
    BY <1>1, RoomAfterEviction, DeadType
  <2>3. InFlight' = (InFlight \ gone) \cup {n}
    BY <1>4 DEF PushPartial, InFlight
  <2>4. /\ lost' = lost \cup gone /\ UNCHANGED <<gapped, newest_complete, Delivered>>
        /\ counters' = [counters EXCEPT !.dropped_incomplete = @ + Cardinality(gone)]
    BY <1>1, <1>4, PushDelivered DEF PushPartial, Drop
  <2>5. WindowFull => WindowFull'
    <3>1. WindowFull => Cardinality((InFlight \ Evicted(f)) \cup {f.frame_seq}) >= 2
      BY <1>1, StaysFull
    <3> QED
      BY <2>3, <3>1 DEF WindowFull, MaxIncomplete
  <2>6. gone # {} => WindowFull
    BY DEF Evicted
  <2> HIDE DEF n, gone
  <2>7. /\ IsFiniteSet(lost') /\ Cardinality(lost') = Cardinality(lost) + Cardinality(gone)
        /\ lost \cap gone = {}
    <3>1. lost \cap gone = {}
      BY <2>2 DEF FInv, OneFate
    <3> QED
      BY <2>2, <2>4, <3>1, CountGrows DEF FInv
  <2>8. /\ counters'.dropped_incomplete = counters.dropped_incomplete + Cardinality(gone)
        /\ counters'.discarded_gap = counters.discarded_gap
    BY <1>1, <2>4 DEF WInv, TypeOK
  <2>9. OneFate'
    <3>1. lost' \cap gapped' = {} /\ (lost' \cup gapped') \cap Delivered' = {}
      BY <2>2, <2>4 DEF FInv, OneFate
    <3>2. (lost' \cup gapped' \cup Delivered') \cap InFlight' = {}
      BY <2>1, <2>2, <2>3, <2>4 DEF FInv, OneFate
    <3>3. counters'.dropped_incomplete = Cardinality(lost') /\ counters'.discarded_gap = Cardinality(gapped')
      BY <2>4, <2>7, <2>8 DEF FInv, OneFate
    <3> QED
      BY <3>1, <3>2, <3>3 DEF OneFate
  <2>10. ASSUME NEW s \in lost'
         PROVE  s <= newest_complete' \/ (WindowFull' /\ \A r \in InFlight' : s < r)
    <3>0. newest_complete \in Int /\ lost \subseteq Int
      <4>1. Seqs \subseteq Int
        BY FragmentType DEF Seqs
      <4> QED
        BY <1>1, <4>1 DEF WInv, TypeOK
    <3>1. CASE s \in gone
      BY <2>1, <2>3, <2>5, <2>6, <3>1
    <3>2. CASE s \in lost /\ s > newest_complete
      BY <2>1, <2>3, <2>5, <3>2
    <3>3. CASE s \in lost /\ ~(s > newest_complete)
      BY <2>4, <3>0, <3>3
    <3> QED
      BY <2>4, <3>1, <3>2, <3>3
  <2>11. Settled'
    BY <2>4, <2>10 DEF FInv, Settled
  <2> QED
    BY <1>1, <2>4, <2>7, <2>9, <2>11 DEF FInv
<1>5. ASSUME NEW t \in Times, NEW f \in Fragments, PushDeliver(t, f) \/ PushDiscard(t, f) PROVE FInv'
  <2> DEFINE n == f.frame_seq
             dead == Dead(f)
  <2>0. Complete(f) /\ ~IsStale(f)
    BY <1>5 DEF PushDeliver, PushDiscard, Complete
  <2>1. /\ n > newest_complete /\ n \notin lost /\ n \notin gapped /\ n \notin Delivered
        /\ \A s \in lost : s > newest_complete => s < n
        /\ \A s \in Evicted(f) : s < n
    BY <2>0, Fresh
  <2>2. /\ dead \subseteq InFlight \ {n} /\ IsFiniteSet(dead) /\ Cardinality(dead) \in Nat
        /\ \A s \in dead : s <= n
    <3>1. Evicted(f) \subseteq InFlight /\ f.frame_seq \notin Evicted(f) /\ InFlight \subseteq Nat /\ n \in Nat
      <4>1. Seqs \subseteq Nat
        BY FragmentType DEF Seqs
      <4> QED
        BY <1>1, <4>1, FragmentType, RoomAfterEviction DEF WInv, TypeOK
    <3>2. \A s \in Evicted(f) : s <= n
      <4> SUFFICES ASSUME NEW s \in Evicted(f) PROVE s <= n
        OBVIOUS
      <4>1. s < n /\ s \in Nat /\ n \in Nat
        BY <2>1, <3>1
      <4> HIDE DEF n
      <4> QED
        BY <4>1
    <3> QED
      BY <1>1, <3>1, <3>2, DeadType DEF Dead, Overtaken
  <2>3. newest_complete' = n /\ InFlight' = InFlight \ (dead \cup {n}) /\ lost' = lost \cup dead
    BY <1>1, <2>0, CompleteStep DEF Complete
  <2>4. \/ UNCHANGED gapped /\ Delivered' = Delivered \cup {n}
           /\ counters' = [counters EXCEPT !.dropped_incomplete = @ + Cardinality(dead)]
        \/ gapped' = gapped \cup {n} /\ Delivered' = Delivered
           /\ counters' = [counters EXCEPT !.dropped_incomplete = @ + Cardinality(dead), !.discarded_gap = @ + 1]
    BY <1>1, <1>5, PushDelivered DEF PushDeliver, PushDiscard
  <2> HIDE DEF n, dead
  <2>5. IsFiniteSet(lost') /\ Cardinality(lost') = Cardinality(lost) + Cardinality(dead)
    <3>1. lost \cap dead = {}
      BY <2>2 DEF FInv, OneFate
    <3> QED
      BY <2>2, <2>3, <3>1, CountGrows DEF FInv
  <2>6. /\ IsFiniteSet(gapped \cup {n}) /\ Cardinality(gapped \cup {n}) = Cardinality(gapped) + 1
    <3>1. IsFiniteSet(gapped) /\ n \notin gapped
      BY <2>1 DEF FInv
    <3> QED
      BY <3>1, FS_AddElement, Zenon
  <2>7. /\ counters'.dropped_incomplete = counters.dropped_incomplete + Cardinality(dead)
        /\ gapped' = gapped => counters'.discarded_gap = counters.discarded_gap
        /\ gapped' # gapped => counters'.discarded_gap = counters.discarded_gap + 1
    BY <1>1, <2>1, <2>4 DEF WInv, TypeOK
  <2>8. OneFate' /\ IsFiniteSet(gapped')
    <3>1. /\ lost \cap gapped = {} /\ (lost \cup gapped) \cap Delivered = {}
          /\ (lost \cup gapped \cup Delivered) \cap InFlight = {}
          /\ IsFiniteSet(gapped)
      BY DEF FInv, OneFate
    <3>2. /\ gapped' \cup Delivered' = gapped \cup Delivered \cup {n} /\ gapped' \subseteq gapped \cup {n}
          /\ gapped' \cap Delivered' = {} /\ IsFiniteSet(gapped')
      BY <2>1, <2>4, <2>6, <3>1
    <3>3. lost' \cap gapped' = {} /\ (lost' \cup gapped') \cap Delivered' = {}
      BY <2>1, <2>2, <2>3, <3>1, <3>2
    <3>4. (lost' \cup gapped' \cup Delivered') \cap InFlight' = {}
      BY <2>2, <2>3, <3>1, <3>2
    <3>5. counters'.dropped_incomplete = Cardinality(lost')
      BY <2>5, <2>7 DEF FInv, OneFate
    <3>6. counters'.discarded_gap = Cardinality(gapped')
      BY <2>1, <2>4, <2>6, <2>7 DEF FInv, OneFate
    <3> QED
      BY <3>2, <3>3, <3>4, <3>5, <3>6 DEF OneFate
  <2>9. Settled'
    <3>0. newest_complete \in Int /\ lost \subseteq Int /\ gapped \subseteq Int /\ n \in Int
      <4>1. Seqs \subseteq Int /\ f.frame_seq \in Int
        BY FragmentType DEF Seqs
      <4> QED
        BY <1>1, <4>1 DEF WInv, TypeOK, n
    <3>1. \A s \in lost' : s <= n
      BY <2>1, <2>2, <2>3, <3>0
    <3>2. \A s \in gapped' : s <= n
      <4>1. \A s \in gapped : s <= newest_complete
        BY DEF FInv, Settled
      <4> QED
        BY <2>1, <2>4, <3>0, <4>1
    <3> QED
      BY <2>3, <3>1, <3>2 DEF Settled
  <2> QED
    BY <1>1, <2>5, <2>8, <2>9 DEF FInv
<1> QED
  BY <1>2, <1>3, <1>4, <1>5 DEF Next, push

\* push: a frame is delivered, discarded by the gate or lost from the window, at most one of
\* these and once, however late and how often its fragments arrive; the counters count frames.
THEOREM Fates == Spec => []OneFate
<1>1. Init => FInv
  <2> SUFFICES ASSUME Init PROVE FInv
    OBVIOUS
  <2>1. lost = {} /\ gapped = {} /\ Delivered = {} /\ InFlight = {}
    BY DEF Init, Delivered, InFlight
  <2>2. counters.dropped_incomplete = 0 /\ counters.discarded_gap = 0
    BY DEF Init
  <2>3. IsFiniteSet({}) /\ Cardinality({}) = 0
    BY FS_EmptySet
  <2> QED
    BY <2>1, <2>2, <2>3, EInvInit DEF FInv, OneFate, Settled
<1>2. FInv => OneFate
  BY DEF FInv
<1> QED
  BY <1>1, <1>2, FInvStep, PTL DEF Spec
=============================================================================
