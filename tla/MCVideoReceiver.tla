-------------------------- MODULE MCVideoReceiver --------------------------
(***************************************************************************)
(* VideoReceiver on a small instance: a few frames of one or two           *)
(* fragments, arriving in any order with any loss and duplication.         *)
(***************************************************************************)
EXTENDS VideoReceiver

CONSTANTS
  FrameSeqs,  \* the frames of the instance
  TwoParts,   \* those of two fragments, the others have one
  MayBeKey,   \* those the host may encode as keyframes
  MayBeEmpty, \* those the host may send without an access unit
  MaxTime,    \* clock values 0..MaxTime
  MaxStale    \* bound on the stale_fragments counter

PartsOf(s) == IF s \in TwoParts THEN 2 ELSE 1

MCFragments ==
  {f \in [frame_seq : FrameSeqs, frag_index : 0..1, frag_count : 1..2, keyframe : BOOLEAN] :
     /\ f.frag_count = PartsOf(f.frame_seq)
     /\ f.frag_index < f.frag_count
     /\ f.keyframe => f.frame_seq \in MayBeKey}

MCTimes == 0..MaxTime

Bounded ==
  /\ counters'.stale_fragments <= MaxStale
  /\ \A s \in DOMAIN host' : host'[s].empty => s \in MayBeEmpty

MCNext == VNext /\ Bounded

MCSpec == VInit /\ [][MCNext]_vvars

MCFairSpec == MCSpec /\ WF_vvars(ProducerStep) /\ WF_vvars(DecoderStep)
=============================================================================
