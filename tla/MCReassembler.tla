--------------------------- MODULE MCReassembler ---------------------------
(***************************************************************************)
(* Reassembler on a small instance: every order, loss and duplication of   *)
(* the fragments of a few frames, on a clock of a few instants.            *)
(***************************************************************************)
EXTENDS Reassembler

CONSTANTS
  MaxSeq,     \* frames 0..MaxSeq
  Counts,     \* the frag_count values
  MaxTime,    \* clock values 0..MaxTime
  MaxStale    \* bound on the stale_fragments counter

MCFragments ==
  {f \in [frame_seq : 0..MaxSeq, frag_index : 0..2, frag_count : Counts,
          keyframe : BOOLEAN] : f.frag_index < f.frag_count}

MCTimes == 0..MaxTime

MCNext == Next /\ counters'.stale_fragments <= MaxStale

MCSpec == Init /\ [][MCNext]_rvars
=============================================================================
