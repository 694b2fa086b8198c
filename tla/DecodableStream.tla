-------------------------- MODULE DecodableStream --------------------------
(***************************************************************************)
(* What the receive path promises to a video decoder, and nothing else:    *)
(* frames come out in increasing frame_seq order, each at most once, and a *)
(* frame that is not a keyframe comes out only while its predecessor, the  *)
(* one frame it references, is the newest frame handed out (rule 3 of the  *)
(* receive model, reassembly.hpp).  Any number of frames may be missing.   *)
(***************************************************************************)
EXTENDS Integers

CONSTANT FrameSeqs    \* the frame_seq values of the stream

VARIABLE handed       \* the frames handed out so far

Init == handed = {}

Newer(s) == \A f \in handed : f.frame_seq < s

\* A keyframe starts a new reference chain anywhere ahead of the newest frame.
HandKeyframe(s) ==
  /\ Newer(s)
  /\ handed' = handed \cup {[frame_seq |-> s, keyframe |-> TRUE]}

\* Any other frame extends the chain by exactly one.
HandSuccessor(s) ==
  /\ Newer(s)
  /\ \E f \in handed : f.frame_seq = s - 1
  /\ handed' = handed \cup {[frame_seq |-> s, keyframe |-> FALSE]}

Next == \E s \in FrameSeqs : HandKeyframe(s) \/ HandSuccessor(s)

Spec == Init /\ [][Next]_handed
=============================================================================
