---------------------------- MODULE HevcDecoder ----------------------------
(***************************************************************************)
(* quest/src/hevc_decoder.cpp: the decode thread between a receiver's      *)
(* hand-off and the platform's codec, and the owner that starts it, stops  *)
(* it and replaces it.                                                     *)
(*                                                                         *)
(* Access units are numbered as the receiver hands them over, and the      *)
(* number stands for capture_ts, which the codec carries through as the    *)
(* pts: the host's capture clock never gives two frames the same one.      *)
(* The codec is external: it owns the input buffers the loop does not      *)
(* hold, decodes in order, and gives an output for every access unit but   *)
(* those of Swallowed.  VideoReceiver shows that pop_au blocks exactly     *)
(* while the hand-off is empty and not stopped.                            *)
(***************************************************************************)
EXTENDS Integers, Sequences, FiniteSets

CONSTANTS
  MaxAus,         \* bound on the access units of one run
  MaxPendingAus,  \* kMaxPendingAus of the receiver
  MaxInFlight,    \* kMaxInFlight, 2 in the code
  NumInputs,      \* input buffers of the codec
  Oversized,      \* access units larger than an input buffer
  Swallowed,      \* access units the codec gives no output for
  None

Aus == 1..MaxAus

ASSUME DecoderAssumption ==
  /\ MaxAus \in Nat /\ MaxPendingAus \in Nat \ {0}
  /\ MaxInFlight \in Nat \ {0} /\ NumInputs \in Nat \ {0}
  /\ Oversized \subseteq Aus /\ Swallowed \subseteq Aus /\ None \notin Aus

VARIABLES
  au_queue, stop,        \* the receiver: its hand-off and stop_
  fed,                   \* access units the receiver has made
  owner,                 \* "idle", "up", "flagged" (running_ cleared), "joining"
  running,               \* running_
  pc, gated, au,         \* the decode thread and its locals
  queued,                \* the keys of queued_ns
  free, inside, outputs  \* the codec: free inputs, queued inputs, finished outputs

rcvars == <<au_queue, stop, fed>>
codec == <<free, inside, outputs>>
loop == <<pc, gated, au, queued>>
hvars == <<rcvars, owner, running, loop, codec>>

HInit ==
  /\ au_queue = << >> /\ stop = FALSE /\ fed = 0
  /\ owner = "idle" /\ running = FALSE
  /\ pc = "off" /\ gated = FALSE /\ au = None /\ queued = {}
  /\ free = NumInputs /\ inside = << >> /\ outputs = << >>

-----------------------------------------------------------------------------
\* The receiver hands over the next access unit.  A full hand-off is dropped first,
\* and then the new one waits for a keyframe unless it is one.
HandOver ==
  /\ fed < MaxAus
  /\ fed' = fed + 1
  /\ \/ /\ Len(au_queue) < MaxPendingAus
        /\ au_queue' = Append(au_queue, fed')
     \/ /\ Len(au_queue) >= MaxPendingAus
        /\ au_queue' \in {<< >>, <<fed'>>}
  /\ UNCHANGED <<stop, owner, running, loop, codec>>

\* start, on a codec that create has just configured: nothing is in it.
Start ==
  /\ owner = "idle"
  /\ owner' = "up"
  /\ running' = TRUE
  /\ pc' = "top" /\ gated' = FALSE /\ au' = None /\ queued' = {}
  /\ free' = NumInputs /\ inside' = << >> /\ outputs' = << >>
  /\ UNCHANGED rcvars

\* ... or AMediaCodec_start fails, which the owner is not told.
StartFails ==
  /\ owner = "idle"
  /\ owner' = "up"
  /\ UNCHANGED <<rcvars, running, loop, codec>>

\* stop: clear running_, stop the receiver, join.
ClearRunning ==
  /\ owner = "up"
  /\ owner' = "flagged"
  /\ running' = FALSE
  /\ UNCHANGED <<rcvars, loop, codec>>

\* Fault: the receiver is not stopped.
StopRaisedNot == stop

StopRaised == TRUE

StopReceiver ==
  /\ owner = "flagged"
  /\ owner' = "joining"
  /\ stop' = StopRaised
  /\ UNCHANGED <<au_queue, fed, running, loop, codec>>

\* The join returns and the codec is stopped and deleted (the destructor's second stop
\* finds nothing to do), the thread's locals are gone; an owner that keeps the receiver revives it with resume.
Join(resume) ==
  /\ owner = "joining"
  /\ pc \in {"off", "done"}
  /\ owner' = "idle"
  /\ stop' = (stop /\ ~resume)
  /\ pc' = "off" /\ gated' = FALSE /\ au' = None /\ queued' = {}
  /\ free' = NumInputs /\ inside' = << >> /\ outputs' = << >>
  /\ UNCHANGED <<au_queue, fed, running>>

-----------------------------------------------------------------------------
\* decode_loop.  The loop condition, and whether the codec is at the freshness cap.
LoopEnds ==
  /\ pc = "top" /\ ~running
  /\ pc' = "done"
  /\ UNCHANGED <<rcvars, owner, running, gated, au, queued, codec>>

\* Fault: the cap is off by one.
AtCapLate == Cardinality(queued) > MaxInFlight

AtCap == Cardinality(queued) >= MaxInFlight

LoopGoes ==
  /\ pc = "top" /\ running
  /\ gated' = AtCap
  /\ pc' = "drain"
  /\ UNCHANGED <<rcvars, owner, running, au, queued, codec>>

\* Fault: a frame stays in queued_ns after its output.
WithoutKeeps(pts) == queued

Without(pts) == queued \ {pts}

\* drain_outputs: every finished output is released to the surface.  Waiting for the
\* first one or not makes no difference here: a dequeue that times out found none.
DrainOne ==
  /\ pc = "drain" /\ outputs # << >>
  /\ queued' = Without(Head(outputs))
  /\ outputs' = Tail(outputs)
  /\ UNCHANGED <<rcvars, owner, running, pc, gated, au, free, inside>>

DrainEnd ==
  /\ pc = "drain" /\ outputs = << >>
  /\ pc' = IF gated THEN "top" ELSE "input"
  /\ UNCHANGED <<rcvars, owner, running, gated, au, queued, codec>>

\* An input buffer is reserved before an access unit is taken.
GetInput ==
  /\ pc = "input"
  /\ \/ free > 0 /\ free' = free - 1 /\ pc' = "pop"
     \/ free = 0 /\ pc' = "top" /\ UNCHANGED free
  /\ UNCHANGED <<rcvars, owner, running, gated, au, queued, inside, outputs>>

\* pop_au blocks until there is an access unit or the receiver is stopped.
Pop ==
  /\ pc = "pop" /\ au_queue # << >>
  /\ au' = Head(au_queue)
  /\ au_queue' = Tail(au_queue)
  /\ pc' = "queue"
  /\ UNCHANGED <<stop, fed, owner, running, gated, queued, codec>>

PopStopped ==
  /\ pc = "pop" /\ au_queue = << >> /\ stop
  /\ pc' = "done"
  /\ UNCHANGED <<rcvars, owner, running, gated, au, queued, codec>>

QueueInput ==
  /\ pc = "queue" /\ au \notin Oversized
  /\ queued' = queued \cup {au}
  /\ inside' = Append(inside, au)
  /\ pc' = "top"
  /\ UNCHANGED <<rcvars, owner, running, gated, au, free, outputs>>

\* An access unit that does not fit is dropped, and the input buffer is not given back.
DropOversized ==
  /\ pc = "queue" /\ au \in Oversized
  /\ pc' = "top"
  /\ UNCHANGED <<rcvars, owner, running, gated, au, queued, codec>>

\* The codec takes an input, and gives its output or swallows it.
Decode ==
  /\ inside # << >>
  /\ inside' = Tail(inside)
  /\ free' = free + 1
  /\ outputs' = IF Head(inside) \in Swallowed THEN outputs ELSE Append(outputs, Head(inside))
  /\ UNCHANGED <<rcvars, owner, running, loop>>

LoopStep == LoopEnds \/ LoopGoes \/ DrainOne \/ DrainEnd \/ GetInput \/ Pop \/ PopStopped
            \/ QueueInput \/ DropOversized

-----------------------------------------------------------------------------
(***************************************************************************)
(* Properties                                                              *)
(***************************************************************************)
Waiting(a) == \E i \in DOMAIN au_queue : au_queue[i] = a

\* The freshness cap holds for the frames really in the codec, inputs and outputs, and
\* not only for the map that stands for them: queued_ns never forgets one.
InFlightCap ==
  /\ Len(inside) + Len(outputs) <= MaxInFlight
  /\ {inside[i] : i \in DOMAIN inside} \cup {outputs[i] : i \in DOMAIN outputs} \subseteq queued

\* The decoder never stops taking access units: each one in the hand-off is taken (or
\* dropped as stale) while the decoder runs, as long as fewer than MaxInFlight frames
\* are swallowed by the codec and fewer than NumInputs do not fit a buffer.
KeepsFed ==
  Cardinality(Swallowed) < MaxInFlight /\ Cardinality(Oversized) < NumInputs =>
    \A a \in Aus : Waiting(a) /\ running ~> ~Waiting(a) \/ ~running
=============================================================================
