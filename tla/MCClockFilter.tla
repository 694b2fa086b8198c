--------------------------- MODULE MCClockFilter ---------------------------
(***************************************************************************)
(* ClockFilter with a short window and enough exchanges to slide it.       *)
(***************************************************************************)
EXTENDS ClockFilter

CONSTANTS MaxTheta, MaxDelay, MaxExchanges

MCThetas == -MaxTheta..MaxTheta
MCDelays == 0..MaxDelay

MCNext == Len(exchanges) < MaxExchanges /\ Next

MCSpec == Init /\ [][MCNext]_kvars
=============================================================================
