------------------------------ MODULE MCWatch -------------------------------
(* An event channel of three slots and five matching store changes:    *)
(* enough to fill the channel, overrun it, and interleave every cancellation. *)
EXTENDS Watch

MCChanCap == 3
MCMaxEvents == 5
=============================================================================
