---------------------------- MODULE MCUvcStream ----------------------------
(***************************************************************************)
(* UvcStream for TLC: two transfers, so that one can be in its callback    *)
(* while the other is in flight, and up to three frames, so that a held    *)
(* frame can be replaced while the callback thread has an older one.       *)
(***************************************************************************)
EXTENDS UvcStream

AllFaults == {"unplug", "submit", "error", "start"}
OnlyUnplug == {"unplug"}

=============================================================================
