---------------------------- MODULE MCUvcPreview ----------------------------
(***************************************************************************)
(* UvcPreview for TLC: a queue of one frame, a pool of at most one.        *)
(***************************************************************************)
EXTENDS UvcPreview

=============================================================================
