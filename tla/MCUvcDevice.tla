---------------------------- MODULE MCUvcDevice ----------------------------
(***************************************************************************)
(* UvcDevice for TLC: the Java thread and one thread of the preview.       *)
(***************************************************************************)
EXTENDS UvcDevice

JavaAndPreview == {"owner", "preview"}

=============================================================================
