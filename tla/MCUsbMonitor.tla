---------------------------- MODULE MCUsbMonitor ----------------------------
(***************************************************************************)
(* UsbMonitor for TLC.                                                     *)
(***************************************************************************)
EXTENDS UsbMonitor

=============================================================================
