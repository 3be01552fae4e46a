--------------------------- MODULE StreamSession ---------------------------
(***************************************************************************)
(* What libuvc's streaming calls promise to the code that receives frames: *)
(* the contract UVCPreview is written against, and the specification that  *)
(* UvcStream (libuvc/src/stream.c) is shown to implement.                  *)
(*                                                                         *)
(* A session begins with uvc_start_streaming_bandwidth and ends with       *)
(* uvc_stop_streaming.  The receiver's callback runs in one thread at a    *)
(* time, only inside a session; once the session is told to stop at most   *)
(* one more call of it begins; and when the session has ended no call is   *)
(* in progress.  "broken" is the outcome in which the contract is lost     *)
(* (the handle is freed under the threads that use it).                    *)
(***************************************************************************)
VARIABLES
    phase,   \* "closed", "streaming", "stopping" or "broken"
    busy,    \* the receiver's callback is executing
    last     \* one more call may still begin although the session is stopping

svars == <<phase, busy, last>>

SessionTypeOK ==
    /\ phase \in {"closed", "streaming", "stopping", "broken"}
    /\ busy \in BOOLEAN
    /\ last \in BOOLEAN

SessionInit ==
    /\ phase = "closed"
    /\ busy = FALSE
    /\ last = FALSE

\* uvc_start_streaming_bandwidth returned or is about to return success.
Begin ==
    /\ phase = "closed"
    /\ phase' = "streaming"
    /\ UNCHANGED <<busy, last>>

\* A frame is handed to the receiver.
Deliver ==
    /\ ~busy
    /\ \/ phase = "streaming" /\ UNCHANGED last
       \/ phase = "stopping" /\ last /\ last' = FALSE
    /\ busy' = TRUE
    /\ UNCHANGED phase

Return ==
    /\ busy
    /\ busy' = FALSE
    /\ UNCHANGED <<phase, last>>

\* The session is told to stop, by its owner or because the device is gone.
Stop ==
    /\ phase = "streaming"
    /\ phase' = "stopping"
    /\ last' \in IF busy THEN {FALSE} ELSE BOOLEAN
    /\ UNCHANGED busy

\* The call that could still begin will not.
Forgo ==
    /\ phase = "stopping" /\ last
    /\ last' = FALSE
    /\ UNCHANGED <<phase, busy>>

End ==
    /\ phase = "stopping"
    /\ ~busy /\ ~last
    /\ phase' = "closed"
    /\ UNCHANGED <<busy, last>>

Break ==
    /\ phase = "stopping"
    /\ phase' = "broken"
    /\ UNCHANGED <<busy, last>>

SessionNext ==
    \/ Begin \/ Deliver \/ Return \/ Stop \/ Forgo \/ End \/ Break

Session == SessionInit /\ [][SessionNext]_svars

=============================================================================
