----------------------------- MODULE UvcStream -----------------------------
(***************************************************************************)
(* One video stream of libuvc (uvccamera/src/main/jni/libuvc/src/stream.c) *)
(* from uvc_start_streaming_bandwidth to uvc_stop_streaming.               *)
(*                                                                         *)
(* Three threads share the stream handle: the owner that starts and stops  *)
(* the stream (UVCPreview's preview thread), libusb's event thread that    *)
(* runs _uvc_stream_callback for each finished transfer, and the callback  *)
(* thread that runs _uvc_user_caller.  A critical section of cb_mutex      *)
(* never blocks while it holds the mutex, except in pthread_cond_wait,     *)
(* which releases it: each one is a single step here, and every access     *)
(* outside the mutex is a step of its own.  A broadcast moves the threads  *)
(* asleep in pthread_cond_wait back to their re-check.                     *)
(***************************************************************************)
EXTENDS Naturals, FiniteSets

CONSTANTS
    Transfers,   \* the slots of strmh->transfers (LIBUVC_NUM_TRANSFER_BUFS)
    IsoModes,    \* whether the interface is isochronous: the kinds of device
    BufSize,     \* size_buf, in units of payload data
    MaxSeq,      \* bound: frames published in one session
    Faults       \* what may go wrong, a subset of FaultKinds

FaultKinds == {"unplug",   \* the device is disconnected
               "submit",   \* libusb_submit_transfer fails for another reason
               "error",    \* a transfer ends with LIBUSB_TRANSFER_ERROR
               "start"}    \* start fails before it allocates the transfers

ASSUME StreamConstants ==
    /\ IsFiniteSet(Transfers) /\ Transfers # {}
    /\ IsoModes # {} /\ IsoModes \subseteq BOOLEAN
    /\ BufSize \in Nat \ {0}
    /\ MaxSeq \in Nat \ {0}
    /\ Faults \subseteq FaultKinds

NoTransfer == "none"
ASSUME NoTransferIsNotASlot == NoTransfer \notin Transfers

VARIABLES
    app,        \* the owner: the point it has reached in start or stop
    toSubmit,   \* transfers that start has still to submit
    ret,        \* what uvc_stream_start_bandwidth returned last
    attached,   \* the device is on the bus
    iso,        \* its streaming interface has several alternate settings
    running,    \* strmh->running
    xfer,       \* per slot: "null", "idle" (allocated), "flight" or "cb"
    cancel,     \* transfers in flight whose cancellation was requested
    ev, evt,    \* the event thread: where it is, and with which transfer
    resubmit,   \* local variable of _uvc_stream_callback
    pkt,        \* the payload header being processed
    seq, fid, got, err,   \* strmh->seq, fid, got_bytes, bfh_err
    cut,        \* ghost: payload of the frame being assembled was refused
    hseq, herr, hcut,     \* strmh->hold_seq, hold_bfh_err, and cut at the swap
    cb, lastSeq,          \* the callback thread and its last_seq
    frame,      \* strmh->frame: what _uvc_populate_frame last copied
    given,      \* ghost: the frame last handed to user_cb
    dangling    \* the handle was freed while a transfer or thread refers to it

ownerVars == <<app, toSubmit, ret>>
deviceVars == <<attached, iso>>
usbVars == <<deviceVars, xfer, cancel>>
eventVars == <<ev, evt, resubmit, pkt>>
buildVars == <<seq, fid, got, err, cut>>
holdVars == <<hseq, herr, hcut>>
callerVars == <<cb, lastSeq, frame, given>>
vars == <<ownerVars, usbVars, running, eventVars, buildVars, holdVars,
          callerVars, dangling>>

----------------------------------------------------------------------------
NoFrame == [seq |-> 0, full |-> FALSE, cut |-> FALSE]
Frames == [seq : 0..MaxSeq, full : BOOLEAN, cut : BOOLEAN]
Packets == [fid : {0, 1}, len : {0, 1}, eof : BOOLEAN, bad : BOOLEAN]
NoPacket == [fid |-> 0, len |-> 0, eof |-> FALSE, bad |-> FALSE]

OwnerType ==
    /\ app \in {"idle", "submit", "streaming", "close", "stop", "cancel",
                "sleep", "check", "join", "free"}
    /\ toSubmit \subseteq Transfers
    /\ ret \in {"ok", "error"}

UsbType ==
    /\ attached \in BOOLEAN /\ iso \in IsoModes
    /\ xfer \in [Transfers -> {"null", "idle", "flight", "cb"}]
    /\ cancel \subseteq Transfers
    /\ running \in BOOLEAN /\ dangling \in BOOLEAN

EventType ==
    /\ ev \in {"wait", "payload", "data", "decide", "submit", "delete"}
    /\ evt \in Transfers \union {NoTransfer}
    /\ resubmit \in BOOLEAN
    /\ pkt \in Packets

BuildType ==
    /\ seq \in 0..MaxSeq /\ fid \in {0, 1} /\ got \in 0..(BufSize - 1)
    /\ err \in BOOLEAN /\ cut \in BOOLEAN

HoldType == hseq \in 0..MaxSeq /\ herr \in BOOLEAN /\ hcut \in BOOLEAN

CallerType ==
    /\ cb \in {"none", "loop", "wait", "reread", "user", "done"}
    /\ lastSeq \in 0..MaxSeq
    /\ frame \in Frames /\ given \in Frames

TypeOK ==
    /\ OwnerType /\ UsbType /\ EventType
    /\ BuildType /\ HoldType /\ CallerType

Init ==
    /\ app = "idle" /\ toSubmit = {} /\ ret = "ok"
    /\ attached = TRUE /\ iso \in IsoModes
    /\ running = FALSE /\ dangling = FALSE
    /\ xfer = [t \in Transfers |-> "null"] /\ cancel = {}
    /\ ev = "wait" /\ evt = NoTransfer /\ resubmit = TRUE /\ pkt = NoPacket
    /\ seq = 0 /\ fid = 0 /\ got = 0 /\ err = FALSE /\ cut = FALSE
    /\ hseq = 0 /\ herr = FALSE /\ hcut = FALSE
    /\ cb = "none" /\ lastSeq = 0 /\ frame = NoFrame /\ given = NoFrame

\* A thread reaches a point of its code; none does once the handle was freed
\* under a thread or a transfer, where what happens is undefined.
OwnerAt(point) == app = point /\ ~dangling
EventAt(point) == ev = point /\ ~dangling
CallerAt(point) == cb = point /\ ~dangling

AllNull(x) == \A t \in Transfers : x[t] = "null"

\* Mutants: a pthread_cond_signal that reaches the other of the two waiters.
SignalReachesOwner == UNCHANGED cb
SignalReachesCaller == UNCHANGED app

\* pthread_cond_broadcast(&strmh->cb_cond), for the two threads that wait on it.
WakeCaller == cb' = IF cb = "wait" THEN "loop" ELSE cb
WakeOwner == app' = IF app = "sleep" THEN "check" ELSE app

----------------------------------------------------------------------------
(***************************************************************************)
(* The owner.                                                              *)
(***************************************************************************)

\* uvc_stream_open_ctrl: a new handle, every field zero (calloc).
OpenCtrl ==
    /\ seq' = 0 /\ fid' = 0 /\ got' = 0 /\ err' = FALSE /\ cut' = FALSE
    /\ hseq' = 0 /\ herr' = FALSE /\ hcut' = FALSE
    /\ frame' = NoFrame

\* uvc_stream_open_ctrl and uvc_stream_start_bandwidth up to pthread_create.
StartAllocate ==
    /\ OwnerAt("idle") /\ attached
    /\ OpenCtrl
    /\ app' = "submit"
    /\ toSubmit' = Transfers
    /\ ret' = "ok"
    /\ running' = TRUE
    /\ xfer' = [t \in Transfers |-> "idle"]
    /\ cancel' = {}
    /\ cb' = "loop" /\ lastSeq' = 0 /\ given' = NoFrame
    /\ UNCHANGED <<deviceVars, eventVars, dangling>>

\* An error before the transfers exist: running goes back to 0 and
\* uvc_start_streaming_bandwidth closes the stream it has just opened.
StartRefused ==
    /\ OwnerAt("idle") /\ "start" \in Faults
    /\ app' = "close"
    /\ ret' = "error"
    /\ UNCHANGED <<toSubmit, usbVars, running, eventVars, buildVars, holdVars,
                   callerVars, dangling>>

CanSubmit == attached
MayFailToSubmit == ~attached \/ "submit" \in Faults

Submit(t) ==
    /\ OwnerAt("submit") /\ t \in toSubmit
    /\ toSubmit' = toSubmit \ {t}
    /\ \/ /\ CanSubmit
          /\ xfer' = [xfer EXCEPT ![t] = "flight"]
          /\ app' = IF toSubmit' = {} THEN "streaming" ELSE "submit"
          /\ UNCHANGED <<ret, running>>
       \/ /\ MayFailToSubmit
          /\ running' = FALSE
          /\ ret' = "error"
          /\ app' = "close"
          /\ UNCHANGED xfer
    /\ UNCHANGED <<deviceVars, cancel, eventVars, buildVars, holdVars,
                   callerVars, dangling>>

\* uvc_stop_streaming: uvc_stream_close on the stream of the device.
StopStreaming ==
    /\ OwnerAt("streaming")
    /\ app' = "close"
    /\ UNCHANGED <<toSubmit, ret, usbVars, running, eventVars, buildVars,
                   holdVars, callerVars, dangling>>

\* uvc_stream_close calls uvc_stream_stop only while the stream is running.
CloseChecksRunning ==
    /\ OwnerAt("close")
    /\ app' = IF running THEN "stop" ELSE "free"
    /\ UNCHANGED <<toSubmit, ret, usbVars, running, eventVars, buildVars,
                   holdVars, callerVars, dangling>>

\* uvc_stream_stop reads running again; the event thread may have cleared it.
StopClearsRunning ==
    /\ OwnerAt("stop")
    /\ IF running
       THEN running' = FALSE /\ app' = "cancel"
       ELSE UNCHANGED running /\ app' = "free"
    /\ UNCHANGED <<toSubmit, ret, usbVars, eventVars, buildVars, holdVars,
                   callerVars, dangling>>

\* Mutant: stop does not kick the callback thread awake.
TestSlotsOnly ==
    /\ app' = IF AllNull(xfer) THEN "join" ELSE "sleep"
    /\ UNCHANGED cb

\* The test of stop's wait loop, and what follows it: with every slot NULL the
\* callback thread is woken, otherwise the owner sleeps.
TestSlots ==
    IF AllNull(xfer)
    THEN app' = "join" /\ WakeCaller
    ELSE app' = "sleep" /\ UNCHANGED cb

\* Mutant: stop deletes the transfers itself.
CancelAndDelete ==
    /\ OwnerAt("cancel")
    /\ xfer' = [t \in Transfers |-> IF xfer[t] = "flight" THEN "null" ELSE xfer[t]]
    /\ TestSlots
    /\ UNCHANGED <<toSubmit, ret, deviceVars, cancel, running, eventVars,
                   buildVars, holdVars, lastSeq, frame, given, dangling>>

CancelAll ==
    /\ OwnerAt("cancel")
    /\ cancel' = cancel \union {t \in Transfers : xfer[t] = "flight"}
    /\ TestSlots
    /\ UNCHANGED <<toSubmit, ret, deviceVars, xfer, running, eventVars,
                   buildVars, holdVars, lastSeq, frame, given, dangling>>

\* Mutant: stop waits with an if where the code has a loop.
ProceedOnWake ==
    /\ OwnerAt("check")
    /\ app' = "join" /\ WakeCaller
    /\ UNCHANGED <<toSubmit, ret, usbVars, running, eventVars, buildVars,
                   holdVars, lastSeq, frame, given, dangling>>

CheckSlots ==
    /\ OwnerAt("check")
    /\ TestSlots
    /\ UNCHANGED <<toSubmit, ret, usbVars, running, eventVars, buildVars,
                   holdVars, lastSeq, frame, given, dangling>>

\* Mutant: the callback thread is detached, not joined.
SkipJoin ==
    /\ OwnerAt("join")
    /\ app' = "free"
    /\ UNCHANGED <<toSubmit, ret, usbVars, running, eventVars, buildVars,
                   holdVars, callerVars, dangling>>

\* pthread_join(strmh->cb_thread)
JoinCaller ==
    /\ OwnerAt("join") /\ cb = "done"
    /\ cb' = "none"
    /\ app' = "free"
    /\ UNCHANGED <<toSubmit, ret, usbVars, running, eventVars, buildVars,
                   holdVars, lastSeq, frame, given, dangling>>

\* The rest of uvc_stream_close: buffers, condition, mutex and handle are freed.
Free ==
    /\ OwnerAt("free")
    /\ app' = "idle"
    /\ dangling' = \/ \E t \in Transfers : xfer[t] \in {"flight", "cb"}
                   \/ cb \notin {"none", "done"}
    /\ toSubmit' = {}
    /\ IF dangling' THEN UNCHANGED <<xfer, cancel, cb>>
       ELSE xfer' = [t \in Transfers |-> "null"] /\ cancel' = {} /\ cb' = "none"
    /\ UNCHANGED <<ret, deviceVars, running, eventVars, buildVars, holdVars,
                   lastSeq, frame, given>>

----------------------------------------------------------------------------
(***************************************************************************)
(* libusb's event thread: _uvc_stream_callback.                            *)
(***************************************************************************)

\* The payload goes on to be processed, one packet of it at a time.
Completed == ev' = "payload" /\ resubmit' = TRUE /\ UNCHANGED running

\* CANCELLED, ERROR and NO_DEVICE are not resubmitted; NO_DEVICE also clears
\* running, for every other thread to see.
Ended(lost) ==
    /\ ev' = "decide"
    /\ resubmit' = FALSE
    /\ running' = IF lost THEN FALSE ELSE running

\* TIMED_OUT (each transfer has a timeout of 5000 ms), STALL and OVERFLOW.
Retried == ev' = "decide" /\ resubmit' = TRUE /\ UNCHANGED running

TransferEnds(t) ==
    /\ EventAt("wait") /\ xfer[t] = "flight"
    /\ \/ Completed                 \* perhaps before the device was unplugged
       \/ attached /\ Retried
       \/ (t \in cancel \/ "error" \in Faults) /\ Ended(FALSE)
       \/ ~attached /\ Ended(TRUE)
    /\ evt' = t
    /\ xfer' = [xfer EXCEPT ![t] = "cb"]
    /\ cancel' = cancel \ {t}
    /\ UNCHANGED <<ownerVars, deviceVars, pkt, buildVars, holdVars, callerVars,
                   dangling>>

\* Mutant: the frame number has one bit.
OneBitSeq == (seq + 1) % 2
NextSeq == seq + 1

\* Mutant: bfh_err is not copied with the frame it belongs to.
SwapForgetsError(damaged) ==
    /\ hseq' = seq /\ herr' = FALSE /\ hcut' = (cut \/ damaged)
    /\ seq' = NextSeq /\ got' = 0 /\ err' = FALSE /\ cut' = FALSE
    /\ WakeCaller /\ WakeOwner

\* _uvc_swap_buffers: under the mutex the assembled frame becomes the held one
\* and waiters are woken; then the event thread starts the next frame.
SwapBuffers(damaged) ==
    /\ hseq' = seq /\ herr' = damaged /\ hcut' = (cut \/ damaged)
    /\ seq' = NextSeq /\ got' = 0 /\ err' = FALSE /\ cut' = FALSE
    /\ WakeCaller /\ WakeOwner

KeepBuffers == UNCHANGED <<holdVars, seq, cb, app>>

Flips(p) == p.fid # fid /\ got > 0

\* Bounds and environment: the camera publishes at most MaxSeq frames, and what
\* it sends isochronously fits the buffer, as the code asserts there.
Sent(p) ==
    LET seq1 == IF Flips(p) THEN seq + 1 ELSE seq
        got1 == IF Flips(p) THEN 0 ELSE got
    IN  /\ seq1 <= MaxSeq
        /\ p.eof => seq1 < MaxSeq
        /\ iso => got1 + p.len < BufSize
        /\ p.bad => iso

\* A payload header whose frame id differs from the one being assembled
\* publishes what has been assembled so far.  An isochronous packet whose header
\* has the error bit set is skipped before that and changes nothing, so it is no
\* step here.
PayloadHeader(p) ==
    /\ EventAt("payload") /\ Sent(p)
    /\ IF Flips(p)
       THEN SwapBuffers(err)
       ELSE KeepBuffers /\ UNCHANGED <<got, err, cut>>
    /\ fid' = p.fid
    /\ pkt' = p
    /\ ev' = "data"
    /\ UNCHANGED <<toSubmit, ret, usbVars, running, evt, resubmit, lastSeq,
                   frame, given, dangling>>

\* Mutant: data may fill the buffer to its last byte.
FitsExactly(len) == got + len <= BufSize
Fits(len) == got + len < BufSize

\* The data of the payload: appended while it fits, otherwise refused and the
\* frame marked as damaged, like an isochronous packet shorter than its header.
\* The end-of-frame bit publishes the frame: a bulk payload's only when it
\* carries data, an isochronous one's only when the frame has some.
PayloadData ==
    LET fits == ~pkt.bad /\ Fits(pkt.len)
        got1 == IF fits THEN got + pkt.len ELSE got
        err1 == err \/ pkt.bad \/ (pkt.len > 0 /\ ~fits)
        ends == pkt.eof /\ IF iso THEN ~pkt.bad /\ got1 # 0 ELSE pkt.len > 0
    IN
    /\ EventAt("data")
    /\ IF ends
       THEN SwapBuffers(err1)
       ELSE KeepBuffers /\ got' = got1 /\ err' = err1 /\ cut' = (cut \/ err1)
    /\ ev' = IF iso THEN "payload" ELSE "decide"
    /\ pkt' = NoPacket
    /\ UNCHANGED <<toSubmit, ret, usbVars, running, evt, resubmit, fid, lastSeq,
                   frame, given, dangling>>

\* Nothing of the payload is used: a bulk payload shorter than its header, an
\* isochronous packet with a bad status or without a buffer.
PayloadBad ==
    /\ EventAt("payload")
    /\ err' = TRUE /\ cut' = TRUE
    /\ ev' = IF iso THEN "payload" ELSE "decide"
    /\ UNCHANGED <<ownerVars, usbVars, running, evt, resubmit, pkt, seq, fid,
                   got, holdVars, callerVars, dangling>>

\* An empty payload, and the end of an isochronous transfer's packets.
PayloadEnds ==
    /\ EventAt("payload")
    /\ ev' = "decide"
    /\ UNCHANGED <<ownerVars, usbVars, running, evt, resubmit, pkt, buildVars,
                   holdVars, callerVars, dangling>>

\* Mutant: a transfer is resubmitted whether or not the stream is stopping.
ResubmitAlways == resubmit
\* if (LIKELY(strmh->running && resubmit))
MayResubmit == running /\ resubmit

DecideResubmit ==
    /\ EventAt("decide")
    /\ ev' = IF MayResubmit THEN "submit" ELSE "delete"
    /\ UNCHANGED <<ownerVars, usbVars, running, evt, resubmit, pkt, buildVars,
                   holdVars, callerVars, dangling>>

\* libusb_submit_transfer; its result is not looked at, so a transfer that could
\* not be submitted keeps its slot.
Resubmit ==
    /\ EventAt("submit")
    /\ \/ CanSubmit /\ xfer' = [xfer EXCEPT ![evt] = "flight"]
       \/ MayFailToSubmit /\ xfer' = [xfer EXCEPT ![evt] = "idle"]
    /\ ev' = "wait" /\ evt' = NoTransfer
    /\ UNCHANGED <<ownerVars, deviceVars, cancel, running, resubmit, pkt,
                   buildVars, holdVars, callerVars, dangling>>

\* _uvc_delete_transfer
DeleteTransfer ==
    /\ EventAt("delete")
    /\ xfer' = [xfer EXCEPT ![evt] = "null"]
    /\ WakeCaller /\ WakeOwner
    /\ ev' = "wait" /\ evt' = NoTransfer /\ resubmit' = TRUE
    /\ UNCHANGED <<toSubmit, ret, deviceVars, cancel, running, pkt, buildVars,
                   holdVars, lastSeq, frame, given, dangling>>

----------------------------------------------------------------------------
(***************************************************************************)
(* The callback thread: _uvc_user_caller.                                  *)
(***************************************************************************)

\* Mutant: the pending frame is delivered before the thread leaves.
LeavesWhenDrained == ~running /\ lastSeq = hseq
Leaves == ~running

\* _uvc_populate_frame, called unless hold_bfh_err is set.
Populated ==
    IF herr THEN frame ELSE [seq |-> hseq, full |-> TRUE, cut |-> hcut]

\* The critical section: wait for a frame other than the last one, leave when
\* the stream no longer runs, otherwise copy the held frame unless it is
\* damaged.
CallerTakes ==
    /\ CallerAt("loop")
    /\ IF Leaves
       THEN cb' = "done" /\ UNCHANGED <<lastSeq, frame>>
       ELSE IF lastSeq = hseq
       THEN cb' = "wait" /\ UNCHANGED <<lastSeq, frame>>
       ELSE /\ cb' = "reread"
            /\ lastSeq' = hseq
            /\ frame' = Populated
    /\ UNCHANGED <<ownerVars, usbVars, running, eventVars, buildVars, holdVars,
                   given, dangling>>

\* hold_bfh_err is read a second time, after the mutex was released.
CallerCalls ==
    /\ CallerAt("reread")
    /\ IF herr
       THEN cb' = "loop" /\ UNCHANGED given
       ELSE cb' = "user" /\ given' = frame
    /\ UNCHANGED <<ownerVars, usbVars, running, eventVars, buildVars, holdVars,
                   lastSeq, frame, dangling>>

UserReturns ==
    /\ CallerAt("user")
    /\ cb' = "loop"
    /\ UNCHANGED <<ownerVars, usbVars, running, eventVars, buildVars, holdVars,
                   lastSeq, frame, given, dangling>>

----------------------------------------------------------------------------
Unplug ==
    /\ attached /\ ~dangling /\ "unplug" \in Faults
    /\ attached' = FALSE
    /\ UNCHANGED <<ownerVars, iso, xfer, cancel, running, eventVars, buildVars,
                   holdVars, callerVars, dangling>>

OwnerStops ==
    \/ CloseChecksRunning \/ StopClearsRunning \/ CancelAll \/ CheckSlots
    \/ JoinCaller \/ Free

Owner ==
    \/ StartAllocate \/ StartRefused \/ StopStreaming \/ OwnerStops
    \/ \E t \in Transfers : Submit(t)

EventThread ==
    \/ \E t \in Transfers : TransferEnds(t)
    \/ \E p \in Packets : PayloadHeader(p)
    \/ PayloadData \/ PayloadBad \/ PayloadEnds
    \/ DecideResubmit \/ Resubmit \/ DeleteTransfer

Caller == CallerTakes \/ CallerCalls \/ UserReturns

Next == Owner \/ EventThread \/ Caller \/ Unplug

\* Every thread that can run does; libusb ends each submitted transfer (it has
\* a timeout) and each transfer has finitely many packets; the receiver's
\* callback returns.  Nothing makes the owner start or stop.
Fairness ==
    /\ WF_vars(OwnerStops \/ \E t \in Transfers : Submit(t))
    /\ WF_vars(EventThread)
    /\ SF_vars(PayloadEnds)
    /\ WF_vars(Caller)

Spec == Init /\ [][Next]_vars

FairSpec == Spec /\ Fairness

----------------------------------------------------------------------------
(***************************************************************************)
(* Safety.                                                                 *)
(***************************************************************************)

\* The owner asleep in uvc_stream_stop has a slot to wait for: the broadcast of
\* the last _uvc_delete_transfer is never missed.
OwnerNotForgotten == app = "sleep" => ~AllNull(xfer)

\* A callback thread asleep after running was cleared will be woken, by the
\* owner that is stopping the stream or by the event thread that is deleting
\* the transfer of the lost device; unless the start itself failed.
CallerNotForgotten ==
    cb = "wait" /\ ~running =>
        \/ app \in {"cancel", "sleep", "check"}
        \/ ev \in {"decide", "delete"} /\ ~resubmit
        \/ ret = "error"

\* When uvc_stream_stop has seen every slot empty the event thread is out of
\* the stream's callback and nothing is in flight to bring it back.
StoppedIsQuiet == app = "join" => ev = "wait" /\ AllNull(xfer) /\ ~running

\* uvc_stream_close frees a handle that a transfer or the callback thread still
\* uses only after the device was lost or the start failed.
FreedWhileUsedOnlyAfterLoss == dangling => ~attached \/ ret = "error"

\* No frame whose payload was refused (bad packet status, packet shorter than its
\* header, overflow) reaches the user, although the error flag is read a second
\* time outside the mutex.  A frame with a gap may: an isochronous packet with the
\* error bit in its header is skipped without marking the frame.
DamagedFrameNotGiven == ~given.cut

\* Within a session the calls of the user's function never go back to an older
\* frame.  (They may repeat one: see EachCallHasItsFrame.)
OrderedDelivery ==
    [][cb = "reread" /\ cb' = "user" => given'.seq >= given.seq]_vars

\* The callback thread "calls the user's function with the contents of each
\* frame": each call comes with an assembled frame that it was not called with
\* before.  The code breaks it: hold_bfh_err is read again after the mutex was
\* released, and a frame published in between decides for the one before it.
EachCallHasItsFrame ==
    [][cb = "reread" /\ cb' = "user" =>
          given'.full /\ given'.seq > given.seq]_vars

----------------------------------------------------------------------------
(***************************************************************************)
(* The inductive invariant the safety properties follow from.              *)
(***************************************************************************)

\* The transfer the event thread is working on, and no other, is in "cb".
OneInCallback ==
    /\ ev = "wait" <=> evt = NoTransfer
    /\ ev # "wait" => xfer[evt] = "cb"
    /\ \A t \in Transfers : xfer[t] = "cb" => evt = t

\* A transfer that start has still to submit is not in anybody's hands.
WaitsForStart == app = "submit" => \A t \in toSubmit : xfer[t] = "idle"

\* What running says of the two threads' places; the stream stops running by
\* itself only when the device is lost or the start failed.
RunningWhile ==
    /\ running => app \in {"submit", "streaming", "close", "stop"}
    /\ running => cb \notin {"none", "done"}
    /\ app \in {"submit", "streaming", "close", "stop"} =>
           running \/ ~attached \/ ret = "error"

\* The callback thread lives as long as a transfer does, and is only missing
\* from a handle about to be freed after it was joined.
CallerLives ==
    /\ cb = "none" => AllNull(xfer)
    /\ app \in {"submit", "streaming"} => cb # "none"
    /\ app = "idle" => cb = "none" \/ dangling
    /\ app = "join" => AllNull(xfer)
    /\ app = "free" => cb = "none" \/ ~attached \/ ret = "error"

\* A refused payload marks the frame it belongs to, at every stage.
CutIsMarked ==
    /\ cut => err
    /\ hcut => herr
    /\ ~frame.cut /\ ~given.cut

\* The bound MaxSeq leaves room for the frame that the packet will end.
RoomForPacket == ev = "data" /\ pkt.eof => seq < MaxSeq

\* Frame numbers only grow on their way from the camera to the user.
NumbersAscend ==
    given.seq <= frame.seq /\ frame.seq <= lastSeq /\ lastSeq <= hseq
    /\ hseq <= seq

IInv ==
    /\ TypeOK /\ RoomForPacket
    /\ OneInCallback /\ WaitsForStart /\ RunningWhile /\ CallerLives
    /\ OwnerNotForgotten /\ CallerNotForgotten
    /\ FreedWhileUsedOnlyAfterLoss
    /\ CutIsMarked

----------------------------------------------------------------------------
(***************************************************************************)
(* Liveness.                                                               *)
(***************************************************************************)

Stopping ==
    app \in {"close", "stop", "cancel", "sleep", "check", "join", "free"}

\* uvc_stop_streaming returns, unless a transfer that could not be resubmitted
\* holds its slot.
StopReturns ==
    Stopping ~> (~Stopping \/ \E t \in Transfers : xfer[t] = "idle")

\* uvc_stop_streaming returns whatever happens to the device: what the comment
\* at NO_DEVICE is after.
StopReturnsAfterUnplug == Stopping ~> ~Stopping

\* A good frame that the camera completes reaches the user unless a newer one
\* replaces it first or the stream stops: the wakeup is not lost.  The first
\* frame (number 0) is the exception.
HeldFrameDelivered ==
    \A n \in 1..MaxSeq :
        (hseq = n /\ ~herr /\ running) ~>
            (given.seq >= n \/ hseq # n \/ ~running)

----------------------------------------------------------------------------
(***************************************************************************)
(* The stream keeps the session contract.  The session streams from the    *)
(* creation of the callback thread, stops when running is cleared and is   *)
(* closed when that thread is gone.                                        *)
(***************************************************************************)
SessionPhase ==
    IF dangling THEN "broken"
    ELSE IF cb = "none" THEN "closed"
    ELSE IF running THEN "streaming" ELSE "stopping"

Contract == INSTANCE StreamSession
    WITH phase <- SessionPhase,
         busy <- (cb = "user"),
         last <- (cb = "reread" /\ ~running)

\* At most one callback at a time, at most one begins after stop was requested,
\* none is in progress when the stream has been closed.
KeepsContract == Contract!Session

----------------------------------------------------------------------------
(***************************************************************************)
(* The stream as a user of libusb, on a device that stays open.            *)
(***************************************************************************)
Libusb == INSTANCE TransferService
    WITH usable <- TRUE,
         inFlight <- {t \in Transfers : xfer[t] = "flight"},
         called <- {t \in Transfers : xfer[t] = "cb"}

\* A slot's transfer is submitted when nobody has it, deleted only out of its
\* callback, and no transfer is processed before the callback of another one
\* has returned.
UsesTransfers == Libusb!Service

=============================================================================
