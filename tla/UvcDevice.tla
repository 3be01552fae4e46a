------------------------------ MODULE UvcDevice ------------------------------
(***************************************************************************)
(* The native camera object (UVCCamera.cpp), libuvc's device handle and    *)
(* context (device.c, init.c), and its event thread, on top of libusb's    *)
(* event handling.                                                         *)
(*                                                                         *)
(* The owner is the Java thread: UVCCamera.java makes its calls one at a   *)
(* time.  The other callers are the threads of a preview; what they do     *)
(* beyond control transfers is UvcPreview's and UvcStream's, and here is   *)
(* one transfer, "stream", that is resubmitted until the preview stops.    *)
(* The status and button callback objects are made, used and deleted       *)
(* together, and modelled as one.  connect is one step: nobody else uses   *)
(* the context then.                                                       *)
(***************************************************************************)
EXTENDS LibusbEvents

ASSUME OwnerCalls == "owner" \in Callers

VARIABLES
    attached,   \* the device is plugged in
    ctx,        \* mContext exists
    kill,       \* ctx->kill_handler_thread
    handle,     \* mDeviceHandle: "none", "open", or "closed" by libusb only
    listeners,  \* mStatusCallback and mButtonCallback exist
    set,        \* the handle's status_cb and button_cb point to them
    preview,    \* its threads: "off", "starting", "streaming" or "stopping"
    usbfs,      \* mUsbFs # NULL
    fd,         \* mFd, 0 or 1
    lost,       \* ghost: the status transfer ended without being resubmitted
    failed      \* ghost: a connect failed since the last release

fdVars == <<usbfs, fd, failed>>
cameraVars == <<ctx, kill, handle, listeners, set, preview, fdVars>>
deviceVars == <<attached, cameraVars, lost>>
vars == <<eventVars, deviceVars>>

----------------------------------------------------------------------------
CallerPoints == {"idle", "loop"} \union HandlePoints
OwnerPoints ==
    CallerPoints \union ClosePoints
        \union {"install", "halt", "stop", "delete", "kill", "finish"}
EventPoints == {"check", "ended"} \union HandlePoints
Points == OwnerPoints \union EventPoints

DeviceType ==
    /\ attached \in BOOLEAN /\ ctx \in BOOLEAN /\ kill \in BOOLEAN
    /\ handle \in {"none", "open", "closed"}
    /\ listeners \in BOOLEAN /\ set \in BOOLEAN
    /\ preview \in {"off", "starting", "streaming", "stopping"}
    /\ usbfs \in BOOLEAN /\ fd \in {0, 1}
    /\ lost \in BOOLEAN /\ failed \in BOOLEAN

TypeOK == EventsType(Points) /\ DeviceType

Init ==
    /\ EventsInit
    /\ attached = TRUE
    /\ ctx = FALSE /\ kill = FALSE
    /\ handle = "none" /\ listeners = FALSE /\ set = FALSE
    /\ preview = "off"
    /\ usbfs = FALSE /\ fd = 0
    /\ lost = FALSE /\ failed = FALSE

OwnerAt(point) == at["owner"] = point
GoOwner(point) == Go("owner", point)

----------------------------------------------------------------------------
(***************************************************************************)
(* connect.                                                                *)
(***************************************************************************)
\* The context could not be made, the device was not found, or uvc_open failed:
\* what was opened is closed again, but mUsbFs stays.
ConnectFails ==
    /\ OwnerAt("idle") /\ handle = "none"
    /\ usbfs' = TRUE /\ failed' = TRUE
    /\ \/ ~ctx /\ UNCHANGED ctx
       \/ ctx' = TRUE
    /\ UNCHANGED <<eventVars, attached, kill, handle, listeners, set, preview,
                   fd, lost>>

\* Mutant: the thread is started by the first connection of the context only.
StartedOnce == IF ctx THEN at["event"] ELSE "check"

\* open_devices is empty, so uvc_open starts the event thread.
Started == "check"

\* uvc_open submits the status transfer, if there is an endpoint for it.
Connect ==
    /\ OwnerAt("idle") /\ handle = "none" /\ attached
    /\ ctx' = TRUE
    /\ handle' = "open"
    /\ usbfs' = TRUE /\ fd' = 1
    /\ flying' \in {{"status"}, {}}
    /\ lost' = (flying' = {})
    /\ at' = [at EXCEPT !["owner"] = "install", !["event"] = Started]
    /\ UNCHANGED <<lockVars, pollVars, ready, done, attached, kill, listeners,
                   set, preview, failed>>

\* The constructors of the callback objects, which register themselves.
Install ==
    /\ OwnerAt("install")
    /\ listeners' = TRUE /\ set' = TRUE
    /\ GoOwner("idle")
    /\ UNCHANGED <<lockVars, pollVars, xferVars, attached, ctx, kill, handle,
                   preview, fdVars, lost>>

----------------------------------------------------------------------------
(***************************************************************************)
(* Control transfers and the preview.                                      *)
(***************************************************************************)
\* The threads of a preview ask while they negotiate, also when they have been
\* told to stop.
MayAsk(c) ==
    /\ at[c] = "idle" /\ handle = "open"
    /\ c = "owner" \/ preview = "starting"

\* A device that is gone refuses the transfer at once.
Ask(c) ==
    /\ MayAsk(c) /\ attached
    /\ SubmitSync(c)
    /\ UNCHANGED deviceVars

StartPreview ==
    /\ OwnerAt("idle") /\ handle = "open" /\ preview = "off"
    /\ preview' = "starting"
    /\ UNCHANGED <<eventVars, attached, ctx, kill, handle, listeners, set,
                   fdVars, lost>>

\* uvc_start_streaming_bandwidth, whether or not the preview is to stop.
StartStream(c) ==
    /\ c # "owner" /\ MayAsk(c) /\ attached
    /\ preview' = "streaming"
    /\ flying' = flying \union {"stream"}
    /\ UNCHANGED <<at, lockVars, pollVars, ready, done, attached, ctx, kill,
                   handle, listeners, set, fdVars, lost>>

\* stopPreview, alone ("halt") or as the beginning of release ("stop").  The
\* threads of the preview see it when they have done what they are doing.
BeginStop ==
    /\ OwnerAt("idle")
    /\ \/ preview # "off" /\ GoOwner("halt")
       \/ GoOwner("stop")
    /\ UNCHANGED <<lockVars, pollVars, xferVars, deviceVars>>

Stopping == OwnerAt("halt") \/ OwnerAt("stop")
Quiet == \A c \in Callers \ {"owner"} : at[c] = "idle"

\* The negotiation or the start fails, or the loop of do_preview ends with
\* uvc_stop_streaming: the stream's callback submits no more.
PreviewEnds ==
    /\ Quiet
    /\ preview = "starting" \/ (preview = "streaming" /\ Stopping)
    /\ preview' = "stopping"
    /\ UNCHANGED <<eventVars, attached, ctx, kill, handle, listeners, set,
                   fdVars, lost>>

CalledBack(t) == at[t] \in {"callback", "notify", "resubmit"}
Reaping(t) == at[t] = "reap" \/ CalledBack(t)

\* Mutant: the transfer is back, its callback may still be running.
StreamBack == "stream" \notin flying

\* The transfer is back and its callback has returned.  (That it may never come
\* back after a failed submission is UvcStream's matter.)
StreamOver ==
    /\ "stream" \notin flying
    /\ \A t \in Threads : at[t] # "callback"

\* The threads of the preview are joined, the last of them waits for the stream.
Stopped ==
    /\ Stopping
    /\ preview = "off" \/ (preview = "stopping" /\ StreamOver)
    /\ preview' = "off"
    /\ GoOwner(IF OwnerAt("halt") THEN "idle"
               ELSE IF handle = "open" THEN "delete" ELSE "finish")
    /\ UNCHANGED <<lockVars, pollVars, xferVars, attached, ctx, kill, handle,
                   listeners, set, fdVars, lost>>

----------------------------------------------------------------------------
(***************************************************************************)
(* release, uvc_close, and the destructor.                                 *)
(***************************************************************************)
\* The callback objects are deleted; the handle still points to them.
DeleteListeners ==
    /\ OwnerAt("delete")
    /\ listeners' = FALSE
    /\ GoOwner("kill")
    /\ UNCHANGED <<lockVars, pollVars, xferVars, attached, ctx, kill, handle,
                   set, preview, fdVars, lost>>

\* uvc_close tells the event thread to end.
TellEventThread ==
    /\ OwnerAt("kill")
    /\ kill' = TRUE
    /\ GoOwner("modify")
    /\ UNCHANGED <<lockVars, pollVars, xferVars, attached, ctx, handle,
                   listeners, set, preview, fdVars, lost>>

Close ==
    /\ LibusbClose("owner")
    /\ handle' = IF OwnerAt("drop") THEN "closed" ELSE handle
    /\ UNCHANGED <<attached, ctx, kill, listeners, set, preview, fdVars, lost>>

\* Mutant: the thread is not waited for.
DontJoin == TRUE
Joined == at["event"] = "ended"

\* pthread_join, then the handle is freed.
JoinAndFree ==
    /\ OwnerAt("closed") /\ Joined
    /\ handle' = "none" /\ set' = FALSE
    /\ GoOwner("finish")
    /\ UNCHANGED <<lockVars, pollVars, xferVars, attached, ctx, kill, listeners,
                   preview, fdVars, lost>>

\* Mutant: mUsbFs is not cleared.
KeepUsbfs == usbfs
ClearUsbfs == FALSE

\* close(mFd) if there is an mUsbFs.
FinishRelease ==
    /\ OwnerAt("finish")
    /\ usbfs' = ClearUsbfs /\ fd' = IF usbfs THEN 0 ELSE fd
    /\ failed' = FALSE
    /\ GoOwner("idle")
    /\ UNCHANGED <<lockVars, pollVars, xferVars, attached, ctx, kill, handle,
                   listeners, set, preview, lost>>

\* The destructor, after release, and a new object for the device.
Destroy ==
    /\ OwnerAt("idle") /\ handle = "none" /\ ~usbfs
    /\ ctx' = FALSE /\ kill' = FALSE
    /\ UNCHANGED <<eventVars, attached, handle, listeners, set, preview, fdVars,
                   lost>>

----------------------------------------------------------------------------
(***************************************************************************)
(* The event thread, and the callbacks, in whichever thread reaps.         *)
(***************************************************************************)
EventLoop ==
    /\ at["event"] = "check"
    /\ Go("event", IF kill THEN "ended" ELSE "try")
    /\ UNCHANGED <<lockVars, pollVars, xferVars, deviceVars>>

\* _uvc_status_callback: an error ends it; a status that was received is passed
\* on if somebody listens, and not if the transfer is only retried.
ReapStatus(t) ==
    /\ Reap(t, "status")
    /\ \/ Go(t, "reap") /\ lost' = TRUE /\ WakeWaiters
       \/ /\ Go(t, "resubmit") \/ (set /\ Go(t, "notify"))
          /\ UNCHANGED <<lost, waiting>>
    /\ UNCHANGED <<holder, active, pollVars, done, attached, cameraVars>>

Notified(t) ==
    /\ at[t] = "notify"
    /\ Go(t, "resubmit")
    /\ UNCHANGED <<lockVars, pollVars, xferVars, deviceVars>>

\* Mutant: the transfer is not submitted again.
NotSubmitted == UNCHANGED flying
SubmitStatus == flying' = flying \union {"status"}

Resubmit(t) ==
    /\ at[t] = "resubmit"
    /\ IF attached THEN SubmitStatus /\ UNCHANGED lost
                   ELSE lost' = TRUE /\ UNCHANGED flying
    /\ WakeWaiters
    /\ Go(t, "reap")
    /\ UNCHANGED <<holder, active, pollVars, ready, done, attached, cameraVars>>

\* The stream's callback, which UvcStream models, submits it again while the
\* preview goes on.
ReapStream(t) ==
    /\ Reap(t, "stream")
    /\ Go(t, "callback")
    /\ UNCHANGED <<lockVars, pollVars, done, deviceVars>>

StreamCalledBack(t) ==
    /\ at[t] = "callback"
    /\ \/ UNCHANGED flying
       \/ /\ attached /\ preview = "streaming"
          /\ flying' = flying \union {"stream"}
    /\ WakeWaiters
    /\ Go(t, "reap")
    /\ UNCHANGED <<holder, active, pollVars, ready, done, deviceVars>>

----------------------------------------------------------------------------
Unplug ==
    /\ attached
    /\ attached' = FALSE
    /\ UNCHANGED <<eventVars, cameraVars, lost>>

\* A device is plugged in again under another descriptor, so for a new connect.
Replug ==
    /\ ~attached /\ handle = "none" /\ OwnerAt("idle")
    /\ attached' = TRUE
    /\ UNCHANGED <<eventVars, cameraVars, lost>>

ThreadRuns(t) ==
    \/ HandleEvents(t) /\ UNCHANGED deviceVars
    \/ ReapStatus(t) \/ Notified(t) \/ Resubmit(t)
    \/ ReapStream(t) \/ StreamCalledBack(t)

Waits(t) == TimesOut(t) /\ UNCHANGED deviceVars

CallerRuns(c) == ThreadRuns(c) \/ (SyncLoop(c) /\ UNCHANGED deviceVars)

Release ==
    \/ Stopped \/ DeleteListeners \/ TellEventThread \/ Close \/ JoinAndFree
    \/ FinishRelease

KernelCompletes(x) == Complete(x) /\ UNCHANGED deviceVars

Application ==
    \/ ConnectFails \/ Connect \/ StartPreview \/ BeginStop \/ Destroy
    \/ \E c \in Callers : Ask(c)

Negotiated == PreviewEnds \/ \E c \in Callers : StartStream(c)

Next ==
    \/ Application \/ Install \/ Negotiated \/ Release
    \/ \E c \in Callers : CallerRuns(c)
    \/ EventLoop \/ ThreadRuns("event")
    \/ \E t \in Threads : Waits(t)
    \/ \E x \in Transfers : KernelCompletes(x)
    \/ Unplug \/ Replug

Spec == Init /\ [][Next]_vars

----------------------------------------------------------------------------
(***************************************************************************)
(* Safety.                                                                 *)
(***************************************************************************)
\* No thread sleeps in libusb_wait_for_event unless another one has the lock, or
\* is about to take it, and will wake it.
WaiterWillBeWoken == waiting # {} => holder # None \/ modify > 0

Deleting == at["owner"] \in {"kill", "modify", "poke", "lock"}

\* A callback runs under the events lock, never for a handle that libusb has
\* closed, and for a callback object that is deleted only while libusb_close
\* has not got the lock yet.
CallbackWhileOpen ==
    \A t \in Threads :
        CalledBack(t) =>
            /\ holder = t /\ handle = "open"
            /\ at[t] = "notify" => listeners \/ Deleting

\* When the handle has been freed nothing is in flight and no thread handles
\* events.
FreedHandleUnused ==
    handle = "none" =>
        /\ flying = {} /\ modify = 0 /\ pipe = 0 /\ holder = None
        /\ at["event"] = "ended"

\* "we need to spawn the event handler thread": there is one while a device is
\* open; unless the context had been used before, and kill_handler_thread with
\* it.
EventThreadRuns == handle = "open" /\ ~kill => at["event"] # "ended"

\* The device's status updates are listened to until an error ends them,
\* through every other result of the transfer.
StatusListened ==
    handle = "open" /\ ~lost =>
        \/ "status" \in flying
        \/ \E t \in Threads : at[t] \in {"notify", "resubmit"}

\* release closes the descriptor that connect made, and no other; unless connect
\* failed after setting mUsbFs, when it closes descriptor 0.
OwnDescriptor == OwnerAt("finish") /\ usbfs => fd = 1 \/ failed

----------------------------------------------------------------------------
(***************************************************************************)
(* The inductive invariant: what the threads' places say of the rest.      *)
(***************************************************************************)
\* Who runs what code.
Places ==
    /\ at["owner"] \in OwnerPoints /\ at["event"] \in EventPoints
    /\ \A c \in Callers \ {"owner"} : at[c] \in CallerPoints

LockPoints == HandlerPoints \union {"drop", "modified", "release"}

HolderHasLock ==
    /\ \A t \in Threads : holder = t <=> at[t] \in LockPoints
    /\ active => holder # None

\* Only libusb_close modifies the descriptors, one at a time.
OneModifier ==
    /\ modify = IF at["owner"] \in {"poke", "lock", "drop", "modified"} THEN 1 ELSE 0
    /\ pipe = IF at["owner"] \in {"lock", "drop"} THEN 1 ELSE 0

WaitersWait == \A t \in waiting : at[t] = "wait"

\* How far uvc_close has come with the handle.
HandleOf ==
    /\ handle = "closed" <=> at["owner"] \in {"modified", "release", "closed"}
    /\ handle = "none" => at["owner"] \in {"idle", "stop", "finish"}
    /\ at["owner"] = "finish" => handle = "none"

\* A preview has a device, and its threads end with it.
PreviewHasDevice ==
    /\ preview \in {"off", "stopping"} => Quiet
    /\ preview # "off" =>
          handle = "open" /\ at["owner"] \in CallerPoints \union {"halt", "stop"}

ClosedIsQuiet ==
    /\ handle # "open" => flying = {} /\ ready = <<>>
    /\ handle = "none" => at["event"] = "ended"

SetIsThere ==
    set => listeners \/ Deleting
               \/ at["owner"] \in {"drop", "modified", "release", "closed"}

UsbfsHasDescriptor == usbfs => fd = 1 \/ failed

ThreadInv ==
    Places /\ HolderHasLock /\ OneModifier /\ WaitersWait /\ WaiterWillBeWoken

\* A finished transfer is still in flight, and finished once.
FinishedOnce ==
    /\ Finished \subseteq flying
    /\ \A i, j \in 1..Len(ready) : ready[i] = ready[j] => i = j

\* A callback has its transfer to itself; the stream's is with nobody when a
\* preview has not submitted it yet; a thread's own is submitted and freed by
\* the call that waits for it.
OneUser ==
    /\ \A t \in Threads :
          /\ at[t] = "callback" => "stream" \notin flying
          /\ at[t] \in {"notify", "resubmit"} => "status" \notin flying
    /\ preview \in {"off", "starting"} => StreamOver
    /\ \A c \in Callers :
          /\ c \in flying \union done => at[c] \in {"loop"} \union HandlePoints
          /\ ~(c \in flying /\ c \in done)

TransferInv == FinishedOnce /\ OneUser

HandleInv ==
    /\ HandleOf /\ PreviewHasDevice /\ ClosedIsQuiet
    /\ SetIsThere /\ CallbackWhileOpen
    /\ EventThreadRuns /\ StatusListened
    /\ UsbfsHasDescriptor

IInv == TypeOK /\ ThreadInv /\ HandleInv /\ TransferInv

----------------------------------------------------------------------------
(***************************************************************************)
(* The transfers: those of a handle that libusb has not closed, and the    *)
(* one whose callback a thread is in.                                      *)
(***************************************************************************)
InCallback ==
    {x \in Async :
        \E t \in Threads :
            at[t] \in IF x = "stream" THEN {"callback"} ELSE {"notify", "resubmit"}}

Libusb == INSTANCE TransferService
    WITH usable <- (handle = "open"), inFlight <- flying, called <- InCallback

\* "Transfers are only removed from the flying_transfer list by
\* usbi_handle_transfer_completion and libusb_close, both of which hold the
\* events_lock": each submission is called back at most once, one at a time, and
\* not after the close; none is submitted, or its memory reused, before that.
ServesTransfers == Libusb!Service

----------------------------------------------------------------------------
(***************************************************************************)
(* Liveness.                                                               *)
(***************************************************************************)
\* The threads run.  The device answers control transfers (those of libuvc have
\* no time-out) or is gone; the kernel completes the stream's, which has one,
\* and all transfers of a device that is gone.  A negotiation makes so many
\* control transfers and no more.  A thread that reaps finds nothing more sooner
\* or later: it is faster than the device, whose finished transfers the loop of
\* op_handle_events would otherwise go on with.  poll and pthread_cond_timedwait
\* need not time out.
Fairness ==
    /\ WF_vars(Install) /\ SF_vars(Negotiated) /\ WF_vars(Release)
    /\ WF_vars(EventLoop) /\ WF_vars(ThreadRuns("event"))
    /\ \A c \in Callers : WF_vars(CallerRuns(c))
    /\ \A t \in Threads : []<>~Reaping(t)
    /\ \A x \in Transfers \ {"status"} : WF_vars(KernelCompletes(x))
    /\ WF_vars(~attached /\ KernelCompletes("status"))

FairSpec == Spec /\ Fairness

\* The same with the time-outs.
PatientSpec == FairSpec /\ \A t \in Threads : WF_vars(Waits(t))

\* A control transfer returns, and needs no time-out of poll or of the waiters:
\* whoever reaps it wakes the thread that made it.
CallReturns == \A c \in Callers : at[c] = "loop" ~> at[c] = "idle"

\* The thread of this session ended at once, the stream has nobody to reap it.
Deserted == kill /\ preview = "stopping" /\ "stream" \in flying

\* The event thread tested the flag too early and polls for nothing.
Missed == OwnerAt("closed") /\ at["event"] = "poll"

\* stopPreview and release return; unless the context had been used before, or
\* the event thread missed the interruption and sleeps in poll until it times
\* out.
ReleaseReturns == Stopping ~> OwnerAt("idle") \/ Deserted \/ Missed

\* uvc_close "ends any stream that's in progress", and release comes to an end.
\* The code breaks it when the camera object is used a second time.
CloseEndsStream == Stopping ~> OwnerAt("idle")

=============================================================================
