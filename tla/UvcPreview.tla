----------------------------- MODULE UvcPreview -----------------------------
(***************************************************************************)
(* The preview engine, UVCPreview (jni/UVCCamera/UVCPreview.cpp).          *)
(*                                                                         *)
(* Five threads: the control thread in startPreview and stopPreview, a     *)
(* second Java thread (the setter) in setCaptureDisplay and                *)
(* setFrameCallback, which UVCCamera.java does not synchronize with the    *)
(* first, libuvc's callback thread, the preview thread and the capture     *)
(* thread.  libuvc is the StreamSession contract.                          *)
(*                                                                         *)
(* A critical section that neither waits nor makes another thread's        *)
(* unlocked read matter in the middle is one step.  mIsRunning,            *)
(* mIsCapturing and mCaptureWindow are read without a lock: each read is a *)
(* step of its own.  Frames are the numbers of the camera's frames, and    *)
(* the memory they take is counted.                                        *)
(***************************************************************************)
EXTENDS Naturals, Sequences, FiniteSets

CONSTANTS
    MaxFrame,        \* MAX_FRAME, the length of previewFrames
    PoolSize,        \* FRAME_POOL_SZ
    Modes,           \* whether the camera sends MJPEG: the values of frameMode
    CaptureThreads,  \* bound: capture threads alive at the same time
    Windows,         \* Surfaces handed to setCaptureDisplay
    Callbacks,       \* objects handed to setFrameCallback
    MaxSeq           \* bound: frames the camera sends in one session

None == "none"
Setter == "setter"

ASSUME PreviewConstants ==
    /\ MaxFrame \in Nat \ {0} /\ PoolSize \in Nat /\ MaxSeq \in Nat
    /\ Modes # {} /\ Modes \subseteq BOOLEAN
    /\ IsFiniteSet(CaptureThreads) /\ Setter \notin CaptureThreads
    /\ None \notin CaptureThreads \union Windows \union Callbacks

VARIABLES
    ctl,           \* the control thread
    running,       \* mIsRunning
    pwin,          \* mPreviewWindow is set
    handle,        \* the thread that capture_thread names, until it is joined
    phase, last,   \* the session of libuvc
    sent,          \* frames the camera sent in the session
    cb,            \* the callback thread inside uvc_preview_frame_callback
    pool, alloc,   \* size of mFramePool; frames allocated and not freed
    frames,        \* previewFrames
    pp, pf, mjpeg, \* the preview thread, the frame it holds, frameMode
    slot,          \* captureQueu
    capturing,     \* mIsCapturing
    cap, cf,       \* per capture thread: where it is, the frame it holds
    surf, conv,    \* in do_capture_surface; it holds its converted frame
    using,         \* the callback object whose onFrame it is calling
    cwin, fcb,     \* mCaptureWindow, mFrameCallbackObj
    set, arg,      \* the setter and what it sets
    dead,          \* windows whose reference was given back
    broken,        \* ghost: a window was used or given back after that
    changed,       \* ghost: the setter replaced something while previewing
    early          \* ghost: stopPreview did not find the capture thread yet

ctlVars == <<ctl, pwin, handle, early>>
sessionVars == <<phase, last, sent, cb>>
poolVars == <<pool, alloc>>
previewVars == <<pp, pf, mjpeg>>
captureVars == <<cap, cf, surf, conv, using>>
setterVars == <<set, arg, fcb, changed>>
windowVars == <<cwin, dead, broken>>
vars == <<ctlVars, running, sessionVars, poolVars, frames, previewVars, slot,
          capturing, captureVars, setterVars, windowVars>>

Session == INSTANCE StreamSession WITH busy <- (cb # "none")

----------------------------------------------------------------------------
Seqs == 1..MaxSeq

ControlType ==
    /\ ctl \in {"idle", "create", "signalP", "signalC", "joinC", "joinP",
                "display", "clearP", "clearC", "release"}
    /\ running \in BOOLEAN /\ pwin \in BOOLEAN /\ early \in BOOLEAN
    /\ handle \in CaptureThreads \union {None}

SessionType ==
    /\ phase \in {"closed", "streaming", "stopping"} /\ last \in BOOLEAN
    /\ sent \in 0..MaxSeq
    /\ cb \in {"none", "check", "add", "drop"}

PoolType == pool \in 0..PoolSize /\ alloc \in Nat

PreviewPoints ==
    {"none", "prepare", "start", "clear", "create", "test", "take", "asleep",
     "woken", "have", "drop", "draw", "give", "signal", "stop", "close", "exit"}

PreviewType ==
    /\ frames \in Seq(Seqs) /\ Len(frames) <= MaxFrame
    /\ pp \in PreviewPoints
    /\ pf \in 0..MaxSeq /\ mjpeg \in Modes

CapturePoints ==
    {"none", "clear", "loop", "arm", "choose", "test", "take", "asleep",
     "woken", "surface", "copy", "post", "callback", "call", "onFrame", "end",
     "null", "wake", "done"}

CaptureType ==
    /\ slot \in 0..MaxSeq /\ capturing \in BOOLEAN
    /\ cap \in [CaptureThreads -> CapturePoints]
    /\ cf \in [CaptureThreads -> 0..MaxSeq]
    /\ surf \in [CaptureThreads -> BOOLEAN]
    /\ conv \in [CaptureThreads -> BOOLEAN]
    /\ using \in [CaptureThreads -> Callbacks \union {None}]

\* What setCaptureDisplay and setFrameCallback are called with.
Requests ==
    [kind : {"window"}, value : Windows \union {None}] \union
    [kind : {"callback"}, value : Callbacks \union {None}]

SetterType ==
    /\ cwin \in Windows \union {None} /\ fcb \in Callbacks \union {None}
    /\ set \in {"idle", "wait", "asleep", "woken", "assign"} /\ arg \in Requests
    /\ dead \subseteq Windows
    /\ broken \in BOOLEAN /\ changed \in BOOLEAN

TypeOK ==
    /\ ControlType /\ SessionType /\ PoolType /\ PreviewType
    /\ CaptureType /\ SetterType

NoRequest == [kind |-> "window", value |-> None]

Init ==
    /\ ctl = "idle" /\ running = FALSE /\ pwin = FALSE /\ handle = None
    /\ cb = "none" /\ Session!SessionInit /\ sent = 0
    /\ pool = 0 /\ alloc = 0 /\ frames = <<>>
    /\ pp = "none" /\ pf = 0 /\ mjpeg \in Modes
    /\ slot = 0 /\ capturing = FALSE
    /\ cap = [c \in CaptureThreads |-> "none"]
    /\ cf = [c \in CaptureThreads |-> 0]
    /\ surf = [c \in CaptureThreads |-> FALSE]
    /\ conv = [c \in CaptureThreads |-> FALSE]
    /\ using = [c \in CaptureThreads |-> None]
    /\ cwin = None /\ fcb = None
    /\ set = "idle" /\ arg = NoRequest
    /\ dead = {} /\ broken = FALSE /\ changed = FALSE /\ early = FALSE

\* A thread reaches a point of its code; none does after a use of a window
\* that was given back, where what happens is undefined.
CtlAt(point) == ctl = point /\ ~broken
PreviewAt(point) == pp = point /\ ~broken
CallbackAt(point) == cb = point /\ ~broken
CaptureAt(c, point) == cap[c] = point /\ ~broken

\* Only the setter keeps capture_mutex over several steps.
CaptureMutexFree == set \notin {"wait", "assign"}

----------------------------------------------------------------------------
(***************************************************************************)
(* The frame pool and the condition variables.                             *)
(***************************************************************************)
\* get_frame: from the pool, or newly allocated.
GetFrame ==
    IF pool > 0
    THEN pool' = pool - 1 /\ UNCHANGED alloc
    ELSE alloc' = alloc + 1 /\ UNCHANGED pool

\* recycle_frame, n times: into the pool while it has room, otherwise freed.
Recycle(n) ==
    LET room == PoolSize - pool
        freed == IF n > room THEN n - room ELSE 0
    IN  pool' = (pool + n) - freed /\ alloc' = alloc - freed

\* get_frame followed by recycle_frame, of that frame or another: in the end
\* only the pool may have grown.
Borrow ==
    IF pool = 0 /\ PoolSize > 0
    THEN pool' = 1 /\ alloc' = alloc + 1
    ELSE UNCHANGED poolVars

One(f) == IF f = 0 THEN 0 ELSE 1

\* pthread_cond_signal(&preview_sync): only the preview thread waits on it.
WakePreview == pp' = IF pp = "asleep" THEN "woken" ELSE pp

\* The waiters on capture_sync: the capture threads and the setter.
Waiters ==
    {c \in CaptureThreads : cap[c] = "asleep"} \union
        (IF set = "asleep" THEN {Setter} ELSE {})

Woken(W) == [c \in CaptureThreads |-> IF c \in W THEN "woken" ELSE cap[c]]
Wake(W) ==
    /\ cap' = Woken(W)
    /\ set' = IF Setter \in W THEN "woken" ELSE set

Signal == IF Waiters = {} THEN Wake({}) ELSE \E w \in Waiters : Wake({w})
Broadcast == Wake(Waiters)

\* ANativeWindow_release of a reference that was already given back, or a use
\* of such a window, breaks the program.
GiveBack(w) ==
    /\ dead' = dead \union {w}
    /\ broken' = (w \in dead)

----------------------------------------------------------------------------
(***************************************************************************)
(* The control thread (UVCCamera's synchronized methods).                  *)
(***************************************************************************)
SetPreviewDisplay ==
    /\ CtlAt("idle")
    /\ pwin' = ~pwin
    /\ UNCHANGED <<ctl, handle, early, running, sessionVars, poolVars, frames,
                   previewVars, slot, capturing, captureVars, setterVars,
                   windowVars>>

StartPreview ==
    /\ CtlAt("idle") /\ ~running
    /\ running' = TRUE
    /\ ctl' = "create"
    /\ UNCHANGED <<pwin, handle, early, sessionVars, poolVars, frames,
                   previewVars, slot, capturing, captureVars, setterVars,
                   windowVars>>

\* The preview thread is created if there is a window; without one, or when
\* pthread_create fails, mIsRunning goes back to false.
CreatePreview ==
    /\ CtlAt("create")
    /\ \/ pwin /\ pp' = "prepare" /\ UNCHANGED running
       \/ running' = FALSE /\ WakePreview
    /\ ctl' = "idle"
    /\ UNCHANGED <<pwin, handle, early, sessionVars, poolVars, frames, pf,
                   mjpeg, slot, capturing, captureVars, setterVars, windowVars>>

StopPreview ==
    /\ CtlAt("idle")
    /\ running' = FALSE
    /\ ctl' = IF running THEN "signalP" ELSE "clearP"
    /\ UNCHANGED <<pwin, handle, early, sessionVars, poolVars, frames,
                   previewVars, slot, capturing, captureVars, setterVars,
                   windowVars>>

\* Mutant: capture_sync is signalled twice, preview_sync never.
SignalWrongCondition ==
    /\ CtlAt("signalP")
    /\ Signal
    /\ ctl' = "signalC"
    /\ UNCHANGED <<pwin, handle, early, running, sessionVars, poolVars, frames,
                   previewVars, slot, capturing, cf, surf, conv, using, arg,
                   fcb, changed, windowVars>>

\* The two signals are sent without the mutexes of their conditions.
SignalPreview ==
    /\ CtlAt("signalP")
    /\ WakePreview
    /\ ctl' = "signalC"
    /\ UNCHANGED <<pwin, handle, early, running, sessionVars, poolVars, frames,
                   pf, mjpeg, slot, capturing, captureVars, setterVars,
                   windowVars>>

SignalCapture ==
    /\ CtlAt("signalC")
    /\ Signal
    /\ ctl' = "joinC"
    /\ UNCHANGED <<pwin, handle, early, running, sessionVars, poolVars, frames,
                   previewVars, slot, capturing, cf, surf, conv, using, arg,
                   fcb, changed, windowVars>>

\* Mutant: the capture thread is not waited for.
CaptureThreadExists == cap[handle] # "none"
CaptureThreadEnded == cap[handle] = "done"

\* pthread_join(capture_thread), before the preview thread is joined: it fails
\* at once when the preview thread has not created the capture thread yet.
JoinCapture ==
    /\ CtlAt("joinC")
    /\ \/ /\ handle = None /\ UNCHANGED <<handle, cap>>
          /\ early' = (early \/ pp \in {"prepare", "start", "clear", "create"})
       \/ /\ handle # None /\ CaptureThreadEnded /\ UNCHANGED early
          /\ cap' = [cap EXCEPT ![handle] = "none"]
          /\ handle' = None
    /\ ctl' = "joinP"
    /\ UNCHANGED <<pwin, running, sessionVars, poolVars, frames, previewVars,
                   slot, capturing, cf, surf, conv, using, setterVars,
                   windowVars>>

JoinPreview ==
    /\ CtlAt("joinP") /\ pp = "exit"
    /\ pp' = "none"
    /\ ctl' = "display"
    /\ UNCHANGED <<pwin, handle, early, running, sessionVars, poolVars, frames,
                   pf, mjpeg, slot, capturing, captureVars, setterVars,
                   windowVars>>

\* clearDisplay blanks the two windows.
ClearDisplay ==
    /\ CtlAt("display") /\ CaptureMutexFree
    /\ broken' = (cwin \in dead)
    /\ ctl' = "clearP"
    /\ UNCHANGED <<pwin, handle, early, running, sessionVars, poolVars, frames,
                   previewVars, slot, capturing, captureVars, setterVars, cwin,
                   dead>>

ClearPreviewFrame ==
    /\ Recycle(Len(frames))
    /\ frames' = <<>>

ClearCaptureFrame ==
    /\ CaptureMutexFree
    /\ Recycle(One(slot))
    /\ slot' = 0

ClearPreview ==
    /\ CtlAt("clearP")
    /\ ClearPreviewFrame
    /\ ctl' = "clearC"
    /\ UNCHANGED <<pwin, handle, early, running, sessionVars, previewVars, slot,
                   capturing, captureVars, setterVars, windowVars>>

ClearCapture ==
    /\ CtlAt("clearC")
    /\ ClearCaptureFrame
    /\ ctl' = "release"
    /\ UNCHANGED <<pwin, handle, early, running, sessionVars, frames,
                   previewVars, capturing, captureVars, setterVars, windowVars>>

\* Both windows are given back.
ReleaseWindows ==
    /\ CtlAt("release") /\ CaptureMutexFree
    /\ pwin' = FALSE
    /\ IF cwin = None
       THEN UNCHANGED windowVars
       ELSE GiveBack(cwin) /\ cwin' = None
    /\ ctl' = "idle"
    /\ UNCHANGED <<handle, early, running, sessionVars, poolVars, frames,
                   previewVars, slot, capturing, captureVars, setterVars>>

----------------------------------------------------------------------------
(***************************************************************************)
(* libuvc's callback thread: uvc_preview_frame_callback.                   *)
(***************************************************************************)
CallbackBegins ==
    /\ ~broken /\ sent < MaxSeq
    /\ cb' = "check"
    /\ Session!Deliver
    /\ sent' = sent + 1
    /\ UNCHANGED <<ctlVars, running, poolVars, frames, previewVars, slot,
                   capturing, captureVars, setterVars, windowVars>>

CallbackReturns == cb' = "none" /\ Session!Return

\* While running, a frame of the right size is copied into a frame of the pool;
\* the copy may fail.
CheckFrame ==
    /\ CallbackAt("check")
    /\ \/ CallbackReturns /\ UNCHANGED poolVars    \* not running, or broken
       \/ running /\ GetFrame /\ cb' \in {"add", "drop"}
          /\ UNCHANGED <<phase, last>>
    /\ UNCHANGED <<ctlVars, running, sent, frames, previewVars, slot, capturing,
                   captureVars, setterVars, windowVars>>

\* Mutant: one frame too many.
QueueHasRoomAtLimit == Len(frames) <= MaxFrame
QueueHasRoom == Len(frames) < MaxFrame

AddPreviewFrame ==
    /\ CallbackAt("add")
    /\ IF running /\ QueueHasRoom
       THEN /\ frames' = Append(frames, sent)
            /\ WakePreview
            /\ CallbackReturns
       ELSE cb' = "drop" /\ UNCHANGED <<frames, pp, phase, last>>
    /\ UNCHANGED <<ctlVars, running, sent, poolVars, pf, mjpeg, slot, capturing,
                   captureVars, setterVars, windowVars>>

DropFrame ==
    /\ CallbackAt("drop")
    /\ Recycle(1)
    /\ CallbackReturns
    /\ UNCHANGED <<ctlVars, running, sent, frames, previewVars, slot, capturing,
                   captureVars, setterVars, windowVars>>

\* The device is lost, or the pending call of the stopping session is given up.
SessionChanges ==
    /\ ~broken /\ UNCHANGED cb
    /\ Session!Forgo \/ Session!Stop
    /\ UNCHANGED <<ctlVars, running, sent, poolVars, frames, previewVars, slot,
                   capturing, captureVars, setterVars, windowVars>>

----------------------------------------------------------------------------
(***************************************************************************)
(* The preview thread: preview_thread_func and do_preview.                 *)
(***************************************************************************)
Prepare ==
    /\ PreviewAt("prepare")
    /\ pp' \in {"start", "exit"}
    /\ UNCHANGED <<ctlVars, running, sessionVars, poolVars, frames, pf, mjpeg,
                   slot, capturing, captureVars, setterVars, windowVars>>

StartStreaming ==
    /\ PreviewAt("start") /\ UNCHANGED cb
    /\ \/ Session!Begin /\ sent' = 0 /\ pp' = "clear"
       \/ pp' = "exit" /\ UNCHANGED <<phase, last, sent>>
    /\ UNCHANGED <<ctlVars, running, poolVars, frames, pf, mjpeg, slot,
                   capturing, captureVars, setterVars, windowVars>>

ClearStale ==
    /\ PreviewAt("clear")
    /\ ClearPreviewFrame
    /\ pp' = "create"
    /\ UNCHANGED <<ctlVars, running, sessionVars, pf, mjpeg, slot, capturing,
                   captureVars, setterVars, windowVars>>

\* A thread that ended without being joined is replaced like one that was.
CreateCapture(c) ==
    /\ PreviewAt("create") /\ cap[c] \in {"none", "done"}
    /\ cap' = [cap EXCEPT ![c] = "clear"]
    /\ handle' = c
    /\ pp' = "test"
    /\ UNCHANGED <<ctl, pwin, early, running, sessionVars, poolVars, frames, pf,
                   mjpeg, slot, capturing, cf, surf, conv, using, setterVars,
                   windowVars>>

PreviewLoop ==
    /\ PreviewAt("test")
    /\ pp' = IF running THEN "take" ELSE "signal"
    /\ UNCHANGED <<ctlVars, running, sessionVars, poolVars, frames, pf, mjpeg,
                   slot, capturing, captureVars, setterVars, windowVars>>

\* previewFrames.remove(0).  Mutant: the newest frame first.
RemoveLast ==
    /\ pf' = frames[Len(frames)]
    /\ frames' = SubSeq(frames, 1, Len(frames) - 1)
RemoveFirst == pf' = Head(frames) /\ frames' = Tail(frames)

\* The rest of waitPreviewFrame, asleep or not before.
TakePreviewFrame ==
    IF running /\ frames # <<>>
    THEN RemoveFirst /\ pp' = "have"
    ELSE pp' = "test" /\ UNCHANGED <<pf, frames>>

\* waitPreviewFrame sleeps when the queue is empty, whether or not the preview
\* is still running.
WaitPreviewFrame ==
    /\ \/ /\ PreviewAt("take")
          /\ IF frames = <<>>
             THEN pp' = "asleep" /\ UNCHANGED <<pf, frames>>
             ELSE TakePreviewFrame
       \/ PreviewAt("woken") /\ TakePreviewFrame
    /\ UNCHANGED <<ctlVars, running, sessionVars, poolVars, mjpeg, slot,
                   capturing, captureVars, setterVars, windowVars>>

\* An MJPEG frame is decoded into a second frame and recycled; when the decoder
\* fails so is the second.
Decode ==
    /\ \/ PreviewAt("have") /\ mjpeg /\ Borrow /\ pp' \in {"draw", "drop"}
          /\ UNCHANGED pf
       \/ PreviewAt("have") /\ ~mjpeg /\ pp' = "draw"
          /\ UNCHANGED <<pf, poolVars>>
       \/ PreviewAt("drop") /\ Recycle(1) /\ pp' = "test" /\ pf' = 0
    /\ UNCHANGED <<ctlVars, running, sessionVars, frames, mjpeg, slot,
                   capturing, captureVars, setterVars, windowVars>>

\* draw_preview_one: with a window (looked at again under preview_mutex for the
\* copy) the frame is converted into another one, which is recycled.
Draw ==
    /\ PreviewAt("draw")
    /\ IF pwin THEN Borrow ELSE UNCHANGED poolVars
    /\ pp' = "give"
    /\ UNCHANGED <<ctlVars, running, sessionVars, frames, pf, mjpeg, slot,
                   capturing, captureVars, setterVars, windowVars>>

\* A frame that comes when the preview no longer runs.  Mutant: it leaks.
RejectLeaks == UNCHANGED poolVars
Reject == Recycle(1)

\* The slot keeps only the latest frame.
AddCaptureFrame ==
    /\ PreviewAt("give") /\ CaptureMutexFree
    /\ IF running
       THEN Recycle(One(slot)) /\ slot' = pf /\ Broadcast
       ELSE Reject /\ UNCHANGED <<slot, cap, set>>
    /\ pf' = 0
    /\ pp' = "test"
    /\ UNCHANGED <<ctlVars, running, sessionVars, frames, mjpeg, capturing, cf,
                   surf, conv, using, arg, fcb, changed, windowVars>>

PreviewEnds ==
    /\ PreviewAt("signal")
    /\ Signal
    /\ pp' = "stop"
    /\ UNCHANGED <<ctlVars, running, sessionVars, poolVars, frames, pf, mjpeg,
                   slot, capturing, cf, surf, conv, using, arg, fcb, changed,
                   windowVars>>

\* uvc_stop_streaming returns when the session is closed.
StopStreaming ==
    /\ UNCHANGED cb
    /\ \/ PreviewAt("stop") /\ Session!Stop /\ pp' = "close"
       \/ /\ PreviewAt("stop") /\ phase = "stopping"    \* the device was lost
          /\ pp' = "close" /\ UNCHANGED <<phase, last>>
       \/ PreviewAt("close") /\ Session!End /\ pp' = "exit"
    /\ sent' = IF phase' = "closed" THEN 0 ELSE sent
    /\ UNCHANGED <<ctlVars, running, poolVars, frames, pf, mjpeg, slot,
                   capturing, captureVars, setterVars, windowVars>>

----------------------------------------------------------------------------
(***************************************************************************)
(* The capture thread: do_capture and what it calls.                       *)
(***************************************************************************)
Goto(c, point) == cap' = [cap EXCEPT ![c] = point]

CaptureClears(c) ==
    /\ CaptureAt(c, "clear")
    /\ ClearCaptureFrame
    /\ Goto(c, "loop")
    /\ UNCHANGED <<ctlVars, running, sessionVars, frames, previewVars,
                   capturing, cf, surf, conv, using, setterVars, windowVars>>

\* The loop of do_capture: arm, then one of the two inner loops by whether
\* there is a capture window.
CaptureLoop(c) ==
    /\ \/ CaptureAt(c, "loop") /\ Goto(c, IF running THEN "arm" ELSE "done")
          /\ UNCHANGED <<capturing, surf>>
       \/ CaptureAt(c, "arm") /\ capturing' = TRUE /\ Goto(c, "choose")
          /\ UNCHANGED surf
       \/ CaptureAt(c, "choose") /\ surf' = [surf EXCEPT ![c] = cwin # None]
          /\ Goto(c, "test") /\ UNCHANGED capturing
    /\ UNCHANGED <<ctlVars, running, sessionVars, poolVars, frames, previewVars,
                   slot, cf, conv, using, setterVars, windowVars>>

\* for (; isRunning() && isCapturing();)
CaptureTest(c) ==
    /\ CaptureAt(c, "test")
    /\ Goto(c, IF running /\ capturing THEN "take"
               ELSE IF surf[c] THEN "end" ELSE "wake")
    /\ UNCHANGED <<ctlVars, running, sessionVars, poolVars, frames, previewVars,
                   slot, capturing, cf, surf, conv, using, setterVars,
                   windowVars>>

TakeCaptureFrame(c) ==
    IF running /\ slot # 0
    THEN /\ cf' = [cf EXCEPT ![c] = slot] /\ slot' = 0
         /\ Goto(c, IF surf[c] THEN "surface" ELSE "callback")
    ELSE Goto(c, "test") /\ UNCHANGED <<cf, slot>>

\* waitCaptureFrame sleeps when the slot is empty, running or not.
WaitCaptureFrame(c) ==
    /\ CaptureMutexFree
    /\ \/ /\ CaptureAt(c, "take")
          /\ IF slot = 0
             THEN Goto(c, "asleep") /\ UNCHANGED <<cf, slot>>
             ELSE TakeCaptureFrame(c)
       \/ CaptureAt(c, "woken") /\ TakeCaptureFrame(c)
    /\ UNCHANGED <<ctlVars, running, sessionVars, poolVars, frames, previewVars,
                   capturing, surf, conv, using, setterVars, windowVars>>

\* do_capture_surface: while capturing the frame is converted (into a frame kept
\* for the loop) and copied to the capture window, without capture_mutex.
ConvertForSurface(c) ==
    /\ CaptureAt(c, "surface")
    /\ IF capturing
       THEN /\ IF conv[c] THEN UNCHANGED poolVars ELSE GetFrame
            /\ conv' = [conv EXCEPT ![c] = TRUE]
            /\ Goto(c, "copy")
       ELSE Goto(c, "callback") /\ UNCHANGED <<poolVars, conv>>
    /\ UNCHANGED <<ctlVars, running, sessionVars, frames, previewVars, slot,
                   capturing, cf, surf, using, setterVars, windowVars>>

\* copyToSurface reads *window again and again: to lock it, to unlock and post.
CopyToSurface(c) ==
    /\ \/ CaptureAt(c, "copy") /\ cwin = None /\ Goto(c, "callback")
          /\ UNCHANGED broken
       \/ CaptureAt(c, "copy") /\ cwin # None /\ Goto(c, "post")
          /\ broken' = (cwin \in dead)
       \/ CaptureAt(c, "post") /\ Goto(c, "callback")
          /\ broken' = (cwin \in dead \union {None})
    /\ UNCHANGED <<ctlVars, running, sessionVars, poolVars, frames, previewVars,
                   slot, capturing, cf, surf, conv, using, setterVars, cwin,
                   dead>>

\* The setter has deleted the reference but not yet replaced the object.
CallbackDeleted == set = "assign" /\ arg.kind = "callback"

\* Each frame taken is recycled in the end.
RecycleCaptured(c) ==
    /\ Recycle(1)
    /\ cf' = [cf EXCEPT ![c] = 0]
    /\ Goto(c, "test")

\* do_capture_callback: perhaps converted first (the frame itself is recycled,
\* in the end the converted one), then onFrame of the callback object, without
\* capture_mutex.  There is no call without an object, when the conversion fails
\* or when the object has no onFrame.
CallbackConverts(c) ==
    /\ CaptureAt(c, "callback")
    /\ \/ RecycleCaptured(c)
       \/ fcb # None /\ (Borrow \/ UNCHANGED poolVars) /\ Goto(c, "call")
          /\ UNCHANGED cf
    /\ UNCHANGED <<ctlVars, running, sessionVars, frames, previewVars, slot,
                   capturing, surf, conv, using, setterVars, windowVars>>

CallOnFrame(c) ==
    /\ \/ CaptureAt(c, "call") /\ ~(fcb = None \/ CallbackDeleted)
          /\ Goto(c, "onFrame")
          /\ UNCHANGED <<poolVars, cf, using, broken>>
       \/ CaptureAt(c, "call")
          /\ RecycleCaptured(c) /\ UNCHANGED <<using, broken>>
       \/ CaptureAt(c, "onFrame") /\ using[c] = None
          /\ using' = [using EXCEPT ![c] = fcb]
          /\ broken' = (fcb = None \/ CallbackDeleted)
          /\ UNCHANGED <<poolVars, cf, cap>>
       \/ CaptureAt(c, "onFrame") /\ using[c] # None
          /\ using' = [using EXCEPT ![c] = None]
          /\ RecycleCaptured(c) /\ UNCHANGED broken
    /\ UNCHANGED <<ctlVars, running, sessionVars, frames, previewVars, slot,
                   capturing, surf, conv, setterVars, cwin, dead>>

\* Mutants: the frame kept for conversions leaks; mCaptureWindow is not cleared.
ConvertedLeaks(c) ==
    UNCHANGED poolVars /\ conv' = [conv EXCEPT ![c] = FALSE]
WindowStays == UNCHANGED cwin

RecycleConverted(c) ==
    /\ Recycle(IF conv[c] THEN 1 ELSE 0)
    /\ conv' = [conv EXCEPT ![c] = FALSE]
ClearWindow == cwin' = None

\* The end of do_capture_surface: the window is given back and mCaptureWindow
\* cleared without capture_mutex.
SurfaceEnds(c) ==
    /\ \/ /\ CaptureAt(c, "end")
          /\ RecycleConverted(c)
          /\ UNCHANGED cwin
          /\ IF cwin = None
             THEN Goto(c, "wake") /\ UNCHANGED <<dead, broken>>
             ELSE Goto(c, "null") /\ GiveBack(cwin)
       \/ CaptureAt(c, "null") /\ Goto(c, "wake") /\ ClearWindow
          /\ UNCHANGED <<poolVars, conv, dead, broken>>
    /\ UNCHANGED <<ctlVars, running, sessionVars, frames, previewVars, slot,
                   capturing, cf, surf, using, setterVars>>

\* The end of either inner loop.
CaptureWakes(c) ==
    /\ CaptureAt(c, "wake")
    /\ cap' = [Woken(Waiters) EXCEPT ![c] = "loop"]
    /\ surf' = [surf EXCEPT ![c] = FALSE]
    /\ set' = IF set = "asleep" THEN "woken" ELSE set
    /\ UNCHANGED <<ctlVars, running, sessionVars, poolVars, frames, previewVars,
                   slot, capturing, cf, conv, using, arg, fcb, changed, windowVars>>

----------------------------------------------------------------------------
(***************************************************************************)
(* The setter: setCaptureDisplay and setFrameCallback.                     *)
(***************************************************************************)
Current(kind) == IF kind = "window" THEN cwin ELSE fcb

\* With capture_mutex held: the old reference is given back, then replaced.
Replace(req) ==
    IF Current(req.kind) = req.value
    THEN set' = "idle" /\ arg' = NoRequest /\ UNCHANGED <<dead, broken>>
    ELSE /\ set' = "assign" /\ arg' = req
         /\ IF req.kind = "window" /\ cwin # None
            THEN GiveBack(cwin)
            ELSE UNCHANGED <<dead, broken>>

\* While capturing the setter clears mIsCapturing and, if there is something to
\* replace, is about to signal and to wait once for capture_sync.
SetterEnters(req) ==
    /\ set = "idle" /\ ~broken
    /\ LET replaces == Current(req.kind) # req.value
           previewing == running \/ ctl # "idle"
       IN  changed' = (changed \/ (replaces /\ previewing))
    /\ IF running /\ capturing
       THEN /\ capturing' = FALSE
            /\ IF Current(req.kind) # None
               THEN set' = "wait" /\ arg' = req /\ UNCHANGED <<dead, broken>>
               ELSE Replace(req)
       ELSE Replace(req) /\ UNCHANGED capturing
    /\ UNCHANGED <<ctlVars, running, sessionVars, poolVars, frames, previewVars,
                   slot, cap, cf, surf, conv, using, fcb, cwin>>

\* It signals one waiter and goes to sleep, with capture_mutex: no thread goes
\* to sleep between the two.  A broadcast by a thread without the mutex that
\* came before this step has not woken it.
SetterWaits ==
    /\ set = "wait" /\ ~broken
    /\ set' = "asleep"
    /\ \/ Waiters = {} /\ UNCHANGED cap
       \/ \E w \in Waiters : cap' = Woken({w})
    /\ UNCHANGED <<ctlVars, running, sessionVars, poolVars, frames, previewVars,
                   slot, capturing, cf, surf, conv, using, arg, fcb, changed,
                   windowVars>>

SetterWakes ==
    /\ set = "woken" /\ ~broken
    /\ Replace(arg)
    /\ UNCHANGED <<ctlVars, running, sessionVars, poolVars, frames, previewVars,
                   slot, capturing, captureVars, fcb, changed, cwin>>

SetterAssigns ==
    /\ set = "assign" /\ ~broken
    /\ set' = "idle" /\ arg' = NoRequest
    /\ IF arg.kind = "window"
       THEN cwin' = arg.value /\ dead' = dead \ {arg.value} /\ UNCHANGED fcb
       ELSE fcb' = arg.value /\ UNCHANGED <<cwin, dead>>
    /\ UNCHANGED <<ctlVars, running, sessionVars, poolVars, frames, previewVars,
                   slot, capturing, captureVars, changed, broken>>

----------------------------------------------------------------------------
Control ==
    \/ SetPreviewDisplay \/ StartPreview \/ CreatePreview \/ StopPreview
    \/ SignalPreview \/ SignalCapture \/ JoinCapture \/ JoinPreview
    \/ ClearDisplay \/ ClearPreview \/ ClearCapture \/ ReleaseWindows

Callback ==
    \/ CallbackBegins \/ CheckFrame \/ AddPreviewFrame \/ DropFrame

Preview ==
    \/ Prepare \/ StartStreaming \/ ClearStale \/ PreviewLoop
    \/ WaitPreviewFrame \/ Decode \/ Draw \/ AddCaptureFrame \/ PreviewEnds
    \/ StopStreaming
    \/ \E c \in CaptureThreads : CreateCapture(c)

Capture(c) ==
    \/ CaptureClears(c) \/ CaptureLoop(c) \/ CaptureTest(c)
    \/ WaitCaptureFrame(c) \/ ConvertForSurface(c) \/ CopyToSurface(c)
    \/ CallbackConverts(c) \/ CallOnFrame(c)
    \/ SurfaceEnds(c) \/ CaptureWakes(c)

SetterRuns == SetterWaits \/ SetterWakes \/ SetterAssigns

Next ==
    \/ Control \/ Callback \/ SessionChanges \/ Preview \/ SetterRuns
    \/ \E c \in CaptureThreads : Capture(c)
    \/ \E req \in Requests : SetterEnters(req)

Spec == Init /\ [][Next]_vars

\* Every thread that can run does, and gets a mutex it waits for; libuvc ends a
\* session that is stopping (UvcStream!StopReturns).  Nothing makes the camera
\* send a frame, or the application call anything.
ControlRuns ==
    \/ CreatePreview \/ SignalPreview \/ SignalCapture \/ JoinCapture
    \/ JoinPreview \/ ClearDisplay \/ ClearPreview \/ ClearCapture
    \/ ReleaseWindows

CallbackRuns == CheckFrame \/ AddPreviewFrame \/ DropFrame

Fairness ==
    /\ SF_vars(ControlRuns)
    /\ WF_vars(CallbackRuns)
    /\ WF_vars(SessionChanges /\ last /\ ~last')
    /\ SF_vars(Preview)
    /\ \A c \in CaptureThreads : SF_vars(Capture(c))
    /\ WF_vars(SetterRuns)

FairSpec == Spec /\ Fairness

----------------------------------------------------------------------------
(***************************************************************************)
(* Safety.                                                                 *)
(***************************************************************************)
HeldByCallback == IF cb \in {"add", "drop"} THEN 1 ELSE 0

HeldByCapture ==
    Cardinality({c \in CaptureThreads : cf[c] # 0}) +
    Cardinality({c \in CaptureThreads : conv[c]})

\* Every allocated frame is in the pool, in the queue, in the slot or held by
\* one thread: no path through the three threads leaks a frame or recycles it
\* twice.
NoFrameLost ==
    alloc = pool + Len(frames) + One(slot)
                 + HeldByCallback + One(pf) + HeldByCapture

\* When stopPreview has returned the stream is closed, the preview thread is
\* gone and no frame is anywhere but in the pool; unless some stopPreview came
\* before the capture thread was created, and left it behind.
StoppedHoldsNothing ==
    ctl = "idle" /\ ~running /\ ~early =>
        /\ phase = "closed" /\ cb = "none" /\ pp = "none"
        /\ alloc = pool

\* A thread asleep in waitPreviewFrame or waitCaptureFrame has nothing to take:
\* adding a frame always wakes it.
SleepersHaveNothingToTake ==
    /\ pp = "asleep" => frames = <<>>
    /\ \A c \in CaptureThreads : cap[c] = "asleep" => slot = 0

\* Frames keep the order of the camera on their way through queue, preview thread
\* and slot to the capture thread, whichever are rejected, dropped or replaced:
\* whoever has a frame has an older one than all those behind.  A capture thread
\* that was left behind may still have one of an earlier session.
Older(f, G) == \A g \in G : f < g
Queued == {frames[i] : i \in 1..Len(frames)}
Incoming == IF cb = "none" THEN {} ELSE {sent}
Behind == Queued \union Incoming

FramesInOrder ==
    /\ \A i, j \in 1..Len(frames) : i < j => frames[i] < frames[j]
    /\ \A f \in Queued : Older(f, Incoming)
    /\ Older(pf, Behind)
    /\ Older(slot, Behind \union ({pf} \ {0}))
    /\ ~early =>
          \A c \in CaptureThreads : Older(cf[c], Behind \union ({pf, slot} \ {0}))

\* A Surface or callback object is used after it was given back, or given back
\* twice, only if one was replaced while previewing (UVCCamera.stopPreview does
\* so itself, it removes the callback first), or if a capture thread was left
\* behind.
BrokenOnlyAfterChange == broken => changed \/ early

\* setFrameCallback waits for "finishing capturing": when it goes on to replace
\* the callback object no call of onFrame is in progress.  The code breaks it:
\* the wait is not repeated, and addCaptureFrame's broadcast ends it.
CallbackFinished ==
    set = "assign" /\ arg.kind = "callback" =>
        \A c \in CaptureThreads : using[c] = None

----------------------------------------------------------------------------
(***************************************************************************)
(* The inductive invariant: the facts, thread by thread, from which the    *)
(* safety properties above follow (UvcPreview_proofs).                     *)
(***************************************************************************)
\* A callback runs inside a session, with a frame.
SessionInv == cb # "none" => phase # "closed" /\ sent > 0

\* The control thread is outside the time in which a preview thread may exist.
Ended ==
    \/ ctl \in {"create", "display", "clearP", "clearC", "release"}
    \/ ctl = "idle" /\ ~running

ControlInv ==
    /\ ctl = "create" => running
    /\ ctl \notin {"idle", "create"} => ~running
    /\ Ended => pp = "none"

\* The preview thread has a frame from taking to giving it, and a session from
\* starting to stopping it.
PreviewInv ==
    /\ pf # 0 <=> pp \in {"have", "drop", "draw", "give"}
    /\ pp \in {"none", "prepare", "start", "exit"} => phase = "closed"

\* What stopPreview has emptied stays empty until the next preview thread.
EmptiedInv ==
    LET rest == ctl \in {"create", "release"} \/ (ctl = "idle" /\ ~running)
    IN  /\ rest \/ ctl = "clearC" => frames = <<>>
        /\ rest => slot = 0

\* The numbers start again with the session, when no older frame is left; in it
\* nobody has a frame that the camera has not sent.
OrderInv ==
    /\ pp \in {"prepare", "start"} => frames = <<>> /\ slot = 0
    /\ phase # "closed" =>
          /\ \A f \in Queued \union {pf, slot} : f <= sent
          /\ ~early => \A c \in CaptureThreads : cf[c] <= sent

\* Where a capture thread has a frame, and the converted one that it keeps.
HoldPoints == {"surface", "copy", "post", "callback", "call", "onFrame"}

HoldInv ==
    \A c \in CaptureThreads :
        /\ cf[c] # 0 <=> cap[c] \in HoldPoints
        /\ cap[c] \in {"surface", "copy", "post"} => surf[c]
        /\ conv[c] =>
              surf[c] /\ cap[c] \in {"test", "take", "asleep", "woken", "end"}
                                       \union HoldPoints

\* There is at most the capture thread that handle names, and it has neither
\* been created before the preview thread did so nor lives on after its join.
BeforeCreate == {"prepare", "start", "clear", "create"}

OneCapture ==
    ~early =>
        /\ \A c \in CaptureThreads : c # handle => cap[c] = "none"
        /\ pp \in BeforeCreate \/ Ended \/ ctl = "joinP" => handle = None
        /\ ctl = "joinP" => pp \notin BeforeCreate

\* The setter, when it replaces nothing in use: it waits with what is set, or
\* was until the capture thread gave it back; and no capture thread is past
\* capture_mutex while it assigns.
NoneCaptures ==
    \A c \in CaptureThreads : cap[c] \in {"none", "clear", "done"}
Withdrawn == arg.kind = "window" /\ cwin = None

SetterInv ==
    /\ set \in {"wait", "asleep", "woken"} =>
          arg.value = Current(arg.kind) \/ Withdrawn
    /\ set = "assign" => NoneCaptures \/ Withdrawn

\* A window that was given back is still set only until the thread that gave it
\* back clears it.
WindowInv ==
    /\ cwin \in dead =>
          \/ \E c \in CaptureThreads : cap[c] = "null"
          \/ set = "assign" /\ arg.kind = "window" /\ NoneCaptures
    /\ \A c \in CaptureThreads :
          /\ cap[c] = "null" => cwin \in dead
          /\ cap[c] = "post" => cwin # None
          /\ cap[c] = "onFrame" => fcb # None

UseInv == ~changed /\ ~early => SetterInv /\ WindowInv

\* The positions of the five threads agree with each other: who holds a frame,
\* who may exist while the control thread starts, stops or rests, and who may
\* still use a window or a callback object.
IInv ==
    /\ TypeOK /\ SessionInv /\ ControlInv /\ PreviewInv /\ EmptiedInv /\ HoldInv
    /\ NoFrameLost /\ SleepersHaveNothingToTake /\ OrderInv /\ FramesInOrder
    /\ OneCapture /\ UseInv /\ BrokenOnlyAfterChange

----------------------------------------------------------------------------
(***************************************************************************)
(* Liveness.                                                               *)
(***************************************************************************)

\* stopPreview returns when it finds both threads asleep, waiting for a frame
\* that does not come.
StopFromRestReturns ==
    (/\ ctl = "signalP" /\ pp = "asleep"
     /\ \A c \in CaptureThreads : cap[c] \in {"none", "asleep"})
        ~> ctl = "idle" \/ broken

\* stopPreview returns: do_capture "never return until finish previewing" and
\* stopPreview joins both threads.  The code breaks it: a thread that has tested
\* mIsRunning but not yet gone to sleep misses the signals.
StopPreviewReturns == ctl = "signalP" ~> ctl = "idle" \/ broken

=============================================================================
