# A TLA+ model of AndroidModule

AndroidModule is a set of Android libraries: a UVC (USB) camera stack, an
advertisement carousel, an activity and fragment framework, and wrappers of a
face engine, a speech synthesizer and media players. Its own core logic is the
camera stack in `uvccamera`: native code with five threads between a USB device
and two display surfaces. That is where the model starts.

## 1. Inventory

| Part | State | Operations | Talks to | What makes it correct |
|---|---|---|---|---|
| libuvc stream (`jni/libuvc/src/stream.c`) | `uvc_stream_handle_t`: running, transfer slots, assembled and held frame, sequence numbers | start, stop, close, transfer callback, callback thread | libusb's event thread calls it; it calls the frame callback of UVCPreview | stop returns and leaves no thread or transfer behind; frames whole, in order, not lost |
| UVCPreview (`jni/UVCCamera/UVCPreview.cpp`) | mIsRunning, mIsCapturing, preview queue, capture slot, frame pool, two windows, a callback object | startPreview, stopPreview, setPreviewDisplay, setCaptureDisplay, setFrameCallback, frame callback, preview thread, capture thread | calls libuvc; called from Java; calls `IFrameCallback.onFrame` | frames neither leaked nor freed twice; sleepers woken; windows and objects not used after release; stopPreview returns |
| libuvc devices and contexts (`device.c`, `init.c`) | open handles, reference counts, kill_handler_thread | open, close, ref, unref, exit | handler thread | one handler thread exactly while a device is open; a device is freed once |
| UVCCamera native (`UVCCamera.cpp`, `Parameters.cpp`) | context, device, handle, cached control limits | connect, release, get and set of each control | libuvc, UVCPreview | connect and release in any order leave nothing open; a cached limit is the device's |
| Status and button callbacks | a Java object each | setCallback, notify | run in the event thread | not called after they are deleted |
| USBMonitor (Java) | map of control blocks, permissions, device count, handler queue | register, unregister, destroy, onReceive, periodic check, openDevice, requestPermission | Android broadcasts, handler thread, listener | one open block per attached device; connect and disconnect alternate; nothing runs after destroy |
| UVCCamera (Java) | mNativePtr, mCtrlBlock (a clone) | open, close, destroy, preview and capture methods | USBMonitor, native camera | a failed open leaves it closed; methods that are not synchronized do not race |
| Banner | last visible position and its count, timer, video view, data | setUp, pause, resume, destroy, scroll and timer callbacks | EventBus, RecyclerView | one timer at a time; the carousel never stops by itself |
| Framework | fragment visibility flags, the one loading dialog, bitmap cache | lifecycle callbacks, show, hide | Android | first-visible work happens once; show and hide pair up |
| ArcSoft, Baidu, players, application | a handle of a closed or external library | initialize, use, release | that library | calls in a legal order |

libusb, libjpeg-turbo and rapidjson are vendored. Of libusb, the part in which
several threads meet is modelled from its source: who handles events, who waits,
synchronous transfers and closing a device (`LibusbEvents`). The `*_original.c` files and `UVCCamera/pipeline` are not
built.

**The behaviours that are hard.** The stream handle is shared by an owner, the
event thread and a callback thread; `running` is written and read without its
mutex. A device can disappear in the middle of any call. UVCPreview adds two
threads of its own, reads `mIsRunning`, `mIsCapturing` and `mCaptureWindow`
without a lock, sends some signals without the mutex, and waits on conditions
with an `if`. In Java, broadcasts, a handler thread and callers share maps
without a common lock. PROJECT.json lists each hazard at its line.

## 2. Modules

| Module | What it is |
|---|---|
| `StreamSession` | the contract between libuvc's stream and its receiver (abstract) |
| `UvcStream` | `stream.c` in detail; it implements `StreamSession` |
| `UvcStream_proofs` | the theorems about `UvcStream` |
| `UvcPreview` | `UVCPreview.cpp`, on top of `StreamSession` |
| `UvcPreview_proofs` | the theorems about `UvcPreview` |
| `TransferService` | the contract between libusb and the code that submits transfers (abstract) |
| `LibusbEvents` | libusb's event handling: the events lock, waiters, `poll`, reaping, closing a device |
| `UvcDevice` | `device.c`, `init.c` and `UVCCamera.cpp` on top of `LibusbEvents`; it implements `TransferService` |
| `UvcDevice_proofs` | the theorems about `UvcDevice` and, in it, `LibusbEvents` |
| `UsbMonitor` | `USBMonitor.java` |
| `UsbMonitor_proofs` | the theorems about `UsbMonitor` |
| `MCUvcStream`, `MCUvcPreview`, `MCUvcDevice`, `MCUsbMonitor` | the instances TLC checks |

The parts are joined by contracts, each shown for both sides:

    UvcPreview --StreamSession-- UvcStream --TransferService-- UvcDevice

### StreamSession

A session is closed, streaming, stopping or broken. While it streams, the
receiver's callback runs at most once at a time; after it was told to stop at
most one more call begins (the callback thread tests `running`, then calls
without the mutex); when it is closed none is in progress. "Broken" is the
outcome in which the handle is freed under the threads that use it.

### UvcStream

Each critical section of `cb_mutex` is one step, because inside it a thread
blocks nowhere but in `pthread_cond_wait`; every unlocked access is a step of
its own. The correspondence of the state:

| Variables | Code |
|---|---|
| `app`, `toSubmit`, `ret` | the owner inside `uvc_start_streaming_bandwidth` or `uvc_stop_streaming` |
| `xfer[t]`, `cancel` | `strmh->transfers[]`: null, allocated ("idle"), in flight, in its callback; cancellations requested |
| `running` | `strmh->running` |
| `ev`, `evt`, `resubmit`, `pkt` | the event thread in `_uvc_stream_callback` |
| `seq`, `fid`, `got`, `err` | the frame being assembled |
| `hseq`, `herr` | the held frame |
| `cb`, `lastSeq`, `frame` | the callback thread in `_uvc_user_caller` |
| `attached`, `iso` | the device, and the kind of its endpoint |
| `cut`, `hcut`, `given`, `dangling` | history: refused payload, the frame last delivered, handle freed while in use |

Data is abstracted to what the properties tell apart: a payload has a frame id,
an end-of-frame bit and zero or one unit of data; `BufSize` counts such units.
A transfer in flight may complete, be retried (time-out, stall, overflow), end
with an error, be cancelled or report that the device is gone; each submission
may fail for the reasons in `Faults`.

A packet whose header has its own error bit set is skipped by the isochronous
path without marking the frame (stream.c:872-880). This is a loss the code
chooses to accept, so `cut` (payload refused) does not count it; it counts a bad
packet status, a packet without a buffer, a packet shorter than its header and
an overflow. In the model the skipped packet is a stutter: nothing that the
module keeps changes. `DamagedFrameNotGiven` does not say that a frame with such
a gap is held back, and the code delivers it.

Once `dangling` holds the model stops: what happens then is undefined.

### UvcPreview

| Variables | Code |
|---|---|
| `ctl`, `pwin`, `handle` | the Java thread in startPreview or stopPreview; mPreviewWindow; `capture_thread` |
| `running`, `capturing` | `mIsRunning`, `mIsCapturing` |
| `phase`, `last`, `sent`, `cb` | the session (StreamSession) and its callback |
| `pool`, `alloc` | size of mFramePool; frames allocated and not freed |
| `frames`, `slot` | `previewFrames`, `captureQueu` |
| `pp`, `pf`, `mjpeg` | the preview thread, the frame it holds, `frameMode` |
| `cap`, `cf`, `surf`, `conv`, `using` | each capture thread: position, frame, kind of loop, its converted frame, object in `onFrame` |
| `cwin`, `fcb`, `set`, `arg` | mCaptureWindow, mFrameCallbackObj, and the thread that sets them: about to wait, asleep, woken, about to assign |
| `dead`, `broken`, `changed`, `early` | history: windows given back, use of one, a replacement while previewing, a stop that came before the capture thread existed |

There may be more than one capture thread: a stop that finds the thread not yet
created joins nothing and leaves the one created afterwards behind. Frames that
are borrowed and returned within one call (decoding, drawing, converting) only
change the pool. A setter that has to wait clears `mIsCapturing` in one step
(`SetterEnters`) and signals and sleeps in the next (`SetterWaits`), with the
mutex throughout; a broadcast that comes in between from a thread without the
mutex (UVCPreview.cpp:803) does not wake it. Surfaces and callback objects are references: giving one back
twice or using it afterwards sets `broken`, after which the model stops.

The composition is by contract: UvcPreview takes `StreamSession`'s actions for
libuvc, except `Break`; and UvcStream is shown to implement that contract.
UvcPreview is therefore about sessions that end normally, by a stop or by the
loss of the device seen before the stop; `FreedWhileUsedOnlyAfterLoss` says when
libuvc does not provide one.

### TransferService

What libusb promises to who submits transfers: a transfer belongs to its user
until it is submitted, is called back at most once for each submission, one
callback at a time, and leaves the list of those in flight only through its
callback or because the device is closed. The module has three variables: the
device is open, the transfers in flight, the one in its callback. The sentence it
formalises is in libusb itself (io.c:2610): transfers are removed only by
`usbi_handle_transfer_completion` and `libusb_close`, "both of which hold the
events_lock while doing so".

`UvcDevice` implements it (`ServesTransfers`) with `flying` as the transfers in
flight and the place of the thread that reaps as the callback; `UvcStream` uses it
(`UsesTransfers`) with its slots. `UvcStream`'s steps on transfers are the
contract's, so that what is one transfer, "stream", in `UvcDevice` may be any
number of them. Outside the contract are cancelling (a request; the callback
comes as for any other end) and what the kernel does with a transfer.

### LibusbEvents and UvcDevice

| Variables | Code |
|---|---|
| `at[t]` | where each thread is: the owner (Java), threads of a preview, the event thread |
| `holder`, `active` | who has `events_lock`; `event_handler_active` |
| `modify`, `pipe` | `pollfd_modify`; unread bytes in `ctrl_pipe` |
| `waiting` | threads asleep on `event_waiters_cond` |
| `flying`, `ready` | `flying_transfers`; the finished ones the kernel has not given yet |
| `done` | `completed` flags of synchronous transfers |
| `attached` | the device |
| `ctx`, `kill` | `mContext`, `kill_handler_thread` |
| `handle`, `set`, `listeners` | `mDeviceHandle`; its callbacks; the objects they point to |
| `preview` | how far the preview's threads are: negotiating, streaming, or done with the stream |
| `usbfs`, `fd` | `mUsbFs`, `mFd` |
| `lost`, `failed` | history: the status transfer ended; a connect failed |

`LibusbEvents` has the operators of one thread inside libusb (`HandleEvents`,
`LibusbClose`, `SyncLoop`), `UvcDevice` makes its actions of them for each thread:
`Connect` and the steps of `Release` for the owner, `EventLoop` and the callbacks
for the event thread, `Ask` for whoever makes a control transfer. `stopPreview`
only tells the threads of a preview to stop: one that is still negotiating makes
its control transfers, may start the stream (`StartStream`), and ends it
afterwards (`PreviewEnds`); the owner goes on when it has (`Stopped`). In
`release` the objects for status and button callbacks are deleted in one step,
because one object stands for both (they are called from the same transfer, and
made and deleted next to each other); telling the event thread to end is the
next step, and `libusb_close` those after it. Any thread that
waits for its own transfer may handle everybody's events, the stream's callback
included; this is why `events_lock`, the waiters and closing are there.

### UsbMonitor

| Variables | Code |
|---|---|
| `usb`, `granted`, `asked`, `inbox` | the system: devices, permissions, dialogs, broadcasts on their way |
| `context`, `listening` | `mWeakContext` can still be read; Android has the receiver |
| `registered`, `destroyed`, `counts`, `hasPerm` | fields of the monitor (`registered`: `mPermissionIntent` is set) |
| `blocks`, `map` | every `UsbControlBlock` made, with its connection; `mCtrlBlocks` |
| `handed`, `camera` | blocks the application was given; `UVCCamera.mCtrlBlock` |
| `queue`, `timers`, `quit` | the handler's runnables, delayed checks, looper |
| `main`, `hand`, `client` | the main thread (receiver, `destroy`), the handler thread, the application's thread |
| `seen`, `crashed` | the device list of a running check; an exception ended the process |
| `announced`, `dropped`, `races`, `stray` | history: `onAttach` called; entries lost without a close; what overlapped; checks that nothing will remove |

A block's `close` is two steps, `Close` (under the block's monitor) and
`RemoveEntry` (the map is outside that monitor); making one is three:
look-up, constructor, entry. The periodic check is a step for each read and write
of shared fields.

The monitor holds its context weakly, and it may be gone when `register` or
`unregister` asks for it. `register` then leaves `mPermissionIntent` null and
posts a check nevertheless, one more with each call (USBMonitor.java:542-553);
`unregister` removes the checks but cannot take the receiver back. Android takes
the receiver back itself with the context it was registered through, which may be
another one than the object that was collected: `ContextGone` allows both.
`openDevice` without permission and `hasPermission` change only the set of
devices known to have permission, which the periodic check compares with.

## 3. Runs

| Run | Question | Bounds |
|---|---|---|
| `stream_session` | the stream's safety, its inductive invariant and both contracts; does stopping end, are frames delivered | 2 transfers, 2 frames, buffer of 2, both endpoint kinds, all faults |
| `stream_call` | does each call come with a frame of its own | the same with 3 frames and no faults; violated |
| `stream_unplug` | does stopping end after unplugging | 2 transfers, 1 frame, bulk; violated |
| `preview_frames` | are frames accounted for, are sleepers woken | queue 1, pool 1, MJPEG, two capture threads |
| `preview_display` | with a window and a callback object: are these used only while held, are frames accounted for | queue 1, pool 0, one window, one object |
| `preview_live` | do frames keep their order, does stopPreview return from rest | queue 2, three frames |
| `preview_stop` | does stopPreview always return | one frame; violated |
| `preview_callback` | does setFrameCallback wait for onFrame | one object, one frame; violated |
| `monitor_blocks` | are control blocks, the map and the detaching of a device in step | 1 device, 2 blocks, 1 runnable, 1 check, the context stays |
| `monitor_check` | is there one check, is an attached device announced | 2 devices, 1 check, the context may end |
| `device_session` | is nothing called on a freed handle, is every waiter woken, is libusb's contract kept, do calls and release return | the owner, one preview thread, the event thread; opened and closed without a bound |
| `device_reopen` | does closing end a stream of a second session | the same; violated |

Why the bounds are enough. Two transfers let one be in its callback while the
other is in flight, idle or deleted; the slots are symmetric otherwise, and the
proofs cover any number. Two frames let a held frame be replaced while the
callback thread works on an older one; the double delivery of `stream_call`
needs a third, and the proofs cover any number of frames. A buffer of two units, of which one is
never filled (`got + len < size`), overflows at the second payload. A queue of
one frame is full after one, and empty after one was taken; one of two, with three
frames, is full with frames that could change places; a pool of one is
full after one recycling, and one of zero frees every frame. Two capture threads
are one left behind and one new. `MaxSeq` bounds the frames of one session; the
number of sessions is unbounded in UvcStream and UvcPreview alike.
In `device_session` a preview thread is a second thread that may handle the
events of the others, so that a waiter, a handler and a closer exist at the same
time; devices are opened, unplugged and closed without a bound. One device and
two blocks in `monitor_blocks` are a block and its clone, a block and the one
that replaces it, or two that two threads make at once; the map has one entry
per device and no step relates two devices but the count of the check, which
`monitor_check` has two of. `MaxQueue` and `MaxChecks` bound what the
application asks for while the handler thread is busy; a check that is left
over and the one of the next `register` need one timer and one that runs.
`ContextEnds` says whether the context may be collected: it touches the receiver
and the checks, so `monitor_check` has it and the blocks of the other run go
without; the proofs are for both. The theorems hold for any
number of devices, blocks and threads.

`CHECK_DEADLOCK FALSE` everywhere: a lost wakeup is stated as a property, the
models of the stream and the preview stop on purpose after a handle or window
was used when freed, the monitor after an exception and when its devices and
blocks are used up, and a thread of `UvcDevice` may wait for a device that never
answers.

### Fairness

Each thread that can run does (weak fairness of the owner's stop, the event
thread and the callback thread). A transfer in flight ends, because each is
submitted with a time-out of 5000 ms (stream.c:1569, 1584), and a transfer has
finitely many packets (strong fairness of `PayloadEnds`). The user's function
returns. In UvcPreview strong fairness says that a thread gets a mutex that is
free again and again. Nothing forces the camera to send a frame, or the
application to start, stop or replace anything. Spurious returns of
`pthread_cond_wait` are not modelled: they could only help the liveness
properties, and the safety properties do not rely on their absence where the
code waits in a loop; where it waits with an `if` (UVCPreview.cpp:441, 737) the
code tests the queue again after waking.

In `UvcDevice` the threads run, and a thread that reaps finished transfers stops
sooner or later (`[]<>~Reaping`): `op_handle_events` goes on as long as the
kernel has one more, and the device is slower than that. The kernel completes
the stream's transfer, which has a time-out, and all transfers of a device that
is gone. A negotiation ends (strong fairness of `Negotiated`): it makes finitely
many control transfers, each of which returns, and then the stream starts or the
thread gives up. Control transfers have no time-out (ctrl.c:53, stream.c:222): that the device
answers them is an assumption about the device. The status transfer may stay in
flight for ever. `FairSpec` has no time-out of `poll` or of the waiters, so
`CallReturns` says that no control transfer needs one; `PatientSpec` adds them,
and `device_reopen` is violated in spite of it. In `UsbMonitor` the main and the
handler thread go on, and the application's thread finishes what it began;
nothing makes the user answer.

### What the runs found

- `stream_unplug`: `_uvc_stream_callback` does not look at the result of the
  resubmission (stream.c:1013). If the device is removed between two transfers
  the slot stays taken and `uvc_stream_stop` waits for ever. The comment at
  stream.c:995 shows that such a hang was to be excluded.
- `stream_call`: `hold_bfh_err` is read under the mutex to fill the frame and
  again without it to call the user's function. A good frame published in
  between makes it call with the previous frame once more.
- `preview_stop`: stopPreview signals without the mutexes, and the threads test
  `mIsRunning` before they lock: the signal can be missed, and the join hangs
  while no frame comes.
- `preview_callback`: the single wait in `setFrameCallback` is ended by any
  broadcast, and the object is replaced while `onFrame` runs on it.

- `device_reopen`: `uvc_close` sets `kill_handler_thread` (device.c:1592) and
  nothing resets it, while the context outlives the device. A camera object that
  is closed and opened again gets an event thread that ends at once. Control
  transfers go on, because the thread that makes one handles events itself; the
  preview's transfers have nobody once the stream has started, and `stopPreview`
  waits for ever for them.

The passing runs say how far the damage goes: `OrderedDelivery` and
`DamagedFrameNotGiven` hold in spite of the second read; `StopReturns` holds
whenever no slot is stuck; `StopFromRestReturns` holds when both threads sleep;
`BrokenOnlyAfterChange` names the two situations in which a window or an object
can be used after its release; `FramesInOrder` holds although five threads pass
frames on and drop them, but for a capture thread left behind by an early stop.

The exceptions in the properties of `UvcDevice` and `UsbMonitor` are behaviours of
the code as well, each found by TLC before it was written down. A property says
nothing about the hazard it excuses; what it shows is that nothing else goes wrong
in the same way:

- `CallbackWhileOpen` excuses `Deleting`: from the deletion of the status and
  button objects (UVCCamera.cpp:202) until `libusb_close` has dropped the
  handle's transfers, the event thread may call the deleted objects, to which the
  handle still points. `ServesTransfers` does not see this either: the contract
  has no callback objects.
- `ReleaseReturns` excuses `Deserted`, which is `device_reopen`'s case: a stream
  of a context whose event thread ended at once. And it excuses `Missed`: the event thread tests
  `kill_handler_thread` just before `uvc_close` sets it, and polls after the byte
  in the pipe was read. The join then lasts until `poll` times out, after the
  60 s of `libusb_handle_events`. Nothing says how long closing may take.
- `EventThreadRuns` is about a context that has not been closed before, for the
  same reason; `CloseEndsStream`, violated, is the claim without that exception.
- `StatusListened` excuses `lost`: a status transfer that ended with an error, or
  could not be submitted again (device.c:1801), is gone until the next open.
- `OwnDescriptor` excuses a failed connect: it leaves `mUsbFs` set, and the next
  `release` calls `close(mFd)` with `mFd` 0.
- `OpenIsKnown` excuses `dropped`: closing any block of a device, also a clone
  (`UVCCamera.close` closes one), removes the device from the map whichever
  block is there (USBMonitor.java:1440), and two threads that open a device at
  once each make a block of which the map keeps one. `MapHoldsOpen` is about the
  entries that are there, so it does not see an entry that such a close removed.
- `DettachAfterDisconnect` and `DestroyReleases` excuse "connect": a runnable or
  `openDevice` that is making a block while the device is detached, or the
  monitor destroyed, enters it afterwards.
- `OneCheck` counts `stray`: `unregister` cannot remove the check that runs and
  posts itself again, so that a later `register` adds a second one; and each
  `register` without a context adds one. These checks and no other
  may exist besides the one of the registered monitor.
- `AttachAnnounced` excuses "count": the reset of `mDeviceCounts` is overwritten
  by a check that compared before and writes after it (USBMonitor.java:231-232).
  It is about a monitor that hears of detached devices (`listening`): without the
  receiver nothing resets the count.

## 4. Proofs

`UvcStream_proofs` proves, from the assumption `StreamConstants` (a finite
non-empty set of transfers, any buffer size and bound of at least one, any set
of faults):

- the inductive invariant `IInv`, and from it `TypeOK`, `OwnerNotForgotten`,
  `CallerNotForgotten`, `StoppedIsQuiet`, `FreedWhileUsedOnlyAfterLoss` and
  `DamagedFrameNotGiven`;
- the action property `OrderedDelivery`, from `IInv` and `NumbersAscend`;
- the refinement `KeepsContract`: `UvcStream` implements `StreamSession`;
- `UsesTransfers`: it keeps `TransferService`'s rules for who submits, and
  `TakesEveryCallback`: whenever these allow a transfer to be called back the
  event thread can take the call, so the stream asks no more of libusb than the
  contract gives.

The wanted invariants are not inductive. That the owner is not forgotten needs
`OneInCallback` (the transfer that the event thread deletes is the one in its
callback, so the last deletion meets the owner asleep or before its test). That
the callback thread is not forgotten needs `RunningWhile` (who may have cleared
`running`, and where the owner then is). That nothing is freed in use needs
`CallerLives` and `StoppedIsQuiet`'s content at "join" and "free".
`WaitsForStart` says that a transfer still to be submitted is in nobody's hands,
so that submitting it does not steal one from the event thread. `CutIsMarked`
follows a refused payload through assembly, hold and delivery: the frame that is
delivered was copied under the mutex when it was not marked, so the second read
cannot turn it into a damaged one. `RoomForPacket` is about the bound only.

The proof has one lemma per group of actions (start, submit, stop, event thread,
callback thread), under it one step per part of the invariant. For the
refinement, lemmas show which steps leave the session's phase, `busy` and `last`
alone; the remaining ones are `Begin` (`StartAllocate`), `Stop` (each action
that clears `running`), `Deliver` and `Return` (`CallerCalls`, `UserReturns`),
`Forgo` (the held frame is damaged), `End` (the join or the free) and `Break`.

`UvcDevice_proofs` assumes `CallersAreThreads` and `OwnerCalls` (a finite set of
threads that has the owner and none of the reserved names). Its `IInv` has
types and three parts. `ThreadInv` says what the threads' places mean: the lock
belongs to the thread that is where it is needed (`HolderHasLock`), only the
closing thread
changes `pollfd_modify` and the pipe (`OneModifier`), and a waiter sleeps only
while somebody will wake it (`WaiterWillBeWoken`, which is inductive with
these). `HandleInv` says what they mean for the device: how far `uvc_close` has
come (`HandleOf`), that a preview has a device (`PreviewHasDevice`), that a
closed handle has nothing in flight and a freed one no event thread
(`ClosedIsQuiet`), and that the handle points to objects that exist but between
their deletion and the end of `libusb_close` (`SetIsThere`). Callbacks are safe
because they need the events lock, which the closing thread has when it drops
the transfers. `TransferInv` says who has a transfer: a finished one is still in
flight and finished once (`FinishedOnce`), and one in its callback, or of a call
that has returned, is not in flight (`OneUser`). The lemmas follow the actions,
one group per thread.

The theorem `LibusbServes` is the refinement of `TransferService`. Types and
places are not enough for it: without `FinishedOnce` a transfer that was reaped
could be reaped again from `ready` after it was submitted anew, and without
`OneUser` a second callback could begin for it, or a preview could submit the
stream's transfer of the one before. `OneUser` rests on `StreamOver`: the owner
goes on only when the slots are empty (stream.c:1847).

`UsbMonitor_proofs` assumes `MonitorConstants` (finite devices; the bounds are
any numbers). `IInv` is built in layers, each proved inductive with those below
it: types; `PermissionInv` (whoever makes a block has a device that is allowed
or gone for good); `BlockInv` (`HasBlock`, `ClosedFirst`: a block is closed
before its entry is removed; `MakesAlone`: a block that is being made is known
to its maker only; `MadeOpen`, `EntriesOpen`); then `OpenIsKnown`; then
`DettachInv`, which carries "nobody is connected but block b" from the removal
of the entry through the close to the posting of `onDettach`; `DestroyInv`,
which does the same for `destroy`; and `OneCheck`.

`UvcPreview_proofs` assumes `PreviewConstants` (a finite set of capture threads;
queue, pool, windows and objects are arbitrary). Its `IInv` is proved in layers,
one lemma for each, by thread and action:

1. types and `SessionInv` (a callback runs inside a session, with a frame);
2. `ControlInv` and `PreviewInv`: when a preview thread may exist, where it has a
   frame, where the session is closed;
3. `EmptiedInv`: what `stopPreview` emptied stays empty until the next preview;
4. `HoldInv`: where a capture thread has a frame and its converted one;
5. `SleepersHaveNothingToTake`, which is inductive with the types;
6. `OneCapture`: which capture thread may exist while the control thread starts,
   stops or rests;
7. `NoFrameLost`. `InUse` counts the frames outside the pool; each action changes
   one term of the sum, and each lemma about the pool (`Got`, `Recycled`,
   `Borrowed`) says what it does to the difference of `alloc` and `pool`. That
   `alloc` is a natural number is a consequence: it is a sum of counts;
8. `FramesInOrder` with `OrderInv`, from 2, 3, 4 and 6: whoever has a frame has
   an older one than all those behind it on the way. The numbers start again with
   each session; it is 3 that leaves no older frame in queue and slot then, and 6
   that leaves none with a capture thread;
9. `UseInv` and `BrokenOnlyAfterChange`, from 4 and 6: while nothing was replaced
   in a preview, the window a capture thread draws on is the one that is set.

From it follow the safety properties, `StoppedHoldsNothing` (at rest no term of
the sum but the pool is left) and `UsesContract` (each step is one of
`StreamSession`'s or leaves the session alone). One conjunct of `HoldInv` was
found by the proof: a capture thread that draws is one whose loop is for a
surface. The runs never needed it, since the invariants hold in every reachable
state; without it a frame converted in one kind of loop and released in the other
would leak, and no step excludes that state.

Only model-checked: the liveness properties `StopReturns`, `HeldFrameDelivered`,
`StopFromRestReturns`, `CallReturns`, `ReleaseReturns` and `AttachAnnounced`
(fairness is outside what the provers here can handle). Every invariant and
action property that a passing run checks is proved as well. The runs that expect
a violation have a counterexample instead.

## 5. Not modelled, and why

- In `stream.c`: polling (`uvc_stream_get_frame`, which UVCPreview does not
  use), negotiation of the stream control (control transfers without shared
  state), iSight headers (the flag is never set on Android, stream.c:852), the
  `assert`s of the isochronous path (the model sends what satisfies them), a
  failing `pthread_create` or `malloc`.
- In libusb: hotplug, the interruption that `libusb_open` makes (nobody handles
  events of the context then), time-outs of transfers inside libusb, the
  submission itself, and everything about other operating systems.
- In `device.c` and `UVCCamera.cpp`: parsing of descriptors, the device list,
  reference counts (the Java object's monitor makes their changes sequential),
  the cached limits of the controls.
- In `USBMonitor.java`: device filters, the text descriptions of devices,
  interface claims, and the branch for `ACTION_USB_DEVICE_ATTACHED` (190-194),
  which the intent filter never asks for (546).
- libjpeg-turbo, rapidjson and the other operating systems' parts of libusb are
  third-party code with no part in the camera's concurrency; they are most of
  the repository's lines.
- The wrappers of closed libraries (ArcSoft, Baidu, VLC) are calls in sequence.
- In `UVCPreview.cpp`: frame sizes and `setPreviewSize`, pixel conversions,
  `init_pool` (not called), the destructor, the mismatch of window formats (the
  preview format is always RGBA, UVCPreview.cpp:65), failing allocations.
- The control thread's own call of `setFrameCallback` in `UVCCamera.stopPreview`
  is one of the setter's, which may come at any time.
- The other components: see the plan, or PROJECT.json's notes.

## 6. Plan

1. `Banner`: timer, position, data, scroll callback; pause and resume. One
   thread and an EventBus. Questions: one timer at a time, the carousel goes on,
   no index outside the data.
2. `Fragment` (DjangoFragment) and `Loading` (LoadingManager), small.
3. In `UvcPreview`: is a setter that waits always woken, when `mIsCapturing` is
   seen late (UVCCamera.java:651).
4. `UvcDevice` and `UvcStream` meet in `TransferService`, which says nothing of
   time: a contract under which the stream's liveness (`StopReturns`) follows from
   that of the event thread, which `device_reopen` shows may be missing.
5. A contract of `UsbMonitor` (per device, connect and disconnect alternate, but
   for the races named above) and the proof that it is implemented.
