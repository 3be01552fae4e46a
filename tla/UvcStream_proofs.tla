-------------------------- MODULE UvcStream_proofs --------------------------
(***************************************************************************)
(* What UvcStream guarantees for every number of transfers, every size of  *)
(* the buffer and every set of faults.  All of it follows from one         *)
(* inductive invariant, IInv, and from the refinement of the contract,     *)
(* which needs that invariant too.                                         *)
(***************************************************************************)
EXTENDS UvcStream, TLAPS

USE DEF OwnerAt, EventAt, CallerAt, WakeCaller, WakeOwner

\* What the assumptions on the constants say of the bounds.
LEMMA Bounds ==
    /\ BufSize \in Nat /\ BufSize >= 1
    /\ MaxSeq \in Nat /\ MaxSeq >= 1
    /\ 0 \in 0..MaxSeq /\ 0 \in 0..(BufSize - 1)
  BY StreamConstants

\* The frames and packets that the variables start with have their types.
LEMMA NothingYet == NoFrame \in Frames /\ NoPacket \in Packets
  BY Bounds DEF NoFrame, Frames, NoPacket, Packets

\* The initial state satisfies the inductive invariant.
LEMMA InitInv == Init => IInv
<1> SUFFICES ASSUME Init PROVE IInv
  OBVIOUS
<1>1. OwnerType /\ UsbType /\ EventType
  BY NothingYet DEF Init, OwnerType, UsbType, EventType
<1>2. BuildType /\ HoldType
  BY Bounds DEF Init, BuildType, HoldType
<1>3. CallerType
  BY Bounds, NothingYet DEF Init, CallerType
<1>4. RoomForPacket
  BY DEF Init, RoomForPacket
<1>5. OneInCallback /\ WaitsForStart /\ RunningWhile /\ CallerLives
  BY DEF Init, OneInCallback, WaitsForStart, RunningWhile, CallerLives, AllNull
<1>6. OwnerNotForgotten /\ CallerNotForgotten /\ FreedWhileUsedOnlyAfterLoss
  BY DEF Init, OwnerNotForgotten, CallerNotForgotten,
         FreedWhileUsedOnlyAfterLoss
<1>7. CutIsMarked
  BY DEF Init, CutIsMarked, NoFrame
<1> QED
  BY <1>1, <1>2, <1>3, <1>4, <1>5, <1>6, <1>7 DEF IInv, TypeOK

\* What the threads know of each other: the parts of IInv besides the types.
Coordination ==
    /\ OneInCallback /\ WaitsForStart /\ RunningWhile /\ CallerLives
    /\ OwnerNotForgotten /\ CallerNotForgotten
    /\ FreedWhileUsedOnlyAfterLoss
    /\ CutIsMarked

----------------------------------------------------------------------------
(***************************************************************************)
(* The owner's steps.                                                      *)
(***************************************************************************)

\* A new session starts with nothing of the previous one in the way.
LEMMA StartAllocateStep == ASSUME IInv, StartAllocate PROVE IInv'
<1>1. OwnerType' /\ UsbType' /\ EventType'
  BY DEF IInv, TypeOK, OwnerType, UsbType, EventType, StartAllocate,
         deviceVars, eventVars
<1>2. BuildType' /\ HoldType'
  <2>1. seq' \in 0..MaxSeq /\ got' \in 0..(BufSize - 1) /\ hseq' \in 0..MaxSeq
    BY Bounds DEF StartAllocate, OpenCtrl
  <2> QED
    BY <2>1 DEF StartAllocate, OpenCtrl, BuildType, HoldType
<1>3. CallerType' /\ RoomForPacket'
  BY Bounds, NothingYet
  DEF StartAllocate, OpenCtrl, CallerType, RoomForPacket
<1>4. Coordination'
  BY DEF StartAllocate, OpenCtrl, Coordination, IInv, TypeOK, EventType,
         OneInCallback, WaitsForStart, RunningWhile, CallerLives,
         OwnerNotForgotten, CallerNotForgotten, FreedWhileUsedOnlyAfterLoss,
         CutIsMarked, AllNull, NoFrame, deviceVars, eventVars
<1> QED
  BY <1>1, <1>2, <1>3, <1>4 DEF IInv, TypeOK, Coordination

\* A transfer that is submitted was not in its callback; when it cannot be, the
\* error that start returns explains why the stream no longer runs.
LEMMA SubmitStep ==
  ASSUME IInv, NEW t \in Transfers, Submit(t) PROVE IInv'
<1> USE DEF Submit, deviceVars, usbVars, eventVars, buildVars, holdVars,
            callerVars
<1>1. OwnerType' /\ UsbType' /\ EventType'
  BY DEF IInv, TypeOK, OwnerType, UsbType, EventType
<1>2. BuildType' /\ HoldType' /\ CallerType' /\ RoomForPacket'
  BY DEF IInv, TypeOK, BuildType, HoldType, CallerType, RoomForPacket
<1>3. OneInCallback' /\ WaitsForStart'
  <2>1. xfer[t] = "idle"
    BY DEF IInv, WaitsForStart
  <2>2. /\ xfer'[t] # "cb"
        /\ \A u \in Transfers \ {t} : xfer'[u] = xfer[u]
    BY <2>1 DEF IInv, TypeOK, UsbType
  <2>3. ev' = ev /\ evt' = evt /\ toSubmit' = toSubmit \ {t}
    OBVIOUS
  <2>4. OneInCallback'
    BY <2>1, <2>2, <2>3 DEF IInv, TypeOK, EventType, OneInCallback
  <2>5. WaitsForStart'
    BY <2>2, <2>3 DEF IInv, TypeOK, OwnerType, WaitsForStart
  <2> QED
    BY <2>4, <2>5
<1>4. RunningWhile' /\ CallerLives'
  BY DEF IInv, TypeOK, UsbType, RunningWhile, CallerLives, AllNull
<1>5. /\ OwnerNotForgotten' /\ CallerNotForgotten'
      /\ FreedWhileUsedOnlyAfterLoss' /\ CutIsMarked'
  BY DEF IInv, TypeOK, OwnerType, OwnerNotForgotten, CallerNotForgotten,
         FreedWhileUsedOnlyAfterLoss, CutIsMarked, AllNull
<1> QED
  BY <1>1, <1>2, <1>3, <1>4, <1>5 DEF IInv, TypeOK

\* Stopping: running is cleared before the slots are looked at, and the handle
\* is freed after the callback thread was joined, or after a loss or a failure.
LEMMA StopSteps == ASSUME IInv, OwnerStops \/ StopStreaming PROVE IInv'
<1> USE NoTransferIsNotASlot
    DEF IInv, TypeOK, OwnerType, UsbType, EventType, BuildType, HoldType,
        CallerType, RoomForPacket, OneInCallback, WaitsForStart, RunningWhile,
        CallerLives, OwnerNotForgotten, CallerNotForgotten,
        FreedWhileUsedOnlyAfterLoss, CutIsMarked, AllNull,
        ownerVars, deviceVars, usbVars, eventVars, buildVars, holdVars,
        callerVars
<1>1. CASE StopStreaming
  BY <1>1 DEF StopStreaming
<1>2. CASE CloseChecksRunning
  BY <1>2 DEF CloseChecksRunning
<1>3. CASE StopClearsRunning
  <2>1. TypeOK' /\ RoomForPacket'
    <3>1. OwnerType' /\ UsbType' /\ EventType'
      BY <1>3 DEF StopClearsRunning
    <3>2. BuildType' /\ HoldType' /\ CallerType' /\ RoomForPacket'
      BY <1>3 DEF StopClearsRunning
    <3> QED
      BY <3>1, <3>2
  <2>2. Coordination'
    BY <1>3 DEF StopClearsRunning, Coordination
  <2> QED
    BY <2>1, <2>2 DEF Coordination
<1>4. CASE CancelAll
  BY <1>4 DEF CancelAll, TestSlots
<1>5. CASE CheckSlots
  BY <1>5 DEF CheckSlots, TestSlots
<1>6. CASE JoinCaller
  BY <1>6 DEF JoinCaller
<1>7. CASE Free
  BY <1>7 DEF Free
<1> QED
  BY <1>1, <1>2, <1>3, <1>4, <1>5, <1>6, <1>7 DEF OwnerStops

\* Every step of the owner preserves the invariant.
LEMMA OwnerStep == ASSUME IInv, Owner PROVE IInv'
<1>1. CASE StartRefused
  <2> USE NoTransferIsNotASlot
      DEF IInv, TypeOK, OwnerType, UsbType, EventType, BuildType, HoldType,
          CallerType, RoomForPacket, OneInCallback, WaitsForStart, RunningWhile,
          CallerLives, OwnerNotForgotten, CallerNotForgotten,
          FreedWhileUsedOnlyAfterLoss, CutIsMarked, AllNull,
          ownerVars, deviceVars, usbVars, eventVars, buildVars, holdVars,
          callerVars
  <2> QED
    BY <1>1 DEF StartRefused
<1> QED
  BY <1>1, StartAllocateStep, StopSteps, SubmitStep DEF Owner

----------------------------------------------------------------------------
(***************************************************************************)
(* The event thread's steps.                                               *)
(***************************************************************************)

\* A transfer that ends is the only one in its callback, and the device is lost
\* when that clears running.
LEMMA TransferEndsStep ==
  ASSUME IInv, NEW t \in Transfers, TransferEnds(t) PROVE IInv'
<1> USE NoTransferIsNotASlot
    DEF TransferEnds, Completed, Retried, Ended, ownerVars, deviceVars,
        buildVars, holdVars, callerVars
<1>1. /\ xfer[t] = "flight" /\ xfer'[t] = "cb"
      /\ \A u \in Transfers \ {t} : xfer'[u] = xfer[u]
  BY DEF IInv, TypeOK, UsbType
<1>2. OwnerType' /\ UsbType' /\ EventType'
  BY DEF IInv, TypeOK, OwnerType, UsbType, EventType
<1>3. BuildType' /\ HoldType' /\ CallerType' /\ RoomForPacket'
  BY DEF IInv, TypeOK, BuildType, HoldType, CallerType, RoomForPacket
<1>4. OneInCallback' /\ WaitsForStart'
  BY <1>1 DEF IInv, TypeOK, OwnerType, EventType, OneInCallback, WaitsForStart
<1>5. CASE ev' = "payload" \/ resubmit'
  <2>1. running' = running
    BY <1>5
  <2> QED
    BY <1>1, <1>2, <1>3, <1>4, <1>5, <2>1
    DEF IInv, TypeOK, RunningWhile, CallerLives, OwnerNotForgotten,
        CallerNotForgotten, FreedWhileUsedOnlyAfterLoss, CutIsMarked, AllNull
<1>6. CASE ~(ev' = "payload" \/ resubmit')
  <2>1. ev' = "decide" /\ ~resubmit'
    BY <1>6
  <2>2. running' = running \/ (running' = FALSE /\ ~attached')
    BY <1>6
  <2>3. RunningWhile' /\ CallerLives'
    BY <1>1, <2>2 DEF IInv, TypeOK, RunningWhile, CallerLives, AllNull
  <2>4. OwnerNotForgotten' /\ CallerNotForgotten'
    BY <1>1, <2>1 DEF IInv, OwnerNotForgotten, CallerNotForgotten, AllNull
  <2>5. FreedWhileUsedOnlyAfterLoss' /\ CutIsMarked'
    BY DEF IInv, FreedWhileUsedOnlyAfterLoss, CutIsMarked
  <2> QED
    BY <1>2, <1>3, <1>4, <2>3, <2>4, <2>5 DEF IInv, TypeOK
<1> QED
  BY <1>5, <1>6

\* Publishing a frame: its damage goes with it, and waking the two waiters
\* leaves nobody behind.
LEMMA PayloadHeaderStep ==
  ASSUME IInv, NEW p \in Packets, PayloadHeader(p) PROVE IInv'
<1> USE DEF PayloadHeader, SwapBuffers, KeepBuffers, NextSeq, deviceVars,
            usbVars, holdVars
<1>1. OwnerType' /\ UsbType' /\ EventType'
  BY DEF IInv, TypeOK, OwnerType, UsbType, EventType
<1>2. BuildType'
  <2>1. seq' \in 0..MaxSeq /\ got' \in 0..(BufSize - 1)
    BY Bounds DEF IInv, TypeOK, BuildType, Sent, Flips
  <2>2. fid' \in {0, 1} /\ err' \in BOOLEAN /\ cut' \in BOOLEAN
    BY DEF IInv, TypeOK, BuildType, Packets
  <2> QED
    BY <2>1, <2>2 DEF BuildType
<1>3. HoldType' /\ CallerType'
  BY DEF IInv, TypeOK, BuildType, HoldType, CallerType
<1>4. RoomForPacket'
  BY Bounds DEF IInv, TypeOK, BuildType, Sent, Flips, RoomForPacket
<1>5. Coordination'
  BY DEF IInv, TypeOK, EventType, CallerType, BuildType, HoldType,
         Coordination, OneInCallback, WaitsForStart, RunningWhile, CallerLives,
         OwnerNotForgotten, CallerNotForgotten, FreedWhileUsedOnlyAfterLoss,
         CutIsMarked, AllNull
<1> QED
  BY <1>1, <1>2, <1>3, <1>4, <1>5 DEF IInv, TypeOK, Coordination

\* Refused data marks the frame, whether it ends here or goes on.
LEMMA PayloadDataStep == ASSUME IInv, PayloadData PROVE IInv'
<1> USE DEF PayloadData, SwapBuffers, KeepBuffers, NextSeq, deviceVars,
            usbVars, holdVars
<1>1. OwnerType' /\ UsbType' /\ EventType'
  BY NothingYet DEF IInv, TypeOK, OwnerType, UsbType, EventType
<1>2. BuildType'
  <2>1. seq' \in 0..MaxSeq
    BY Bounds DEF IInv, TypeOK, BuildType, RoomForPacket
  <2>2. got' \in 0..(BufSize - 1)
    <3>1. pkt.len \in {0, 1}
      BY DEF IInv, TypeOK, EventType, Packets
    <3> QED
      BY <3>1, Bounds DEF IInv, TypeOK, BuildType, Fits
  <2>3. fid' \in {0, 1} /\ err' \in BOOLEAN /\ cut' \in BOOLEAN
    BY DEF IInv, TypeOK, EventType, BuildType, Packets
  <2> QED
    BY <2>1, <2>2, <2>3 DEF BuildType
<1>3. HoldType' /\ CallerType'
  BY DEF IInv, TypeOK, BuildType, HoldType, CallerType
<1>4. RoomForPacket'
  BY DEF RoomForPacket, NoPacket
<1>5. Coordination'
  BY DEF IInv, TypeOK, EventType, CallerType, BuildType, HoldType,
         Coordination, OneInCallback, WaitsForStart, RunningWhile, CallerLives,
         OwnerNotForgotten, CallerNotForgotten, FreedWhileUsedOnlyAfterLoss,
         CutIsMarked, AllNull
<1> QED
  BY <1>1, <1>2, <1>3, <1>4, <1>5 DEF IInv, TypeOK, Coordination

\* Every step of the event thread preserves the invariant.
LEMMA EventThreadStep == ASSUME IInv, EventThread PROVE IInv'
<1> USE NoTransferIsNotASlot
    DEF IInv, TypeOK, OwnerType, UsbType, EventType, BuildType, HoldType,
        CallerType, RoomForPacket, OneInCallback, WaitsForStart, RunningWhile,
        CallerLives, OwnerNotForgotten, CallerNotForgotten,
        FreedWhileUsedOnlyAfterLoss, CutIsMarked, AllNull,
        ownerVars, deviceVars, usbVars, eventVars, buildVars, holdVars,
        callerVars
<1>1. CASE PayloadBad
  BY <1>1 DEF PayloadBad
<1>2. CASE PayloadEnds
  BY <1>2 DEF PayloadEnds
<1>3. CASE DecideResubmit
  BY <1>3 DEF DecideResubmit, MayResubmit
<1>4. CASE Resubmit
  BY <1>4 DEF Resubmit
<1>5. CASE DeleteTransfer
  BY <1>5 DEF DeleteTransfer
<1> QED
  BY <1>1, <1>2, <1>3, <1>4, <1>5, TransferEndsStep, PayloadHeaderStep,
     PayloadDataStep
  DEF EventThread

----------------------------------------------------------------------------
(***************************************************************************)
(* The callback thread's steps, and the whole.                             *)
(***************************************************************************)

\* Every step of the callback thread preserves the invariant.
LEMMA CallerStep == ASSUME IInv, Caller PROVE IInv'
<1> USE NoTransferIsNotASlot
    DEF IInv, TypeOK, OwnerType, UsbType, EventType, BuildType, HoldType,
        CallerType, RoomForPacket, OneInCallback, WaitsForStart, RunningWhile,
        CallerLives, OwnerNotForgotten, CallerNotForgotten,
        FreedWhileUsedOnlyAfterLoss, CutIsMarked, AllNull,
        ownerVars, deviceVars, usbVars, eventVars, buildVars, holdVars,
        callerVars
<1>1. CASE CallerTakes
  <2> USE <1>1 DEF CallerTakes, Leaves
  <2>1. OwnerType' /\ UsbType' /\ EventType'
    OBVIOUS
  <2>2. BuildType' /\ RoomForPacket'
    OBVIOUS
  <2>3. HoldType'
    OBVIOUS
  <2>4. CallerType'
    <3>1. Populated \in Frames
      BY DEF Populated, Frames
    <3> QED
      BY <3>1
  <2>5. Coordination'
    BY DEF Coordination, Populated
  <2> QED
    BY <2>1, <2>2, <2>3, <2>4, <2>5 DEF Coordination
<1>2. CASE CallerCalls
  BY <1>2 DEF CallerCalls
<1>3. CASE UserReturns
  BY <1>3 DEF UserReturns
<1> QED
  BY <1>1, <1>2, <1>3 DEF Caller

\* IInv is inductive.
LEMMA InvStep == IInv /\ [Next]_vars => IInv'
<1> SUFFICES ASSUME IInv, [Next]_vars PROVE IInv'
  OBVIOUS
<1> USE NoTransferIsNotASlot
    DEF IInv, TypeOK, OwnerType, UsbType, EventType, BuildType, HoldType,
        CallerType, RoomForPacket, OneInCallback, WaitsForStart, RunningWhile,
        CallerLives, OwnerNotForgotten, CallerNotForgotten,
        FreedWhileUsedOnlyAfterLoss, CutIsMarked, AllNull,
        ownerVars, deviceVars, usbVars, eventVars, buildVars, holdVars,
        callerVars
<1>1. CASE Unplug
  <2>1. TypeOK' /\ RoomForPacket'
    <3>1. OwnerType' /\ UsbType' /\ EventType'
      BY <1>1 DEF Unplug
    <3>2. BuildType' /\ HoldType' /\ CallerType' /\ RoomForPacket'
      BY <1>1 DEF Unplug
    <3> QED
      BY <3>1, <3>2
  <2>2. Coordination'
    BY <1>1 DEF Unplug, Coordination
  <2> QED
    BY <2>1, <2>2 DEF Coordination
<1>2. CASE UNCHANGED vars
  BY <1>2 DEF vars
<1> QED
  BY <1>1, <1>2, OwnerStep, EventThreadStep, CallerStep DEF Next

\* The inductive invariant holds in every behaviour of uvc_start_streaming,
\* _uvc_stream_callback, _uvc_user_caller and uvc_stop_streaming.
THEOREM Invariant == Spec => []IInv
  BY InitInv, InvStep, PTL DEF Spec

\* Every variable of the stream keeps its type; in particular the assembled
\* data never reaches the end of the buffer.
THEOREM TypesHold == Spec => []TypeOK
<1>1. IInv => TypeOK
  BY DEF IInv
<1> QED
  BY <1>1, Invariant, PTL

\* The owner asleep in uvc_stream_stop always has a slot to wait for.
THEOREM OwnerIsWoken == Spec => []OwnerNotForgotten
<1>1. IInv => OwnerNotForgotten
  BY DEF IInv
<1> QED
  BY <1>1, Invariant, PTL

\* The callback thread asleep on a stream that no longer runs is still to be
\* woken, by the owner or by the event thread.
THEOREM CallerIsWoken == Spec => []CallerNotForgotten
<1>1. IInv => CallerNotForgotten
  BY DEF IInv
<1> QED
  BY <1>1, Invariant, PTL

\* When uvc_stream_stop stops waiting, the event thread is out of the callback
\* and cannot come back: the wait loop really waits for the last transfer.
THEOREM StopIsQuiet == Spec => []StoppedIsQuiet
<1>1. IInv => StoppedIsQuiet
  BY NoTransferIsNotASlot
  DEF IInv, TypeOK, EventType, UsbType, OneInCallback, RunningWhile,
      CallerLives, AllNull, StoppedIsQuiet
<1> QED
  BY <1>1, Invariant, PTL

\* Without a loss and without a failed start, uvc_stream_close frees a handle
\* that no transfer and no thread uses.
THEOREM FreedWhenUnused == Spec => []FreedWhileUsedOnlyAfterLoss
<1>1. IInv => FreedWhileUsedOnlyAfterLoss
  BY DEF IInv
<1> QED
  BY <1>1, Invariant, PTL

\* No frame with refused payload reaches the user, although hold_bfh_err is read
\* a second time outside the mutex.
THEOREM OnlyWholeFrames == Spec => []DamagedFrameNotGiven
<1>1. IInv => DamagedFrameNotGiven
  BY DEF IInv, CutIsMarked, DamagedFrameNotGiven
<1> QED
  BY <1>1, Invariant, PTL

----------------------------------------------------------------------------
(***************************************************************************)
(* The order of delivery.                                                  *)
(***************************************************************************)

\* Frame numbers ascend from given to seq, at the start and after every step.
LEMMA AscendStep ==
  /\ Init => NumbersAscend
  /\ IInv /\ NumbersAscend /\ [Next]_vars => NumbersAscend'
<1>1. Init => NumbersAscend
  BY DEF Init, NumbersAscend, NoFrame
<1>2. ASSUME IInv, NumbersAscend, [Next]_vars PROVE NumbersAscend'
  <2> DEFINE Numbers == <<seq, hseq, lastSeq, frame, given>>
  <2>0. /\ seq \in Nat /\ hseq \in Nat /\ lastSeq \in Nat
        /\ frame.seq \in Nat /\ given.seq \in Nat
    BY <1>2, Bounds DEF IInv, TypeOK, BuildType, HoldType, CallerType, Frames
  <2>1. CASE UNCHANGED Numbers
    BY <1>2, <2>1 DEF NumbersAscend
  <2>2. CASE StartAllocate
    BY <2>2 DEF StartAllocate, OpenCtrl, NumbersAscend, NoFrame
  <2>3. ASSUME NEW p \in Packets, PayloadHeader(p) PROVE NumbersAscend'
    BY <1>2, <2>0, <2>3
    DEF PayloadHeader, SwapBuffers, KeepBuffers, NextSeq, NumbersAscend,
        holdVars
  <2>4. CASE PayloadData
    BY <1>2, <2>0, <2>4
    DEF PayloadData, SwapBuffers, KeepBuffers, NextSeq, NumbersAscend, holdVars
  <2>5. CASE CallerTakes
    BY <1>2, <2>0, <2>5
    DEF CallerTakes, Populated, NumbersAscend, holdVars, buildVars
  <2>6. CASE CallerCalls
    BY <1>2, <2>0, <2>6 DEF CallerCalls, NumbersAscend, holdVars, buildVars
  <2>7. CASE StartRefused \/ StopStreaming \/ OwnerStops
             \/ \E t \in Transfers : Submit(t)
    <3>1. UNCHANGED Numbers
      BY <2>7
      DEF StartRefused, StopStreaming, OwnerStops, Submit, CloseChecksRunning,
          StopClearsRunning, CancelAll, CheckSlots, JoinCaller, Free,
          buildVars, holdVars, callerVars
    <3> QED
      BY <3>1, <2>1
  <2>8. CASE \/ \E t \in Transfers : TransferEnds(t)
             \/ PayloadBad \/ PayloadEnds \/ DecideResubmit \/ Resubmit
             \/ DeleteTransfer
    <3>1. UNCHANGED Numbers
      BY <2>8
      DEF TransferEnds, PayloadBad, PayloadEnds, DecideResubmit, Resubmit,
          DeleteTransfer, buildVars, holdVars, callerVars
    <3> QED
      BY <3>1, <2>1
  <2>9. CASE UserReturns \/ Unplug \/ UNCHANGED vars
    <3>1. UNCHANGED Numbers
      BY <2>9 DEF UserReturns, Unplug, vars, buildVars, holdVars, callerVars
    <3> QED
      BY <3>1, <2>1
  <2> QED
    BY <1>2, <2>2, <2>3, <2>4, <2>5, <2>6, <2>7, <2>8, <2>9
    DEF Next, Owner, EventThread, Caller
<1> QED
  BY <1>1, <1>2

\* Within a session the user's function never gets an older frame than before.
THEOREM DeliveryIsOrdered == Spec => OrderedDelivery
<1>1. IInv /\ NumbersAscend /\ [Next]_vars =>
        [cb = "reread" /\ cb' = "user" => given'.seq >= given.seq]_vars
  <2> SUFFICES ASSUME IInv, NumbersAscend, Next, cb = "reread", cb' = "user"
               PROVE given'.seq >= given.seq
    OBVIOUS
  <2>1. CASE Owner
    BY <2>1 DEF Owner, StartAllocate, StartRefused, StopStreaming, OwnerStops,
                Submit, CloseChecksRunning, StopClearsRunning, CancelAll,
                CheckSlots, TestSlots, JoinCaller, Free, callerVars
  <2>2. CASE EventThread
    BY <2>2 DEF EventThread, TransferEnds, PayloadHeader, PayloadData,
                PayloadBad, PayloadEnds, DecideResubmit, Resubmit,
                DeleteTransfer, SwapBuffers, KeepBuffers, callerVars
  <2>3. CASE Caller
    <3>1. given' = frame
      BY <2>3 DEF Caller, CallerTakes, CallerCalls, UserReturns
    <3> QED
      BY <3>1, Bounds DEF NumbersAscend, IInv, TypeOK, CallerType, Frames
  <2>4. CASE Unplug
    BY <2>4 DEF Unplug, callerVars
  <2> QED
    BY <2>1, <2>2, <2>3, <2>4 DEF Next
<1> QED
  BY <1>1, Invariant, AscendStep, PTL DEF Spec, OrderedDelivery

----------------------------------------------------------------------------
(***************************************************************************)
(* The contract.  Each step of the stream is a step of StreamSession or    *)
(* changes nothing of the session.                                         *)
(***************************************************************************)

\* A step of the session, or one the session does not see.
SessionStep == [Contract!SessionNext]_(Contract!svars)

\* The session sees only running, the callback thread and the freed handle.
LEMMA Unseen ==
  ASSUME running' = running, dangling' = dangling,
         cb' = cb \/ (cb = "wait" /\ cb' = "loop")
  PROVE  SessionStep
  BY DEF SessionStep, Contract!svars, SessionPhase

\* running is cleared while the stream runs: the session is told to stop.
LEMMA Cleared ==
  ASSUME IInv, running' \in {running, FALSE}, UNCHANGED <<dangling, cb>>,
         ~dangling
  PROVE  SessionStep
<1>1. CASE running' = running
  BY <1>1, Unseen
<1>2. CASE running' # running
  <2>1. running /\ ~running' /\ cb # "none"
    BY <1>2 DEF IInv, TypeOK, UsbType, RunningWhile
  <2>2. Contract!Stop
    BY <2>1 DEF Contract!Stop, SessionPhase
  <2> QED
    BY <2>2 DEF SessionStep, Contract!SessionNext
<1> QED
  BY <1>1, <1>2

\* The owner begins the session, stops it, ends it, or frees the handle too
\* early, which breaks it.
LEMMA OwnerKeeps == ASSUME IInv, Owner PROVE SessionStep
<1> USE DEF callerVars
<1>1. CASE StartAllocate
  <2>1. ~dangling /\ cb = "none" /\ dangling' = dangling
        /\ running' = TRUE /\ cb' = "loop"
    BY <1>1 DEF StartAllocate, IInv, CallerLives
  <2>2. Contract!Begin
    BY <2>1 DEF Contract!Begin, SessionPhase
  <2> QED
    BY <2>2 DEF SessionStep, Contract!SessionNext
<1>2. CASE StartRefused \/ StopStreaming \/ CloseChecksRunning
           \/ StopClearsRunning \/ \E t \in Transfers : Submit(t)
  <2>1. running' \in {running, FALSE} /\ UNCHANGED <<dangling, cb>>
        /\ ~dangling
    BY <1>2 DEF StartRefused, StopStreaming, CloseChecksRunning,
                StopClearsRunning, Submit
  <2> QED
    BY <2>1, Cleared
<1>3. CASE CancelAll \/ CheckSlots
  <2>1. /\ running' = running /\ dangling' = dangling
        /\ cb' = cb \/ (cb = "wait" /\ cb' = "loop")
    BY <1>3 DEF CancelAll, CheckSlots, TestSlots
  <2> QED
    BY <2>1, Unseen
<1>4. CASE JoinCaller
  <2>1. ~dangling /\ UNCHANGED <<dangling, running>> /\ ~running
        /\ cb = "done" /\ cb' = "none"
    BY <1>4 DEF JoinCaller, IInv, RunningWhile
  <2>2. Contract!End
    BY <2>1 DEF Contract!End, SessionPhase
  <2> QED
    BY <2>2 DEF SessionStep, Contract!SessionNext
<1>5. CASE Free
  <2>1. ~dangling /\ running' = running /\ ~running
    BY <1>5 DEF Free, IInv, TypeOK, UsbType, RunningWhile
  <2>2. CASE dangling'
    <3>1. cb # "none" /\ cb' = cb
      BY <1>5, <2>2 DEF Free, IInv, CallerLives, AllNull
    <3>2. Contract!Break
      BY <2>1, <2>2, <3>1 DEF Contract!Break, SessionPhase
    <3> QED
      BY <3>2 DEF SessionStep, Contract!SessionNext
  <2>3. CASE ~dangling'
    <3>1. cb \in {"none", "done"} /\ cb' = "none"
      BY <1>5, <2>3 DEF Free
    <3>2. Contract!End \/ UNCHANGED Contract!svars
      BY <2>1, <2>3, <3>1 DEF Contract!End, Contract!svars, SessionPhase
    <3> QED
      BY <3>2 DEF SessionStep, Contract!SessionNext
  <2> QED
    BY <2>2, <2>3
<1> QED
  BY <1>1, <1>2, <1>3, <1>4, <1>5 DEF Owner, OwnerStops

\* The event thread can only stop the session, when the device is lost.
LEMMA EventThreadKeeps == ASSUME IInv, EventThread PROVE SessionStep
<1> USE DEF callerVars
<1>1. CASE \E t \in Transfers : TransferEnds(t)
  <2>1. running' \in {running, FALSE} /\ UNCHANGED <<dangling, cb>>
        /\ ~dangling
    BY <1>1 DEF TransferEnds, Completed, Retried, Ended
  <2> QED
    BY <2>1, Cleared
<1>2. CASE \/ \E p \in Packets : PayloadHeader(p)
           \/ PayloadData \/ PayloadBad \/ PayloadEnds
           \/ DecideResubmit \/ Resubmit \/ DeleteTransfer
  <2>1. /\ running' = running /\ dangling' = dangling
        /\ cb' = cb \/ (cb = "wait" /\ cb' = "loop")
    BY <1>2 DEF PayloadHeader, PayloadData, PayloadBad, PayloadEnds,
                DecideResubmit, Resubmit, DeleteTransfer, SwapBuffers,
                KeepBuffers
  <2> QED
    BY <2>1, Unseen
<1> QED
  BY <1>1, <1>2 DEF EventThread

\* The callback thread makes the calls: the last one may begin after the stop.
LEMMA CallerKeeps == ASSUME IInv, Caller PROVE SessionStep
<1>1. /\ ~dangling /\ UNCHANGED <<dangling, running>>
      /\ dangling \in BOOLEAN /\ running \in BOOLEAN
  BY DEF Caller, CallerTakes, CallerCalls, UserReturns, IInv, TypeOK, UsbType
<1>2. CASE CallerTakes
  <2>1. cb = "loop" /\ (~running => cb' = "done")
        /\ cb' \in {"done", "wait", "reread"}
    BY <1>2 DEF CallerTakes, Leaves
  <2>2. UNCHANGED Contract!svars
    BY <1>1, <2>1 DEF Contract!svars, SessionPhase
  <2> QED
    BY <2>2 DEF SessionStep
<1>3. CASE CallerCalls
  <2>1. cb = "reread" /\ cb' \in {"loop", "user"}
    BY <1>3 DEF CallerCalls
  <2>2. \/ Contract!Deliver \/ Contract!Forgo \/ UNCHANGED Contract!svars
    BY <1>1, <2>1 DEF Contract!Deliver, Contract!Forgo, Contract!svars,
                      SessionPhase
  <2> QED
    BY <2>2 DEF SessionStep, Contract!SessionNext
<1>4. CASE UserReturns
  <2>1. cb = "user" /\ cb' = "loop"
    BY <1>4 DEF UserReturns
  <2>2. Contract!Return
    BY <1>1, <2>1 DEF Contract!Return, SessionPhase
  <2> QED
    BY <2>2 DEF SessionStep, Contract!SessionNext
<1> QED
  BY <1>2, <1>3, <1>4 DEF Caller

\* The stream implements the session contract: one call at a time, at most one
\* begins after the stop, none is in progress when the stream was closed.
THEOREM StreamKeepsContract == Spec => KeepsContract
<1>1. Init => Contract!SessionInit
  BY DEF Init, Contract!SessionInit, SessionPhase
<1>2. IInv /\ [Next]_vars => [Contract!SessionNext]_(Contract!svars)
  <2> SUFFICES ASSUME IInv, [Next]_vars PROVE SessionStep
    BY DEF SessionStep
  <2>1. CASE Unplug
    <3>1. running' = running /\ dangling' = dangling /\ cb' = cb
      BY <2>1 DEF Unplug, callerVars
    <3> QED
      BY <3>1, Unseen
  <2>2. CASE UNCHANGED vars
    <3>1. running' = running /\ dangling' = dangling /\ cb' = cb
      BY <2>2 DEF vars, callerVars
    <3> QED
      BY <3>1, Unseen
  <2> QED
    BY <2>1, <2>2, OwnerKeeps, EventThreadKeeps, CallerKeeps DEF Next
<1> QED
  BY <1>1, <1>2, Invariant, PTL DEF Spec, KeepsContract, Contract!Session

----------------------------------------------------------------------------
(***************************************************************************)
(* The transfers.  The slots that change do so as libusb's contract says.  *)
(***************************************************************************)
ServiceStep == [Libusb!ServiceNext]_(Libusb!tvars)

InFlight == {t \in Transfers : xfer[t] = "flight"}
Called == {t \in Transfers : xfer[t] = "cb"}

\* A step that moves no transfer into or out of libusb's hands.
LEMMA Untouched ==
  ASSUME InFlight' = InFlight, Called' = Called
  PROVE  ServiceStep
  BY DEF ServiceStep, Libusb!tvars, InFlight, Called

\* What a step does to one slot.
LEMMA SlotMoves ==
  ASSUME UsbType, NEW t \in Transfers,
         NEW s \in {"null", "idle", "flight", "cb"}, xfer' = [xfer EXCEPT ![t] = s]
  PROVE  /\ InFlight' = IF s = "flight" THEN InFlight \union {t}
                                        ELSE InFlight \ {t}
         /\ Called' = IF s = "cb" THEN Called \union {t} ELSE Called \ {t}
  BY DEF UsbType, InFlight, Called

\* The owner submits transfers that are in nobody's hands, and takes or gives
\* back the slots when all are empty.
LEMMA OwnerUses == ASSUME IInv, Owner PROVE ServiceStep
<1>1. UsbType /\ OwnerType
  BY DEF IInv, TypeOK
<1>2. CASE \E t \in Transfers : Submit(t)
  <2>1. PICK t \in Transfers : Submit(t)
    BY <1>2
  <2>2. xfer[t] = "idle"
    BY <2>1 DEF Submit, IInv, WaitsForStart
  <2>3. CASE xfer' = [xfer EXCEPT ![t] = "flight"]
    <3>1. t \notin InFlight /\ t \notin Called
      BY <2>2 DEF InFlight, Called
    <3>2. InFlight' = InFlight \union {t} /\ Called' = Called \ {t}
      BY <1>1, <2>3, SlotMoves
    <3>3. Called' = Called
      BY <3>1, <3>2
    <3>4. Libusb!Submit(t)
      BY <3>1, <3>2, <3>3 DEF Libusb!Submit, InFlight, Called
    <3> QED
      BY <3>4 DEF ServiceStep, Libusb!ServiceNext
  <2>4. CASE xfer' = xfer
    BY <2>4, Untouched DEF InFlight, Called
  <2> QED
    BY <2>1, <2>3, <2>4 DEF Submit
<1>3. CASE StartAllocate
  <2>1. AllNull(xfer)
    BY <1>3 DEF StartAllocate, IInv, CallerLives
  <2>2. InFlight = {} /\ Called = {} /\ InFlight' = {} /\ Called' = {}
    BY <1>3, <2>1 DEF AllNull, StartAllocate, InFlight, Called
  <2> QED
    BY <2>2, Untouched
<1>4. CASE Free
  <2>1. CASE dangling'
    BY <1>4, <2>1, Untouched DEF Free, InFlight, Called
  <2>2. CASE ~dangling'
    <3>1. InFlight = {} /\ Called = {} /\ InFlight' = {} /\ Called' = {}
      BY <1>4, <2>2 DEF Free, InFlight, Called
    <3> QED
      BY <3>1, Untouched
  <2> QED
    BY <2>1, <2>2
<1>5. CASE \/ StartRefused \/ StopStreaming \/ CloseChecksRunning
           \/ StopClearsRunning \/ CancelAll \/ CheckSlots \/ JoinCaller
  <2>1. xfer' = xfer
    BY <1>5 DEF StartRefused, StopStreaming, CloseChecksRunning,
                StopClearsRunning, CancelAll, CheckSlots, JoinCaller, usbVars
  <2> QED
    BY <2>1, Untouched DEF InFlight, Called
<1> QED
  BY <1>2, <1>3, <1>4, <1>5 DEF Owner, OwnerStops

\* The event thread is called back for one transfer, and returns with it
\* submitted again, deleted, or left in its slot.
LEMMA EventThreadUses == ASSUME IInv, EventThread PROVE ServiceStep
<1>1. UsbType /\ EventType /\ OneInCallback
  BY DEF IInv, TypeOK
<1>2. CASE \E t \in Transfers : TransferEnds(t)
  <2>1. PICK t \in Transfers : TransferEnds(t)
    BY <1>2
  <2>2. t \in InFlight /\ Called = {}
    <3>1. evt = NoTransfer /\ xfer[t] = "flight"
      BY <1>1, <2>1 DEF TransferEnds, OneInCallback
    <3>2. \A u \in Transfers : xfer[u] # "cb"
      BY <1>1, <3>1, NoTransferIsNotASlot DEF OneInCallback
    <3> QED
      BY <3>1, <3>2 DEF InFlight, Called
  <2>3. InFlight' = InFlight \ {t} /\ Called' = Called \union {t}
    <3>1. xfer' = [xfer EXCEPT ![t] = "cb"]
      BY <2>1 DEF TransferEnds
    <3> QED
      BY <1>1, <3>1, SlotMoves
  <2>4. Called' = {t}
    BY <2>2, <2>3
  <2>5. Libusb!CallBack(t)
    BY <2>2, <2>3, <2>4 DEF Libusb!CallBack, InFlight, Called
  <2> QED
    BY <2>5 DEF ServiceStep, Libusb!ServiceNext
<1>3. CASE Resubmit \/ DeleteTransfer
  <2>1. evt \in Transfers /\ Called = {evt} /\ evt \notin InFlight
    BY <1>1, <1>3 DEF Resubmit, DeleteTransfer, OneInCallback, EventType,
                      InFlight, Called
  <2>2. PICK s \in {"flight", "idle", "null"} :
          xfer' = [xfer EXCEPT ![evt] = s]
    BY <1>3 DEF Resubmit, DeleteTransfer
  <2>3. InFlight' \in {InFlight, InFlight \union Called} /\ Called' = {}
    <3>1. Called' = Called \ {evt}
      BY <1>1, <2>1, <2>2, SlotMoves
    <3>2. InFlight' \in {InFlight \union {evt}, InFlight \ {evt}}
      BY <1>1, <2>1, <2>2, SlotMoves
    <3> QED
      BY <2>1, <3>1, <3>2
  <2>4. Libusb!CallbackReturns
    BY <2>1, <2>3 DEF Libusb!CallbackReturns, InFlight, Called
  <2> QED
    BY <2>4 DEF ServiceStep, Libusb!ServiceNext
<1>4. CASE \/ \E p \in Packets : PayloadHeader(p)
           \/ PayloadData \/ PayloadBad \/ PayloadEnds \/ DecideResubmit
  <2>1. xfer' = xfer
    BY <1>4 DEF PayloadHeader, PayloadData, PayloadBad, PayloadEnds,
                DecideResubmit, usbVars
  <2> QED
    BY <2>1, Untouched DEF InFlight, Called
<1> QED
  BY <1>2, <1>3, <1>4 DEF EventThread

\* The stream keeps its side of the contract with libusb: it submits a transfer
\* that nobody has, and deletes none that is in flight.
THEOREM StreamUsesTransfers == Spec => UsesTransfers
<1>1. Init => Libusb!ServiceInit
  BY DEF Init, Libusb!ServiceInit
<1>2. IInv /\ [Next]_vars => [Libusb!ServiceNext]_(Libusb!tvars)
  <2> SUFFICES ASSUME IInv, [Next]_vars PROVE ServiceStep
    BY DEF ServiceStep
  <2>1. CASE Caller \/ Unplug \/ UNCHANGED vars
    <3>1. xfer' = xfer
      BY <2>1 DEF Caller, CallerTakes, CallerCalls, UserReturns, Unplug, vars,
                  usbVars
    <3> QED
      BY <3>1, Untouched DEF InFlight, Called
  <2> QED
    BY <2>1, OwnerUses, EventThreadUses DEF Next
<1> QED
  BY <1>1, <1>2, Invariant, PTL DEF Spec, UsesTransfers, Libusb!Service

\* And it expects no more of libusb than the contract: whenever that allows a
\* transfer to be called back, the event thread can take the call.
THEOREM TakesEveryCallback ==
    Spec => [](\A t \in Transfers :
                  xfer[t] = "flight" /\ (\A u \in Transfers : xfer[u] # "cb")
                      => dangling \/ EventAt("wait"))
<1>1. IInv => (\A t \in Transfers :
                  xfer[t] = "flight" /\ (\A u \in Transfers : xfer[u] # "cb")
                      => dangling \/ EventAt("wait"))
  BY DEF IInv, TypeOK, EventType, OneInCallback
<1> QED
  BY <1>1, Invariant, PTL

=============================================================================
