-------------------------- MODULE UvcDevice_proofs --------------------------
(***************************************************************************)
(* What UvcDevice guarantees for every set of threads that make control    *)
(* transfers: its type invariant, and the safety properties, which follow  *)
(* from one inductive invariant, IInv.                                     *)
(*                                                                         *)
(* Every step has a lemma.  What it does to the places of the threads, to  *)
(* the lock and to the waiters (ThreadInv) depends on those only; what it  *)
(* does to the device handle (HandleInv) also depends on who has the lock. *)
(***************************************************************************)
EXTENDS UvcDevice, TLAPS

\* What the assumptions say of the names of threads and transfers.
LEMMA Actors ==
    /\ Threads = Callers \union {"event"}
    /\ "owner" \in Callers
    /\ Callers \intersect {"event", "status", "stream", "none"} = {}
    /\ Transfers = Callers \union {"status", "stream"}
  BY CallersAreThreads, OwnerCalls DEF Threads, Transfers, Async

USE Actors
USE DEF Go, GoOwner, OwnerAt, None, Deleting, CalledBack, Stopping, Quiet,
        OwnerPoints, EventPoints, CallerPoints, HandlePoints, ClosePoints,
        Points, HandlerPoints, LockPoints,
        lockVars, pollVars, xferVars, eventVars, fdVars, cameraVars, deviceVars

\* What the threads know of each other and of the handle: the invariant but for
\* the transfers.
Coordination == TypeOK /\ ThreadInv /\ HandleInv

USE DEF Coordination, TypeOK, EventsType, DeviceType, ThreadInv, Places,
        HolderHasLock, OneModifier, WaitersWait, WaiterWillBeWoken, HandleInv,
        HandleOf, PreviewHasDevice, ClosedIsQuiet, SetIsThere,
        CallbackWhileOpen, EventThreadRuns, StatusListened, UsbfsHasDescriptor

\* Connecting: the device handle appears with its event thread.
LEMMA ConnectSteps ==
  ASSUME Coordination, ConnectFails \/ Connect \/ Install
  PROVE Coordination'
<1>1. CASE ConnectFails
  <2> USE <1>1 DEF ConnectFails
  <2>1. EventsType(Points)'
    OBVIOUS
  <2>2. DeviceType'
    OBVIOUS
  <2>3. ThreadInv'
    OBVIOUS
  <2>4. HandleInv'
    OBVIOUS
  <2> QED
    BY <2>1, <2>2, <2>3, <2>4
<1>2. CASE Connect
  <2> USE <1>2 DEF Connect, Started
  <2>1. EventsType(Points)'
    OBVIOUS
  <2>2. DeviceType'
    OBVIOUS
  <2>3. ThreadInv'
    OBVIOUS
  <2>4. HandleInv'
    <3>1. HandleOf' /\ PreviewHasDevice' /\ ClosedIsQuiet'
      OBVIOUS
    <3>2. SetIsThere' /\ EventThreadRuns' /\ UsbfsHasDescriptor'
      OBVIOUS
    <3>3. StatusListened'
      OBVIOUS
    <3>4. CallbackWhileOpen'
      OBVIOUS
    <3> QED
      BY <3>1, <3>2, <3>3, <3>4
  <2> QED
    BY <2>1, <2>2, <2>3, <2>4
<1>3. CASE Install
  BY <1>3 DEF Install
<1> QED
  BY <1>1, <1>2, <1>3

\* Control transfers and the preview: the threads of a preview work for an open
\* device only.
LEMMA PreviewSteps ==
  ASSUME Coordination, NEW c \in Callers,
         \/ Ask(c) \/ StartStream(c) \/ PreviewEnds
         \/ StartPreview \/ BeginStop \/ Stopped
  PROVE Coordination'
<1>1. CASE Ask(c)
  BY <1>1 DEF Ask, MayAsk, SubmitSync
<1>2. CASE StartStream(c)
  BY <1>2 DEF StartStream, MayAsk
<1>3. CASE StartPreview
  BY <1>3 DEF StartPreview
<1>4. CASE BeginStop
  BY <1>4 DEF BeginStop
<1>5. CASE Stopped
  BY <1>5 DEF Stopped, StreamOver
<1>6. CASE PreviewEnds
  BY <1>6 DEF PreviewEnds
<1> QED
  BY <1>1, <1>2, <1>3, <1>4, <1>5, <1>6

\* Releasing, before and after libusb_close.
LEMMA ReleaseSteps ==
  ASSUME Coordination,
         \/ DeleteListeners \/ TellEventThread \/ JoinAndFree \/ FinishRelease
         \/ Destroy
  PROVE Coordination'
<1>1. CASE DeleteListeners
  <2> USE <1>1 DEF DeleteListeners
  <2>1. EventsType(Points)'
    OBVIOUS
  <2>2. DeviceType'
    OBVIOUS
  <2>3. ThreadInv'
    OBVIOUS
  <2>4. HandleInv'
    OBVIOUS
  <2> QED
    BY <2>1, <2>2, <2>3, <2>4
<1>2. CASE JoinAndFree
  <2> USE <1>2 DEF JoinAndFree, Joined
  <2>1. EventsType(Points)'
    OBVIOUS
  <2>2. DeviceType'
    OBVIOUS
  <2>3. ThreadInv'
    OBVIOUS
  <2>4. HandleInv'
    OBVIOUS
  <2> QED
    BY <2>1, <2>2, <2>3, <2>4
<1>3. CASE FinishRelease
  <2> USE <1>3 DEF FinishRelease, ClearUsbfs
  <2>1. EventsType(Points)'
    OBVIOUS
  <2>2. DeviceType'
    OBVIOUS
  <2>3. ThreadInv'
    OBVIOUS
  <2>4. HandleInv'
    OBVIOUS
  <2> QED
    BY <2>1, <2>2, <2>3, <2>4
<1>4. CASE Destroy
  <2> USE <1>4 DEF Destroy
  <2>1. EventsType(Points)'
    OBVIOUS
  <2>2. DeviceType'
    OBVIOUS
  <2>3. ThreadInv'
    OBVIOUS
  <2>4. HandleInv'
    OBVIOUS
  <2> QED
    BY <2>1, <2>2, <2>3, <2>4
<1>5. CASE TellEventThread
  <2> USE <1>5 DEF TellEventThread
  <2>1. EventsType(Points)'
    OBVIOUS
  <2>2. DeviceType'
    OBVIOUS
  <2>3. ThreadInv'
    OBVIOUS
  <2>4. HandleInv'
    OBVIOUS
  <2> QED
    BY <2>1, <2>2, <2>3, <2>4
<1> QED
  BY <1>1, <1>2, <1>3, <1>4, <1>5

\* libusb_close takes the lock when no thread handles events, and keeps it while
\* the handle is taken out of use.
LEMMA CloseSteps ==
  ASSUME Coordination, Close
  PROVE Coordination'
<1>1. CASE ModifyPollfds("owner")
  BY <1>1 DEF Close, ModifyPollfds
<1>2. CASE Poke("owner")
  BY <1>2 DEF Close, Poke
<1>3. CASE CloserLocks("owner")
  BY <1>3 DEF Close, CloserLocks, LockFree
<1>4. CASE CloserDrops("owner")
  <2> USE <1>4 DEF Close, CloserDrops, WakeWaiters
  <2>1. EventsType(Points)'
    <3>1. at' \in [Threads -> Points] /\ ready' \in Seq(Transfers)
      OBVIOUS
    <3>2. holder' \in Threads \union {None} /\ waiting' \subseteq Threads
      OBVIOUS
    <3>3. active' \in BOOLEAN
      OBVIOUS
    <3>4. /\ modify' \in Nat /\ pipe' \in Nat
          /\ flying' \subseteq Transfers /\ done' \subseteq Callers
      OBVIOUS
    <3> QED
      BY <3>1, <3>2, <3>3, <3>4
  <2>2. DeviceType'
    OBVIOUS
  <2>3. ThreadInv'
    OBVIOUS
  <2>4. HandleInv'
    OBVIOUS
  <2> QED
    BY <2>1, <2>2, <2>3, <2>4
<1>5. CASE CloserModified("owner")
  BY <1>5 DEF Close, CloserModified
<1>6. CASE CloserUnlocks("owner")
  <2> USE <1>6 DEF Close, CloserUnlocks, UnlockEvents, WakeWaiters
  <2>1. EventsType(Points)'
    OBVIOUS
  <2>2. DeviceType'
    OBVIOUS
  <2>3. ThreadInv'
    OBVIOUS
  <2>4. HandleInv'
    OBVIOUS
  <2> QED
    BY <2>1, <2>2, <2>3, <2>4
<1> QED
  BY <1>1, <1>2, <1>3, <1>4, <1>5, <1>6 DEF Close, LibusbClose

\* Handling events: the lock passes from thread to thread, and who releases it
\* wakes the waiters.
LEMMA HandlerSteps ==
  ASSUME Coordination, NEW t \in Threads,
         HandleEvents(t) \/ TimesOut(t), UNCHANGED deviceVars
  PROVE Coordination'
<1>1. CASE TryLock(t)
  <2> USE <1>1 DEF TryLock, Completed
  <2>1. EventsType(Points)'
    <3>1. at' \in [Threads -> Points] /\ ready' \in Seq(Transfers)
      OBVIOUS
    <3>2. holder' \in Threads \union {None} /\ waiting' \subseteq Threads
      OBVIOUS
    <3>3. active' \in BOOLEAN
      OBVIOUS
    <3>4. /\ modify' \in Nat /\ pipe' \in Nat
          /\ flying' \subseteq Transfers /\ done' \subseteq Callers
      OBVIOUS
    <3> QED
      BY <3>1, <3>2, <3>3, <3>4
  <2>2. DeviceType'
    OBVIOUS
  <2>3. ThreadInv'
    OBVIOUS
  <2>4. HandleInv'
    OBVIOUS
  <2> QED
    BY <2>1, <2>2, <2>3, <2>4
<1>2. CASE BecomeWaiter(t)
  BY <1>2 DEF BecomeWaiter, Completed, HandlerActive, Return
<1>3. CASE Woken(t)
  BY <1>3 DEF Woken, Return
<1>4. CASE WaitTimesOut(t)
  BY <1>4 DEF WaitTimesOut
<1>5. CASE PollReturns(t)
  BY <1>5 DEF PollReturns
<1>6. CASE PollTimesOut(t)
  BY <1>6 DEF PollTimesOut
<1>7. CASE ReapEnds(t)
  BY <1>7 DEF ReapEnds
<1>8. CASE HandlerUnlocks(t)
  <2> USE <1>8 DEF HandlerUnlocks, UnlockEvents, WakeWaiters, Return
  <2>1. EventsType(Points)'
    OBVIOUS
  <2>2. DeviceType'
    OBVIOUS
  <2>3. ThreadInv'
    OBVIOUS
  <2>4. HandleInv'
    OBVIOUS
  <2> QED
    BY <2>1, <2>2, <2>3, <2>4
<1>9. CASE \E x \in Callers : ReapSync(t, x)
  BY <1>9 DEF ReapSync, Reap, Mark, WakeWaiters
<1>10. CASE ReadModify(t)
  BY <1>10 DEF ReadModify
<1> QED
  BY <1>1, <1>2, <1>3, <1>4, <1>5, <1>6, <1>7, <1>8, <1>9, <1>10
  DEF HandleEvents, TimesOut

\* The callbacks of libuvc run under the lock, so before the handle is closed.
LEMMA CallbackSteps ==
  ASSUME Coordination, NEW t \in Threads,
         \/ ReapStatus(t) \/ Notified(t) \/ Resubmit(t)
         \/ ReapStream(t) \/ StreamCalledBack(t)
  PROVE Coordination'
<1>1. CASE ReapStatus(t)
  <2> USE <1>1 DEF ReapStatus, Reap, WakeWaiters
  <2>1. EventsType(Points)'
    OBVIOUS
  <2>2. DeviceType'
    <3>1. lost' \in BOOLEAN
      OBVIOUS
    <3> QED
      BY <3>1
  <2>3. ThreadInv'
    OBVIOUS
  <2>4. HandleInv'
    OBVIOUS
  <2> QED
    BY <2>1, <2>2, <2>3, <2>4
<1>2. CASE Notified(t)
  BY <1>2 DEF Notified
<1>3. CASE Resubmit(t)
  <2> USE <1>3 DEF Resubmit, SubmitStatus, WakeWaiters
  <2>1. EventsType(Points)'
    OBVIOUS
  <2>2. DeviceType'
    <3>1. lost' \in BOOLEAN
      OBVIOUS
    <3> QED
      BY <3>1
  <2>3. ThreadInv'
    OBVIOUS
  <2>4. HandleInv'
    OBVIOUS
  <2> QED
    BY <2>1, <2>2, <2>3, <2>4
<1>4. CASE ReapStream(t)
  BY <1>4 DEF ReapStream, Reap
<1>5. CASE StreamCalledBack(t)
  BY <1>5 DEF StreamCalledBack, WakeWaiters
<1> QED
  BY <1>1, <1>2, <1>3, <1>4, <1>5

\* The other steps of the threads, the kernel and the device.
LEMMA OtherSteps ==
  ASSUME Coordination,
         \/ EventLoop \/ Unplug \/ Replug
         \/ \E c \in Callers : SyncLoop(c) /\ UNCHANGED deviceVars
         \/ \E x \in Transfers : KernelCompletes(x)
  PROVE Coordination'
<1>1. CASE EventLoop
  BY <1>1 DEF EventLoop
<1>2. CASE Unplug
  <2> USE <1>2 DEF Unplug
  <2>1. EventsType(Points)'
    OBVIOUS
  <2>2. DeviceType'
    <3>1. attached' \in BOOLEAN
      OBVIOUS
    <3> QED
      BY <3>1
  <2>3. ThreadInv'
    OBVIOUS
  <2>4. HandleInv'
    OBVIOUS
  <2> QED
    BY <2>1, <2>2, <2>3, <2>4
<1>3. CASE Replug
  BY <1>3 DEF Replug
<1>4. CASE \E c \in Callers : SyncLoop(c) /\ UNCHANGED deviceVars
  BY <1>4 DEF SyncLoop, Completed
<1>5. CASE \E x \in Transfers : KernelCompletes(x)
  BY <1>5 DEF KernelCompletes, Complete, Finished
<1> QED
  BY <1>1, <1>2, <1>3, <1>4, <1>5

\* The initial state satisfies the invariant.
LEMMA InitCoordination == Init => Coordination
<1> SUFFICES ASSUME Init PROVE Coordination
  OBVIOUS
<1> USE DEF Init, EventsInit
<1>1. EventsType(Points)
  <2>1. at \in [Threads -> Points] /\ ready \in Seq(Transfers)
    OBVIOUS
  <2>2. holder \in Threads \union {None} /\ waiting \subseteq Threads
    OBVIOUS
  <2>3. active \in BOOLEAN
    OBVIOUS
  <2>4. /\ modify \in Nat /\ pipe \in Nat
        /\ flying \subseteq Transfers /\ done \subseteq Callers
    OBVIOUS
  <2> QED
    BY <2>1, <2>2, <2>3, <2>4
<1>2. DeviceType
  OBVIOUS
<1>3. ThreadInv
  OBVIOUS
<1>4. HandleInv
  OBVIOUS
<1> QED
  BY <1>1, <1>2, <1>3, <1>4

\* Every step keeps it.
LEMMA StepCoordination == Coordination /\ [Next]_vars => Coordination'
<1> SUFFICES ASSUME Coordination, [Next]_vars PROVE Coordination'
  OBVIOUS
<1>1. CASE Application \/ Negotiated
  BY <1>1, ConnectSteps, PreviewSteps, ReleaseSteps DEF Application, Negotiated
<1>2. CASE Install \/ Release
  BY <1>2, ConnectSteps, PreviewSteps, ReleaseSteps, CloseSteps DEF Release
<1>3. CASE \/ \E c \in Callers : CallerRuns(c)
           \/ ThreadRuns("event") \/ \E t \in Threads : Waits(t)
  BY <1>3, HandlerSteps, CallbackSteps, OtherSteps
  DEF CallerRuns, ThreadRuns, Waits
<1>4. CASE \/ EventLoop \/ \E x \in Transfers : KernelCompletes(x)
           \/ Unplug \/ Replug
  BY <1>4, OtherSteps
<1>5. CASE UNCHANGED vars
  BY <1>5 DEF vars
<1> QED
  BY <1>1, <1>2, <1>3, <1>4, <1>5 DEF Next

HIDE DEF Coordination, TypeOK, EventsType, DeviceType, ThreadInv, Places,
         HolderHasLock, OneModifier, WaitersWait, WaiterWillBeWoken, HandleInv,
         HandleOf, PreviewHasDevice, ClosedIsQuiet, SetIsThere,
         CallbackWhileOpen, EventThreadRuns, StatusListened, UsbfsHasDescriptor


----------------------------------------------------------------------------
(***************************************************************************)
(* The transfers: who has which, and when.                                 *)
(***************************************************************************)
Elements(s) == {s[i] : i \in 1..Len(s)}
Once(s) == \A i, j \in 1..Len(s) : s[i] = s[j] => i = j

\* The first of a list without repetitions does not come again.
LEMMA TailOnce ==
  ASSUME NEW S, NEW s \in Seq(S), s # <<>>, Once(s)
  PROVE  /\ Head(s) \in Elements(s)
         /\ Elements(Tail(s)) = Elements(s) \ {Head(s)}
         /\ Once(Tail(s))
<1>1. /\ Len(s) \in Nat /\ Len(s) >= 1 /\ Head(s) = s[1]
      /\ Len(Tail(s)) = Len(s) - 1
      /\ \A i \in 1..Len(Tail(s)) : Tail(s)[i] = s[i + 1]
  OBVIOUS
<1>2. Head(s) \in Elements(s)
  BY <1>1 DEF Elements
<1>3. Once(Tail(s))
  BY <1>1 DEF Once
<1>4. Elements(Tail(s)) \subseteq Elements(s) \ {Head(s)}
  BY <1>1 DEF Elements, Once
<1>5. Elements(s) \ {Head(s)} \subseteq Elements(Tail(s))
  <2> SUFFICES ASSUME NEW i \in 1..Len(s), s[i] # Head(s)
               PROVE  s[i] \in Elements(Tail(s))
    BY DEF Elements
  <2>1. i - 1 \in 1..Len(Tail(s)) /\ Tail(s)[i - 1] = s[i]
    BY <1>1
  <2> QED
    BY <2>1 DEF Elements
<1> QED
  BY <1>2, <1>3, <1>4, <1>5

\* Nor does what is appended, if it was not there.
LEMMA AppendOnce ==
  ASSUME NEW S, NEW s \in Seq(S), NEW x \in S, x \notin Elements(s), Once(s)
  PROVE  /\ Elements(Append(s, x)) = Elements(s) \union {x}
         /\ Once(Append(s, x))
<1>1. /\ Len(s) \in Nat /\ Len(Append(s, x)) = Len(s) + 1
      /\ Append(s, x)[Len(s) + 1] = x
      /\ \A i \in 1..Len(s) : Append(s, x)[i] = s[i]
  OBVIOUS
<1>2. Once(Append(s, x))
  BY <1>1 DEF Once, Elements
<1>3. Elements(Append(s, x)) = Elements(s) \union {x}
  BY <1>1 DEF Elements
<1> QED
  BY <1>2, <1>3

\* A transfer that is reaped was in flight; after it, it is neither in flight nor
\* finished.
LEMMA Reaped ==
  ASSUME EventsType(Points), FinishedOnce, NEW t, NEW x, Reap(t, x)
  PROVE  x \in flying /\ FinishedOnce'
<1>1. ready \in Seq(Transfers) /\ ready # <<>> /\ Once(ready)
      /\ Finished = Elements(ready) /\ x = Head(ready)
      /\ ready' = Tail(ready) /\ flying' = flying \ {x}
      /\ Finished' = Elements(ready')
  BY DEF EventsType, FinishedOnce, Reap, Finished, Elements, Once
<1>2. /\ x \in Finished /\ Finished' = Finished \ {x} /\ Once(ready')
  BY <1>1, TailOnce
<1> QED
  BY <1>1, <1>2 DEF FinishedOnce, Once

\* The list of finished transfers is part of those in flight.
LEMMA FinishedSteps ==
  ASSUME IInv, Next
  PROVE  FinishedOnce'
<1>1. EventsType(Points) /\ FinishedOnce /\ ClosedIsQuiet
  BY DEF IInv, TypeOK, TransferInv, HandleInv
<1>2. CASE flying \subseteq flying' /\ ready' = ready
  BY <1>1, <1>2 DEF FinishedOnce, Finished
<1>3. CASE ready' = <<>>
  BY <1>3 DEF FinishedOnce, Finished
<1>4. CASE \E t \in Threads, x \in Transfers : Reap(t, x)
  BY <1>1, <1>4, Reaped
<1>5. CASE \E x \in Transfers : Complete(x)
  <2>1. PICK x \in Transfers : Complete(x)
    BY <1>5
  <2>2. ready \in Seq(Transfers) /\ Once(ready) /\ Finished = Elements(ready)
        /\ x \in flying /\ x \notin Elements(ready)
        /\ ready' = Append(ready, x) /\ flying' = flying
        /\ Finished' = Elements(ready')
    BY <1>1, <2>1 DEF EventsType, FinishedOnce, Complete, Finished, Elements,
                      Once
  <2>3. Finished' = Finished \union {x} /\ Once(ready')
    BY <2>2, AppendOnce
  <2> QED
    BY <1>1, <2>2, <2>3 DEF FinishedOnce, Once
<1>6. \/ flying \subseteq flying' /\ ready' = ready
      \/ ready' = <<>>
      \/ \E t \in Threads, x \in Transfers : Reap(t, x)
      \/ \E x \in Transfers : Complete(x)
  <2>1. CASE Application \/ Install \/ Negotiated
    BY <1>1, <2>1
    DEF Negotiated, PreviewEnds, Application, ConnectFails, Connect,
        StartPreview, BeginStop, Destroy, Ask, StartStream, SubmitSync, Install, ClosedIsQuiet
  <2>2. CASE Release
    BY <2>2
    DEF Release, Stopped, DeleteListeners, JoinAndFree, FinishRelease, Close,
        LibusbClose, ModifyPollfds, Poke, CloserLocks, CloserDrops,
        CloserModified, CloserUnlocks, TellEventThread
  <2>3. CASE \E t \in Threads : ThreadRuns(t) \/ Waits(t)
    BY <2>3
    DEF ThreadRuns, Waits, TimesOut, WaitTimesOut, PollTimesOut, HandleEvents,
        ReadModify, TryLock, BecomeWaiter, Woken, PollReturns, ReapEnds,
        HandlerUnlocks, ReapSync, ReapStatus, Notified, Resubmit, SubmitStatus,
        ReapStream, StreamCalledBack
  <2>4. CASE \/ \E c \in Callers : SyncLoop(c)
             \/ EventLoop \/ Unplug \/ Replug
    BY <2>4 DEF SyncLoop, EventLoop, Unplug, Replug
  <2>5. CASE \E x \in Transfers : KernelCompletes(x)
    BY <2>5 DEF KernelCompletes
  <2> QED
    BY <2>1, <2>2, <2>3, <2>4, <2>5 DEF Next, CallerRuns
<1> QED
  BY <1>2, <1>3, <1>4, <1>5, <1>6

\* The callbacks find their transfer as its submission left it.
LEMMA UserSteps ==
  ASSUME IInv, Next
  PROVE  OneUser'
<1>1. Coordination /\ FinishedOnce /\ OneUser
  BY DEF IInv, TransferInv, Coordination
<1> USE <1>1 DEF OneUser, StreamOver
<1>2. CASE Application \/ Install \/ Negotiated
  BY <1>2
  DEF Coordination, TypeOK, EventsType, DeviceType, HandleInv, HandleOf,
      PreviewHasDevice, ClosedIsQuiet, CallbackWhileOpen,
      Negotiated, PreviewEnds, Application, ConnectFails, Connect, Started,
      StartPreview, BeginStop, Destroy, Ask, MayAsk, StartStream, SubmitSync, Install
<1>3. CASE Release
  BY <1>3
  DEF Coordination, TypeOK, EventsType, DeviceType, ThreadInv, HolderHasLock,
      Release, Stopped, DeleteListeners, JoinAndFree, FinishRelease, Close,
      LibusbClose, ModifyPollfds, Poke, CloserLocks, LockFree, CloserDrops,
      CloserModified, CloserUnlocks, UnlockEvents, TellEventThread
<1>4. CASE \E t \in Threads : ThreadRuns(t) \/ Waits(t)
  <2> USE DEF Coordination, TypeOK, EventsType, DeviceType, ThreadInv,
              HolderHasLock
  <2>1. PICK t \in Threads : ThreadRuns(t) \/ Waits(t)
    BY <1>4
  <2>2. CASE \/ ReadModify(t) /\ UNCHANGED deviceVars
             \/ TryLock(t) /\ UNCHANGED deviceVars
             \/ BecomeWaiter(t) /\ UNCHANGED deviceVars
             \/ Woken(t) /\ UNCHANGED deviceVars
    BY <2>2 DEF ReadModify, TryLock, BecomeWaiter, Woken, Return
  <2>3. CASE \/ PollReturns(t) /\ UNCHANGED deviceVars
             \/ ReapEnds(t) /\ UNCHANGED deviceVars
             \/ HandlerUnlocks(t) /\ UNCHANGED deviceVars
             \/ Waits(t)
    BY <2>3 DEF PollReturns, ReapEnds, HandlerUnlocks, UnlockEvents, Return,
                Waits, TimesOut, WaitTimesOut, PollTimesOut
  <2>4. CASE (\E x \in Callers : ReapSync(t, x)) /\ UNCHANGED deviceVars
    BY <2>4, Reaped DEF ReapSync, Reap, Mark
  <2>5. CASE ReapStatus(t)
    BY <2>5, Reaped DEF ReapStatus, Reap
  <2>6. CASE ReapStream(t)
    BY <2>6, Reaped DEF ReapStream, Reap
  <2>7. CASE Notified(t)
    BY <2>7 DEF Notified
  <2>8. CASE Resubmit(t)
    BY <2>8 DEF Resubmit, SubmitStatus
  <2>9. CASE StreamCalledBack(t)
    BY <2>9 DEF StreamCalledBack
  <2> QED
    BY <2>1, <2>2, <2>3, <2>4, <2>5, <2>6, <2>7, <2>8, <2>9
    DEF ThreadRuns, HandleEvents
<1>5. CASE \/ \E c \in Callers : SyncLoop(c) /\ UNCHANGED deviceVars
           \/ EventLoop \/ Unplug \/ Replug
  BY <1>5
  DEF Coordination, TypeOK, EventsType, SyncLoop, Completed, EventLoop, Unplug,
      Replug
<1>6. CASE \E x \in Transfers : KernelCompletes(x)
  BY <1>6 DEF KernelCompletes, Complete
<1> QED
  BY <1>2, <1>3, <1>4, <1>5, <1>6 DEF Next, CallerRuns

\* The initial state, and every step.
LEMMA InitInv == Init => IInv
  BY InitCoordination
  DEF IInv, Coordination, TransferInv, FinishedOnce, Finished, OneUser,
      StreamOver, Init, EventsInit

LEMMA StepInv == IInv /\ [Next]_vars => IInv'
<1> SUFFICES ASSUME IInv, [Next]_vars PROVE IInv'
  OBVIOUS
<1>1. Coordination'
  BY StepCoordination DEF IInv, Coordination
<1>2. CASE Next
  BY <1>1, <1>2, FinishedSteps, UserSteps DEF IInv, Coordination, TransferInv
<1>3. CASE UNCHANGED vars
  BY <1>1, <1>3
  DEF IInv, Coordination, TransferInv, FinishedOnce, Finished, OneUser,
      StreamOver, vars
<1> QED
  BY <1>2, <1>3

\* So it holds all the time.
THEOREM Invariant == Spec => []IInv
  BY InitInv, StepInv, PTL DEF Spec

----------------------------------------------------------------------------
(***************************************************************************)
(* What follows.                                                           *)
(***************************************************************************)
\* Every variable keeps its type; the bytes in the pipe and pollfd_modify are
\* never decremented below zero.
THEOREM TypeCorrect == Spec => []TypeOK
  BY Invariant, PTL DEF IInv

\* Nobody sleeps in libusb_wait_for_event without somebody who will wake him.
THEOREM NoLostWakeup == Spec => []WaiterWillBeWoken
  BY Invariant, PTL DEF IInv, ThreadInv

\* libusb's and libuvc's callbacks only run under the events lock and for a
\* handle that is open, and are given callback objects that still exist, or
\* whose deletion libusb_close is still waiting for.
THEOREM CallbacksHaveHandle == Spec => []CallbackWhileOpen
  BY Invariant, PTL DEF IInv, HandleInv

\* uvc_close frees a handle that no transfer and no thread uses.
THEOREM HandleFreedLast == Spec => []FreedHandleUnused
<1>1. IInv => FreedHandleUnused
  BY DEF IInv, TypeOK, EventsType, ThreadInv, Places, HolderHasLock,
         OneModifier, HandleInv, HandleOf, PreviewHasDevice, ClosedIsQuiet,
         FreedHandleUnused
<1> QED
  BY <1>1, Invariant, PTL

\* An open device has its event thread, unless the context was used before.
THEOREM DeviceHasThread == Spec => []EventThreadRuns
  BY Invariant, PTL DEF IInv, HandleInv

\* The status transfer is in flight, or being passed on, until an error ends it.
THEOREM StatusNotLost == Spec => []StatusListened
  BY Invariant, PTL DEF IInv, HandleInv

\* release closes the descriptor that connect made.
THEOREM ClosesItsDescriptor == Spec => []OwnDescriptor
<1>1. IInv => OwnDescriptor
  BY DEF IInv, HandleInv, UsbfsHasDescriptor, OwnDescriptor
<1> QED
  BY <1>1, Invariant, PTL

----------------------------------------------------------------------------
(***************************************************************************)
(* The contract.  Each step is a step of TransferService or changes        *)
(* nothing of the transfers.                                               *)
(***************************************************************************)
ServiceStep == [Libusb!ServiceNext]_(Libusb!tvars)

\* A thread that moves between points outside the callbacks changes nothing of
\* them.
LEMMA CallsKept ==
  ASSUME EventsType(Points), NEW t \in Threads, NEW p \in Points, Go(t, p),
         ~CalledBack(t), p \notin {"callback", "notify", "resubmit"}
  PROVE  InCallback' = InCallback
  BY DEF EventsType, InCallback

\* When no callback runs, and one thread enters or leaves one.
LEMMA CallsChange ==
  ASSUME IInv, NEW t \in Threads, at[t] \in HandlerPoints
  PROVE  /\ InCallback = IF at[t] = "callback" THEN {"stream"}
                         ELSE IF CalledBack(t) THEN {"status"} ELSE {}
         /\ \A p \in Points :
               Go(t, p) => InCallback' =
                             IF p = "callback" THEN {"stream"}
                             ELSE IF p \in {"notify", "resubmit"}
                                  THEN {"status"} ELSE {}
<1>1. \A u \in Threads \ {t} : ~CalledBack(u)
  BY DEF IInv, ThreadInv, HolderHasLock
<1>2. at \in [Threads -> Points]
  BY DEF IInv, TypeOK, EventsType
<1> QED
  BY <1>1, <1>2 DEF InCallback, Async

\* What a step that the contract does not see leaves alone.
LEMMA Unseen ==
  ASSUME flying' = flying, InCallback' = InCallback,
         (handle = "open") = (handle' = "open")
  PROVE  ServiceStep
  BY DEF ServiceStep, Libusb!tvars

\* Opening the device, asking it, and starting the stream.
LEMMA ApplicationServes ==
  ASSUME IInv, Application \/ Install \/ Negotiated
  PROVE  ServiceStep
<1>1. EventsType(Points)
  BY DEF IInv, TypeOK
<1>2. CASE ConnectFails \/ StartPreview \/ PreviewEnds \/ Destroy
  <2>1. flying' = flying /\ handle' = handle /\ at' = at
    BY <1>2 DEF ConnectFails, StartPreview, PreviewEnds, Destroy
  <2> QED
    BY <2>1, Unseen DEF InCallback
<1>3. CASE Install \/ BeginStop
  <2>1. flying' = flying /\ handle' = handle /\ ~CalledBack("owner")
        /\ \E p \in {"idle", "halt", "stop"} : Go("owner", p)
    BY <1>3 DEF Install, BeginStop
  <2> QED
    BY <1>1, <2>1, CallsKept, Unseen
<1>4. CASE Connect
  <2>1. \A t \in Threads : ~CalledBack(t) /\ at'[t] \notin {"callback", "notify", "resubmit"}
    BY <1>1, <1>4 DEF Connect, Started, IInv, HandleInv, CallbackWhileOpen, EventsType
  <2>2. InCallback = {} /\ InCallback' = {}
    BY <2>1 DEF InCallback
  <2>3. Libusb!OpenDevice
    BY <1>4, <2>2 DEF Connect, Libusb!OpenDevice
  <2> QED
    BY <2>3 DEF ServiceStep, Libusb!ServiceNext
<1>5. CASE \E c \in Callers : Ask(c)
  <2>1. PICK c \in Callers : Ask(c)
    BY <1>5
  <2>2. c \notin flying /\ c \notin InCallback
    BY <2>1 DEF Ask, MayAsk, IInv, TransferInv, OneUser, InCallback, Async
  <2>3. InCallback' = InCallback
    BY <1>1, <2>1, CallsKept DEF Ask, MayAsk, SubmitSync
  <2>4. Libusb!Submit(c)
    BY <2>1, <2>2, <2>3 DEF Ask, MayAsk, SubmitSync, Libusb!Submit
  <2> QED
    BY <2>4 DEF ServiceStep, Libusb!ServiceNext
<1>6. CASE \E c \in Callers : StartStream(c)
  <2>1. PICK c \in Callers : StartStream(c)
    BY <1>6
  <2>2. "stream" \notin flying /\ "stream" \notin InCallback
    BY <2>1 DEF StartStream, MayAsk, IInv, TransferInv, OneUser, StreamOver,
                InCallback
  <2>3. InCallback' = InCallback
    BY <2>1 DEF StartStream, InCallback
  <2>4. Libusb!Submit("stream")
    BY <2>1, <2>2, <2>3 DEF StartStream, MayAsk, Libusb!Submit
  <2> QED
    BY <2>4 DEF ServiceStep, Libusb!ServiceNext
<1> QED
  BY <1>2, <1>3, <1>4, <1>5, <1>6 DEF Application, Negotiated

\* Releasing it: libusb_close drops what is in flight with the lock in its hands.
LEMMA ReleaseServes ==
  ASSUME IInv, Release
  PROVE  ServiceStep
<1>1. EventsType(Points)
  BY DEF IInv, TypeOK
<1>2. CASE CloserDrops("owner") /\ Close
  <2>1. at["owner"] = "drop" /\ holder = "owner" /\ handle = "open"
    BY <1>2 DEF CloserDrops, IInv, ThreadInv, HolderHasLock, HandleInv,
                HandleOf, TypeOK, DeviceType
  <2>2. \A t \in Threads : ~CalledBack(t)
    BY <2>1 DEF IInv, ThreadInv, HolderHasLock
  <2>3. InCallback = {} /\ InCallback' = {}
    BY <1>1, <1>2, <2>2 DEF CloserDrops, EventsType, InCallback
  <2>4. Libusb!CloseDevice
    BY <1>2, <2>1, <2>3 DEF CloserDrops, Close, Libusb!CloseDevice
  <2> QED
    BY <2>4 DEF ServiceStep, Libusb!ServiceNext
<1>3. CASE ~(CloserDrops("owner") /\ Close)
  <2>1. flying' = flying /\ ~CalledBack("owner")
        /\ \E p \in Points \ {"callback", "notify", "resubmit"} : Go("owner", p)
    BY <1>3
    DEF Release, Stopped, DeleteListeners, JoinAndFree, FinishRelease, Close,
        LibusbClose, ModifyPollfds, Poke, CloserLocks, CloserModified,
        CloserUnlocks, TellEventThread
  <2>2. (handle = "open") = (handle' = "open")
    BY <1>3
    DEF Release, Stopped, DeleteListeners, JoinAndFree, FinishRelease, Close,
        LibusbClose, ModifyPollfds, Poke, CloserLocks, CloserModified,
        CloserUnlocks, IInv, HandleInv, HandleOf, TellEventThread
  <2> QED
    BY <1>1, <2>1, <2>2, CallsKept, Unseen
<1> QED
  BY <1>2, <1>3

\* Handling events: each reaped transfer is called back once, under the lock.
LEMMA ThreadServes ==
  ASSUME IInv, NEW t \in Threads, ThreadRuns(t) \/ Waits(t)
  PROVE  ServiceStep
<1>1. /\ EventsType(Points) /\ FinishedOnce
      /\ flying # {} => handle = "open"
      /\ CalledBack(t) => handle = "open"
  BY DEF IInv, TypeOK, TransferInv, HandleInv, ClosedIsQuiet, CallbackWhileOpen
<1>2. CASE \/ (ReadModify(t) \/ TryLock(t) \/ BecomeWaiter(t) \/ Woken(t)
                \/ PollReturns(t) \/ ReapEnds(t) \/ HandlerUnlocks(t))
                /\ UNCHANGED deviceVars
           \/ Waits(t)
  <2>1. flying' = flying /\ handle' = handle
    BY <1>2
    DEF ReadModify, TryLock, BecomeWaiter, Woken, PollReturns, ReapEnds,
        HandlerUnlocks, Waits, TimesOut, WaitTimesOut, PollTimesOut
  <2>2. \/ at' = at
        \/ /\ ~CalledBack(t)
           /\ \E p \in Points \ {"callback", "notify", "resubmit"} : Go(t, p)
    BY <1>2
    DEF ReadModify, TryLock, BecomeWaiter, Woken, PollReturns, ReapEnds,
        HandlerUnlocks, Return, Waits, TimesOut, WaitTimesOut, PollTimesOut
  <2>3. InCallback' = InCallback
    BY <1>1, <2>2, CallsKept DEF InCallback
  <2> QED
    BY <2>1, <2>3, Unseen
<1>3. CASE (\E x \in Callers : ReapSync(t, x)) /\ UNCHANGED deviceVars
  <2>1. PICK x \in Callers : ReapSync(t, x)
    BY <1>3
  <2>2. x \in flying /\ at[t] = "reap" /\ at' = at /\ flying' = flying \ {x}
    BY <1>1, <2>1, Reaped DEF ReapSync, Reap
  <2>3. InCallback = {} /\ InCallback' = InCallback
    BY <2>2, CallsChange DEF InCallback
  <2>4. Libusb!CallBackAtOnce(x)
    BY <1>1, <1>3, <2>2, <2>3 DEF Libusb!CallBackAtOnce
  <2> QED
    BY <2>4 DEF ServiceStep, Libusb!ServiceNext
<1>4. CASE ReapStatus(t) \/ ReapStream(t)
  <2>1. PICK x \in Async :
          /\ Reap(t, x)
          /\ \/ ReapStream(t) /\ x = "stream"
             \/ ReapStatus(t) /\ x = "status"
    BY <1>4 DEF ReapStatus, ReapStream, Async
  <2>2. x \in flying /\ at[t] = "reap" /\ flying' = flying \ {x}
        /\ handle = "open" /\ handle' = "open"
    BY <1>1, <1>4, <2>1, Reaped DEF Reap, ReapStatus, ReapStream
  <2>3. InCallback = {}
    BY <2>2, CallsChange
  <2>4. InCallback' = {x} \/ InCallback' = {}
    <3>1. CASE ReapStream(t) /\ x = "stream"
      BY <2>2, <3>1, CallsChange DEF ReapStream
    <3>2. CASE ReapStatus(t) /\ x = "status"
      BY <2>2, <3>2, CallsChange DEF ReapStatus
    <3> QED
      BY <2>1, <3>1, <3>2
  <2>5. Libusb!CallBack(x) \/ Libusb!CallBackAtOnce(x)
    BY <2>2, <2>3, <2>4 DEF Libusb!CallBack, Libusb!CallBackAtOnce
  <2> QED
    BY <2>5 DEF ServiceStep, Libusb!ServiceNext, Async
<1>5. CASE Notified(t)
  <2>1. InCallback = {"status"} /\ InCallback' = {"status"}
    BY <1>5, CallsChange DEF Notified
  <2> QED
    BY <1>5, <2>1, Unseen DEF Notified
<1>6. CASE Resubmit(t) \/ StreamCalledBack(t)
  <2>1. PICK x \in Async :
          /\ InCallback = {x} /\ InCallback' = {}
          /\ flying' \in {flying, flying \union {x}}
    BY <1>6, CallsChange DEF Resubmit, SubmitStatus, StreamCalledBack, Async
  <2>2. Libusb!CallbackReturns
    BY <1>6, <2>1 DEF Libusb!CallbackReturns, Resubmit, StreamCalledBack
  <2> QED
    BY <2>2 DEF ServiceStep, Libusb!ServiceNext
<1> QED
  BY <1>2, <1>3, <1>4, <1>5, <1>6 DEF ThreadRuns, HandleEvents

\* The other steps are not seen.
LEMMA OthersServe ==
  ASSUME IInv,
         \/ \E c \in Callers : SyncLoop(c) /\ UNCHANGED deviceVars
         \/ EventLoop \/ Unplug \/ Replug
         \/ \E x \in Transfers : KernelCompletes(x)
         \/ UNCHANGED vars
  PROVE  ServiceStep
<1>1. EventsType(Points)
  BY DEF IInv, TypeOK
<1>2. flying' = flying /\ handle' = handle
  BY DEF SyncLoop, EventLoop, Unplug, Replug, KernelCompletes, Complete, vars
<1>3. \/ at' = at
      \/ \E t \in Threads, p \in Points \ {"callback", "notify", "resubmit"} :
            Go(t, p) /\ ~CalledBack(t)
  BY DEF SyncLoop, EventLoop, Unplug, Replug, KernelCompletes, Complete, vars
<1>4. InCallback' = InCallback
  BY <1>1, <1>3, CallsKept DEF InCallback
<1> QED
  BY <1>2, <1>4, Unseen

\* libusb keeps its contract for the transfers of libuvc and of the threads: one
\* callback at a time, one for each submission, and none once the device handle
\* is closed.
THEOREM LibusbServes == Spec => ServesTransfers
<1>1. Init => Libusb!ServiceInit
  BY DEF Init, EventsInit, Libusb!ServiceInit, InCallback
<1>2. IInv /\ [Next]_vars => [Libusb!ServiceNext]_(Libusb!tvars)
  <2> SUFFICES ASSUME IInv, [Next]_vars PROVE ServiceStep
    BY DEF ServiceStep
  <2> QED
    BY ApplicationServes, ReleaseServes, ThreadServes, OthersServe
    DEF Next, CallerRuns
<1> QED
  BY <1>1, <1>2, Invariant, PTL DEF Spec, ServesTransfers, Libusb!Service

=============================================================================
