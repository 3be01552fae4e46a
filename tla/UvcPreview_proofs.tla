-------------------------- MODULE UvcPreview_proofs --------------------------
EXTENDS UvcPreview, FiniteSetTheorems, SequenceTheorems, TLAPS

USE DEF None, Setter, Seqs, CtlAt, PreviewAt, CallbackAt, CaptureAt,
        ctlVars, sessionVars, poolVars, previewVars, captureVars, setterVars,
        windowVars

----------------------------------------------------------------------------
(***************************************************************************)
(* The pool: rest stands for the frames that are in use elsewhere.         *)
(***************************************************************************)
\* Recycling n frames that were in use leaves the others.
LEMMA Recycled ==
  ASSUME PoolType, PreviewConstants,
         NEW n \in Nat, NEW rest \in Nat, alloc = pool + n + rest, Recycle(n)
  PROVE  PoolType' /\ alloc' = pool' + rest
  BY DEF PoolType, Recycle, PreviewConstants

\* Getting a frame adds one that is in use.
LEMMA Got ==
  ASSUME PoolType, PreviewConstants, NEW rest \in Nat, alloc = pool + rest, GetFrame
  PROVE  PoolType' /\ alloc' = pool' + rest + 1
  BY DEF PoolType, GetFrame, PreviewConstants

\* Borrowing one changes nothing but the pool.
LEMMA Borrowed ==
  ASSUME PoolType, PreviewConstants, NEW rest \in Nat, alloc = pool + rest, Borrow
  PROVE  PoolType' /\ alloc' = pool' + rest
  BY DEF PoolType, Borrow, PreviewConstants

\* The capture threads that hold a frame are finitely many.
LEMMA HoldersCounted ==
  ASSUME PreviewConstants, NEW P, P \subseteq CaptureThreads
  PROVE  IsFiniteSet(P) /\ Cardinality(P) \in Nat
  BY FS_Subset, FS_CardinalityType

\* One more capture thread holds a frame, or one less.
LEMMA OneMoreHolds ==
  ASSUME PreviewConstants, NEW P, P \subseteq CaptureThreads,
         NEW c \in CaptureThreads, c \notin P
  PROVE  Cardinality(P \union {c}) = Cardinality(P) + 1
  BY HoldersCounted, FS_AddElement

LEMMA OneLessHolds ==
  ASSUME PreviewConstants, NEW P, P \subseteq CaptureThreads,
         NEW c \in P
  PROVE  Cardinality(P) = Cardinality(P \ {c}) + 1
<1>1. P \ {c} \subseteq CaptureThreads /\ c \notin P \ {c} /\ c \in CaptureThreads
  OBVIOUS
<1>2. Cardinality((P \ {c}) \union {c}) = Cardinality(P \ {c}) + 1
  BY <1>1, OneMoreHolds
<1>3. (P \ {c}) \union {c} = P
  OBVIOUS
<1> QED
  BY <1>2, <1>3

\* The frames in use, outside the pool, and the capture threads that hold one.
InUse ==
    Len(frames) + One(slot) + HeldByCallback + One(pf) + HeldByCapture

WithFrame == {c \in CaptureThreads : cf[c] # 0}
WithConverted == {c \in CaptureThreads : conv[c]}

\* What the capture threads hold is counted by two finite sets.
LEMMA CaptureCounted ==
  ASSUME PreviewConstants
  PROVE  /\ HeldByCapture = Cardinality(WithFrame) + Cardinality(WithConverted)
         /\ HeldByCapture' = Cardinality(WithFrame') + Cardinality(WithConverted')
         /\ Cardinality(WithFrame) \in Nat /\ Cardinality(WithFrame') \in Nat
         /\ Cardinality(WithConverted) \in Nat
         /\ Cardinality(WithConverted') \in Nat
<1>1. /\ WithFrame \subseteq CaptureThreads /\ WithFrame' \subseteq CaptureThreads
      /\ WithConverted \subseteq CaptureThreads
      /\ WithConverted' \subseteq CaptureThreads
  BY DEF WithFrame, WithConverted
<1>2. /\ Cardinality(WithFrame) \in Nat /\ Cardinality(WithFrame') \in Nat
      /\ Cardinality(WithConverted) \in Nat
      /\ Cardinality(WithConverted') \in Nat
  BY <1>1, HoldersCounted
<1> QED
  BY <1>2 DEF HeldByCapture, WithFrame, WithConverted

\* Each kind of holder has a natural number of frames.
LEMMA TermsCounted ==
  ASSUME PreviewType, PreviewType', PreviewConstants
  PROVE  /\ Len(frames) \in Nat /\ Len(frames') \in Nat
         /\ One(slot) \in Nat /\ One(slot') \in Nat
         /\ HeldByCallback \in Nat /\ HeldByCallback' \in Nat
         /\ One(pf) \in Nat /\ One(pf') \in Nat
         /\ HeldByCapture \in Nat /\ HeldByCapture' \in Nat
<1>1. HeldByCapture \in Nat /\ HeldByCapture' \in Nat
  BY CaptureCounted
<1>2. Len(frames) \in Nat /\ Len(frames') \in Nat
  OBVIOUS
<1>3. HeldByCallback \in Nat /\ HeldByCallback' \in Nat
  BY DEF HeldByCallback
<1>4. \A n : One(n) \in Nat
  BY DEF One
<1> QED
  BY <1>1, <1>2, <1>3, <1>4

\* So they have together.
LEMMA InUseCounted ==
  ASSUME PreviewType, PreviewType', PreviewConstants
  PROVE  InUse \in Nat /\ InUse' \in Nat
<1>1. \A a, b, c, d, e \in Nat : a + b + c + d + e \in Nat
  OBVIOUS
<1>2. InUse \in Nat
  BY <1>1, TermsCounted DEF InUse
<1>3. InUse' \in Nat
  BY <1>1, TermsCounted DEF InUse
<1> QED
  BY <1>2, <1>3

\* The capture threads hold the same frames while cf and conv stay.
LEMMA SameHeld ==
  ASSUME UNCHANGED <<cf, conv>>
  PROVE  HeldByCapture' = HeldByCapture
  BY DEF HeldByCapture

\* A capture thread takes a frame, or leaves the one it had.
LEMMA FrameTaken ==
  ASSUME PreviewConstants, CaptureType, NEW c \in CaptureThreads, NEW f,
         cf[c] = 0, f # 0, cf' = [cf EXCEPT ![c] = f], UNCHANGED conv
  PROVE  HeldByCapture' = HeldByCapture + 1
<1>1. WithFrame' = WithFrame \union {c} /\ c \notin WithFrame
  BY DEF WithFrame, CaptureType
<1>2. WithFrame \subseteq CaptureThreads /\ WithConverted' = WithConverted
  BY DEF WithFrame, WithConverted
<1> QED
  BY <1>1, <1>2, OneMoreHolds, CaptureCounted

LEMMA FrameLeft ==
  ASSUME PreviewConstants, CaptureType, NEW c \in CaptureThreads,
         cf[c] # 0, cf' = [cf EXCEPT ![c] = 0], UNCHANGED conv
  PROVE  HeldByCapture = HeldByCapture' + 1
<1>1. WithFrame' = WithFrame \ {c} /\ c \in WithFrame
  BY DEF WithFrame, CaptureType
<1>2. WithFrame \subseteq CaptureThreads /\ WithConverted' = WithConverted
  BY DEF WithFrame, WithConverted
<1> QED
  BY <1>1, <1>2, OneLessHolds, CaptureCounted

\* The same for the frame it keeps for conversions.
LEMMA ConvertedTaken ==
  ASSUME PreviewConstants, CaptureType, NEW c \in CaptureThreads,
         ~conv[c], conv' = [conv EXCEPT ![c] = TRUE], UNCHANGED cf
  PROVE  HeldByCapture' = HeldByCapture + 1
<1>1. WithConverted' = WithConverted \union {c} /\ c \notin WithConverted
  BY DEF WithConverted, CaptureType
<1>2. WithConverted \subseteq CaptureThreads /\ WithFrame' = WithFrame
  BY DEF WithFrame, WithConverted
<1> QED
  BY <1>1, <1>2, OneMoreHolds, CaptureCounted

LEMMA ConvertedLeft ==
  ASSUME PreviewConstants, CaptureType, NEW c \in CaptureThreads,
         conv[c], conv' = [conv EXCEPT ![c] = FALSE], UNCHANGED cf
  PROVE  HeldByCapture = HeldByCapture' + 1
<1>1. WithConverted' = WithConverted \ {c} /\ c \in WithConverted
  BY DEF WithConverted, CaptureType
<1>2. WithConverted \subseteq CaptureThreads /\ WithFrame' = WithFrame
  BY DEF WithFrame, WithConverted
<1> QED
  BY <1>1, <1>2, OneLessHolds, CaptureCounted
LEMMA Balance ==
  ASSUME PreviewType, PreviewType', PreviewConstants, PoolType
  PROVE  /\ NoFrameLost <=> alloc = pool + InUse
         /\ PoolType' => (NoFrameLost' <=> alloc' = pool' + InUse')
         /\ InUse \in Nat /\ InUse' \in Nat
<1>1. \A p, a, b, c, d, e \in Nat :
         p + (a + b + c + d + e) = p + a + b + c + d + e
  OBVIOUS
<1>2. NoFrameLost <=> alloc = pool + InUse
  <2>1. pool \in Nat
    BY DEF PoolType
  <2>2. /\ Len(frames) \in Nat /\ One(slot) \in Nat /\ HeldByCallback \in Nat
        /\ One(pf) \in Nat /\ HeldByCapture \in Nat
    BY TermsCounted
  <2>3. pool + InUse = pool + Len(frames) + One(slot) + HeldByCallback
                            + One(pf) + HeldByCapture
    BY SMTT(30), <1>1, <2>1, <2>2 DEF InUse
  <2> QED
    BY <2>3, Zenon DEF NoFrameLost
<1>3. ASSUME PoolType'  PROVE NoFrameLost' <=> alloc' = pool' + InUse'
  <2>1. pool' \in Nat
    BY <1>3 DEF PoolType
  <2>2. /\ Len(frames') \in Nat /\ One(slot') \in Nat /\ HeldByCallback' \in Nat
        /\ One(pf') \in Nat /\ HeldByCapture' \in Nat
    BY TermsCounted
  <2>3. pool' + InUse' = pool' + Len(frames') + One(slot') + HeldByCallback'
                               + One(pf') + HeldByCapture'
    BY SMTT(30), <1>1, <2>1, <2>2 DEF InUse
  <2> QED
    BY <2>3, Zenon DEF NoFrameLost
<1> QED
  BY <1>2, <1>3, InUseCounted

\* The three ways in which a step keeps the balance: as many frames are in use
\* as before; one more is, which came from the pool or was allocated; n fewer are,
\* which were recycled.
LEMMA BalanceKept ==
  ASSUME PoolType, NoFrameLost, PreviewType, PreviewType', PreviewConstants,
         InUse' = InUse, UNCHANGED poolVars \/ Borrow
  PROVE  PoolType' /\ NoFrameLost'
<1>1. CASE UNCHANGED poolVars
  BY <1>1, Balance DEF PoolType
<1>2. CASE Borrow
  BY <1>2, Balance, Borrowed
<1> QED
  BY <1>1, <1>2

LEMMA BalanceTaken ==
  ASSUME PoolType, NoFrameLost, PreviewType, PreviewType', PreviewConstants,
         InUse' = InUse + 1, GetFrame
  PROVE  PoolType' /\ NoFrameLost'
  BY Balance, Got DEF PoolType

LEMMA BalanceReturned ==
  ASSUME PoolType, NoFrameLost, PreviewType, PreviewType', PreviewConstants,
         NEW n \in Nat, InUse = InUse' + n, Recycle(n)
  PROVE  PoolType' /\ NoFrameLost'
<1>1. alloc = pool + n + InUse'
  BY Balance DEF PoolType
<1> QED
  BY <1>1, Balance, Recycled

\* A step that touches neither the pool nor a holder.
LEMMA Untouched ==
  ASSUME PoolType, NoFrameLost, PreviewType, PreviewType', PreviewConstants,
         UNCHANGED <<pool, alloc, frames, slot, cb, pf, cf, conv>>
  PROVE  PoolType' /\ NoFrameLost'
<1>1. InUse' = InUse
  BY SameHeld DEF InUse, HeldByCallback
<1> QED
  BY <1>1, BalanceKept

----------------------------------------------------------------------------
(***************************************************************************)
(* Types, with what the session needs for its own.                         *)
(***************************************************************************)
\* Taking the first frame of the queue.
LEMMA PreviewTail ==
  ASSUME PreviewType, frames # <<>>, PreviewConstants
  PROVE  /\ Head(frames) \in Seqs
         /\ Tail(frames) \in Seq(Seqs) /\ Len(Tail(frames)) = Len(frames) - 1
         /\ Len(frames) > 0 /\ Len(Tail(frames)) <= MaxFrame
  BY DEF PreviewType

\* Giving a window back marks it and may break the program; using one may too.
LEMMA GivenBackTyped ==
  \A w : GiveBack(w) => broken' \in BOOLEAN
  BY DEF GiveBack

LEMMA GivenBackWindow ==
  \A w : GiveBack(w) => dead' = dead \union {w}
  BY DEF GiveBack

LEMMA UsedTyped ==
  \A w, W : broken' = (w \in W) => broken' \in BOOLEAN
  OBVIOUS

\* The control thread.
LEMMA ControlTyped ==
  ASSUME ControlType, CaptureType, PreviewType, PreviewConstants, [Next]_vars
  PROVE  ControlType'
<1> USE DEF ControlType
<1>1. CASE Control
  <2>1. CASE SetPreviewDisplay
    BY <2>1 DEF SetPreviewDisplay
  <2>2. CASE StartPreview
    BY <2>2 DEF StartPreview
  <2>3. CASE CreatePreview
    BY <2>3 DEF CreatePreview
  <2>4. CASE StopPreview
    BY <2>4 DEF StopPreview
  <2>5. CASE SignalPreview
    BY <2>5 DEF SignalPreview
  <2>6. CASE SignalCapture
    BY <2>6 DEF SignalCapture
  <2>7. CASE JoinCapture
    BY <2>7 DEF JoinCapture
  <2>8. CASE JoinPreview
    BY <2>8 DEF JoinPreview
  <2>9. CASE ClearDisplay
    BY <2>9 DEF ClearDisplay
  <2>10. CASE ClearPreview
    BY <2>10 DEF ClearPreview
  <2>11. CASE ClearCapture
    BY <2>11 DEF ClearCapture
  <2>12. CASE ReleaseWindows
    BY <2>12 DEF ReleaseWindows
  <2> QED
    BY <1>1, <2>1, <2>2, <2>3, <2>4, <2>5, <2>6, <2>7, <2>8, <2>9, <2>10,
      <2>11, <2>12 DEF Control
<1>2. CASE Callback
  BY <1>2 DEF Callback, CallbackBegins, CheckFrame, AddPreviewFrame, DropFrame
<1>3. CASE SessionChanges
  BY <1>3 DEF SessionChanges
<1>4. CASE Preview
  BY <1>4 DEF Preview, Prepare, StartStreaming, ClearStale, PreviewLoop,
    WaitPreviewFrame, Decode, Draw, AddCaptureFrame, PreviewEnds,
    StopStreaming, CreateCapture
<1>5. ASSUME NEW c \in CaptureThreads, Capture(c)  PROVE ControlType'
  BY <1>5 DEF Capture, CaptureClears, CaptureLoop, CaptureTest,
    WaitCaptureFrame, ConvertForSurface, CopyToSurface, CallbackConverts,
    CallOnFrame, SurfaceEnds, CaptureWakes
<1>6. CASE SetterRuns
  BY <1>6 DEF SetterRuns, SetterWaits, SetterWakes,
    SetterAssigns
<1>7. ASSUME NEW req \in Requests, SetterEnters(req)  PROVE ControlType'
  BY <1>7 DEF SetterEnters
<1>8. CASE UNCHANGED vars
  BY <1>8 DEF vars
<1> QED
  BY <1>1, <1>2, <1>3, <1>4, <1>5, <1>6, <1>7, <1>8 DEF Next

\* The session.
LEMMA SessionTyped ==
  ASSUME SessionType, SessionInv, PreviewConstants, [Next]_vars
  PROVE  (SessionType /\ SessionInv)'
<1> USE DEF SessionType, SessionInv
<1>1. CASE Control
  BY <1>1 DEF Control, SetPreviewDisplay, StartPreview, CreatePreview,
    StopPreview, SignalPreview, SignalCapture, JoinCapture, JoinPreview,
    ClearDisplay, ClearPreview, ClearCapture, ReleaseWindows
<1>2. CASE Callback
  <2>1. CASE CallbackBegins
    <3>1. sent' \in 0..MaxSeq /\ sent' > 0
      BY <2>1 DEF CallbackBegins
    <3>2. phase' \in {"streaming", "stopping"} /\ last' \in BOOLEAN
      BY <2>1 DEF CallbackBegins, Session!Deliver
    <3>3. cb' = "check"
      BY <2>1 DEF CallbackBegins
    <3> QED
      BY <3>1, <3>2, <3>3
  <2>2. CASE CheckFrame
    BY <2>2 DEF CheckFrame, CallbackReturns, Session!Return
  <2>3. CASE AddPreviewFrame
    BY <2>3 DEF AddPreviewFrame, CallbackReturns, Session!Return
  <2>4. CASE DropFrame
    BY <2>4 DEF DropFrame, CallbackReturns, Session!Return
  <2> QED
    BY <1>2, <2>1, <2>2, <2>3, <2>4 DEF Callback
<1>3. CASE SessionChanges
  BY <1>3 DEF SessionChanges, Session!Forgo, Session!Stop
<1>4. CASE Preview
  <2>1. CASE Prepare
    BY <2>1 DEF Prepare
  <2>2. CASE StartStreaming
    BY <2>2 DEF StartStreaming, Session!Begin
  <2>3. CASE ClearStale
    BY <2>3 DEF ClearStale
  <2>4. CASE PreviewLoop
    BY <2>4 DEF PreviewLoop
  <2>5. CASE WaitPreviewFrame
    BY <2>5 DEF WaitPreviewFrame
  <2>6. CASE Decode
    BY <2>6 DEF Decode
  <2>7. CASE Draw
    BY <2>7 DEF Draw
  <2>8. CASE AddCaptureFrame
    BY <2>8 DEF AddCaptureFrame
  <2>9. CASE PreviewEnds
    BY <2>9 DEF PreviewEnds
  <2>10. CASE StopStreaming
    <3>1. phase' \in {"closed", "stopping"} /\ last' \in BOOLEAN
      BY <2>10 DEF StopStreaming, Session!Stop, Session!End
    <3>2. sent' = IF phase' = "closed" THEN 0 ELSE sent
      BY <2>10 DEF StopStreaming
    <3>3. UNCHANGED cb /\ (cb # "none" => phase' # "closed")
      BY <2>10 DEF StopStreaming, Session!Stop, Session!End
    <3> QED
      BY <3>1, <3>2, <3>3
  <2>11. ASSUME NEW c \in CaptureThreads, CreateCapture(c)  PROVE (SessionType
  /\ SessionInv)'
    BY <2>11 DEF CreateCapture
  <2> QED
    BY <1>4, <2>1, <2>2, <2>3, <2>4, <2>5, <2>6, <2>7, <2>8, <2>9, <2>10, <2>11
      DEF Preview
<1>5. ASSUME NEW c \in CaptureThreads, Capture(c)  PROVE (SessionType /\
  SessionInv)'
  BY <1>5 DEF Capture, CaptureClears, CaptureLoop, CaptureTest,
    WaitCaptureFrame, ConvertForSurface, CopyToSurface, CallbackConverts,
    CallOnFrame, SurfaceEnds, CaptureWakes
<1>6. CASE SetterRuns
  BY <1>6 DEF SetterRuns, SetterWaits, SetterWakes,
    SetterAssigns
<1>7. ASSUME NEW req \in Requests, SetterEnters(req)  PROVE (SessionType /\
  SessionInv)'
  BY <1>7 DEF SetterEnters
<1>8. CASE UNCHANGED vars
  BY <1>8 DEF vars
<1> QED
  BY <1>1, <1>2, <1>3, <1>4, <1>5, <1>6, <1>7, <1>8 DEF Next

\* The preview thread and its queue.
LEMMA PreviewTyped ==
  ASSUME PreviewType, SessionType, SessionInv, PreviewConstants, [Next]_vars
  PROVE  PreviewType'
<1> USE DEF PreviewType, PreviewPoints
<1>1. CASE Control
  <2>1. CASE SetPreviewDisplay
    BY <2>1 DEF SetPreviewDisplay
  <2>2. CASE StartPreview
    BY <2>2 DEF StartPreview
  <2>3. CASE CreatePreview
    BY <2>3 DEF CreatePreview, WakePreview
  <2>4. CASE StopPreview
    BY <2>4 DEF StopPreview
  <2>5. CASE SignalPreview
    BY <2>5 DEF SignalPreview, WakePreview
  <2>6. CASE SignalCapture
    BY <2>6 DEF SignalCapture
  <2>7. CASE JoinCapture
    BY <2>7 DEF JoinCapture
  <2>8. CASE JoinPreview
    BY <2>8 DEF JoinPreview
  <2>9. CASE ClearDisplay
    BY <2>9 DEF ClearDisplay
  <2>10. CASE ClearPreview
    BY <2>10 DEF ClearPreview, ClearPreviewFrame
  <2>11. CASE ClearCapture
    BY <2>11 DEF ClearCapture
  <2>12. CASE ReleaseWindows
    BY <2>12 DEF ReleaseWindows
  <2> QED
    BY <1>1, <2>1, <2>2, <2>3, <2>4, <2>5, <2>6, <2>7, <2>8, <2>9, <2>10,
      <2>11, <2>12 DEF Control
<1>2. CASE Callback
  <2>1. CASE CallbackBegins
    BY <2>1 DEF CallbackBegins
  <2>2. CASE CheckFrame
    BY <2>2 DEF CheckFrame
  <2>3. CASE AddPreviewFrame
    <3>1. frames' \in Seq(Seqs) /\ Len(frames') <= MaxFrame
      BY SMTT(30), <2>3 DEF AddPreviewFrame, QueueHasRoom, WakePreview, CallbackReturns,
        SessionType, SessionInv
    <3>2. pp' \in PreviewPoints
      BY <2>3 DEF AddPreviewFrame, WakePreview
    <3>3. pf' \in 0..MaxSeq /\ mjpeg' \in Modes
      BY <2>3 DEF AddPreviewFrame
    <3> QED
      BY <3>1, <3>2, <3>3
  <2>4. CASE DropFrame
    BY <2>4 DEF DropFrame
  <2> QED
    BY <1>2, <2>1, <2>2, <2>3, <2>4 DEF Callback
<1>3. CASE SessionChanges
  BY <1>3 DEF SessionChanges
<1>4. CASE Preview
  <2>1. CASE Prepare
    BY <2>1 DEF Prepare
  <2>2. CASE StartStreaming
    BY <2>2 DEF StartStreaming
  <2>3. CASE ClearStale
    BY <2>3 DEF ClearStale, ClearPreviewFrame
  <2>4. CASE PreviewLoop
    BY <2>4 DEF PreviewLoop
  <2>5. CASE WaitPreviewFrame
    <3>1. frames' \in Seq(Seqs) /\ Len(frames') <= MaxFrame
      BY <2>5, PreviewTail DEF WaitPreviewFrame, TakePreviewFrame, RemoveFirst
    <3>2. pp' \in PreviewPoints
      BY <2>5 DEF WaitPreviewFrame, TakePreviewFrame, RemoveFirst
    <3>3. pf' \in 0..MaxSeq /\ mjpeg' \in Modes
      BY <2>5 DEF WaitPreviewFrame, TakePreviewFrame, RemoveFirst
    <3> QED
      BY <3>1, <3>2, <3>3
  <2>6. CASE Decode
    BY <2>6 DEF Decode
  <2>7. CASE Draw
    BY <2>7 DEF Draw
  <2>8. CASE AddCaptureFrame
    BY <2>8 DEF AddCaptureFrame
  <2>9. CASE PreviewEnds
    BY <2>9 DEF PreviewEnds
  <2>10. CASE StopStreaming
    BY <2>10 DEF StopStreaming
  <2>11. ASSUME NEW c \in CaptureThreads, CreateCapture(c)  PROVE PreviewType'
    BY <2>11 DEF CreateCapture
  <2> QED
    BY <1>4, <2>1, <2>2, <2>3, <2>4, <2>5, <2>6, <2>7, <2>8, <2>9, <2>10, <2>11
      DEF Preview
<1>5. ASSUME NEW c \in CaptureThreads, Capture(c)  PROVE PreviewType'
  BY <1>5 DEF Capture, CaptureClears, CaptureLoop, CaptureTest,
    WaitCaptureFrame, ConvertForSurface, CopyToSurface, CallbackConverts,
    CallOnFrame, SurfaceEnds, CaptureWakes
<1>6. CASE SetterRuns
  BY <1>6 DEF SetterRuns, SetterWaits, SetterWakes,
    SetterAssigns
<1>7. ASSUME NEW req \in Requests, SetterEnters(req)  PROVE PreviewType'
  BY <1>7 DEF SetterEnters
<1>8. CASE UNCHANGED vars
  BY <1>8 DEF vars
<1> QED
  BY <1>1, <1>2, <1>3, <1>4, <1>5, <1>6, <1>7, <1>8 DEF Next

\* The capture threads.
LEMMA CaptureTyped ==
  ASSUME CaptureType, PreviewType, SetterType, PreviewConstants, [Next]_vars
  PROVE  CaptureType'
<1> USE DEF CaptureType, CapturePoints
<1>1. CASE Control
  <2>1. CASE SetPreviewDisplay
    BY <2>1 DEF SetPreviewDisplay
  <2>2. CASE StartPreview
    BY <2>2 DEF StartPreview
  <2>3. CASE CreatePreview
    BY <2>3 DEF CreatePreview
  <2>4. CASE StopPreview
    BY <2>4 DEF StopPreview
  <2>5. CASE SignalPreview
    BY <2>5 DEF SignalPreview
  <2>6. CASE SignalCapture
    BY <2>6 DEF SignalCapture, Signal, Wake, Woken
  <2>7. CASE JoinCapture
    BY <2>7 DEF JoinCapture
  <2>8. CASE JoinPreview
    BY <2>8 DEF JoinPreview
  <2>9. CASE ClearDisplay
    BY <2>9 DEF ClearDisplay
  <2>10. CASE ClearPreview
    BY <2>10 DEF ClearPreview
  <2>11. CASE ClearCapture
    BY <2>11 DEF ClearCapture, ClearCaptureFrame
  <2>12. CASE ReleaseWindows
    BY <2>12 DEF ReleaseWindows
  <2> QED
    BY <1>1, <2>1, <2>2, <2>3, <2>4, <2>5, <2>6, <2>7, <2>8, <2>9, <2>10,
      <2>11, <2>12 DEF Control
<1>2. CASE Callback
  BY <1>2 DEF Callback, CallbackBegins, CheckFrame, AddPreviewFrame, DropFrame
<1>3. CASE SessionChanges
  BY <1>3 DEF SessionChanges
<1>4. CASE Preview
  <2>1. CASE Prepare
    BY <2>1 DEF Prepare
  <2>2. CASE StartStreaming
    BY <2>2 DEF StartStreaming
  <2>3. CASE ClearStale
    BY <2>3 DEF ClearStale
  <2>4. CASE PreviewLoop
    BY <2>4 DEF PreviewLoop
  <2>5. CASE WaitPreviewFrame
    BY <2>5 DEF WaitPreviewFrame
  <2>6. CASE Decode
    BY <2>6 DEF Decode
  <2>7. CASE Draw
    BY <2>7 DEF Draw
  <2>8. CASE AddCaptureFrame
    BY <2>8 DEF AddCaptureFrame, Broadcast, Wake, Woken, PreviewType
  <2>9. CASE PreviewEnds
    BY <2>9 DEF PreviewEnds, Signal, Wake, Woken
  <2>10. CASE StopStreaming
    BY <2>10 DEF StopStreaming
  <2>11. ASSUME NEW c \in CaptureThreads, CreateCapture(c)  PROVE CaptureType'
    BY <2>11 DEF CreateCapture
  <2> QED
    BY <1>4, <2>1, <2>2, <2>3, <2>4, <2>5, <2>6, <2>7, <2>8, <2>9, <2>10, <2>11
      DEF Preview
<1>5. ASSUME NEW c \in CaptureThreads, Capture(c)  PROVE CaptureType'
  <2>1. CASE CaptureClears(c)
    BY <2>1 DEF CaptureClears, ClearCaptureFrame, Goto
  <2>2. CASE CaptureLoop(c)
    BY <2>2 DEF CaptureLoop, Goto
  <2>3. CASE CaptureTest(c)
    BY <2>3 DEF CaptureTest, Goto
  <2>4. CASE WaitCaptureFrame(c)
    <3>1. (slot \in 0..MaxSeq /\ capturing \in BOOLEAN)'
      BY <2>4 DEF WaitCaptureFrame, TakeCaptureFrame
    <3>2. cap' \in [CaptureThreads -> CapturePoints]
      BY <2>4 DEF WaitCaptureFrame, Goto, TakeCaptureFrame
    <3>3. cf' \in [CaptureThreads -> 0..MaxSeq]
      BY <2>4 DEF WaitCaptureFrame, TakeCaptureFrame
    <3>4. (surf \in [CaptureThreads -> BOOLEAN])'
      BY <2>4 DEF WaitCaptureFrame
    <3>5. (conv \in [CaptureThreads -> BOOLEAN])'
      BY <2>4 DEF WaitCaptureFrame
    <3>6. using' \in [CaptureThreads -> Callbacks \union {None}]
      BY <2>4 DEF WaitCaptureFrame
    <3> QED
      BY <3>1, <3>2, <3>3, <3>4, <3>5, <3>6
  <2>5. CASE ConvertForSurface(c)
    BY <2>5 DEF ConvertForSurface, Goto
  <2>6. CASE CopyToSurface(c)
    BY <2>6 DEF CopyToSurface, Goto
  <2>7. CASE CallbackConverts(c)
    <3>1. (slot \in 0..MaxSeq /\ capturing \in BOOLEAN)'
      BY <2>7 DEF CallbackConverts
    <3>2. cap' \in [CaptureThreads -> CapturePoints]
      BY <2>7 DEF CallbackConverts, RecycleCaptured, Goto
    <3>3. cf' \in [CaptureThreads -> 0..MaxSeq]
      BY <2>7 DEF CallbackConverts, RecycleCaptured
    <3>4. (surf \in [CaptureThreads -> BOOLEAN])'
      BY <2>7 DEF CallbackConverts
    <3>5. (conv \in [CaptureThreads -> BOOLEAN])'
      BY <2>7 DEF CallbackConverts
    <3>6. using' \in [CaptureThreads -> Callbacks \union {None}]
      BY <2>7 DEF CallbackConverts
    <3> QED
      BY <3>1, <3>2, <3>3, <3>4, <3>5, <3>6
  <2>8. CASE CallOnFrame(c)
    <3>1. (slot \in 0..MaxSeq /\ capturing \in BOOLEAN)'
      BY <2>8 DEF CallOnFrame
    <3>2. cap' \in [CaptureThreads -> CapturePoints]
      BY <2>8 DEF CallOnFrame, Goto, RecycleCaptured
    <3>3. cf' \in [CaptureThreads -> 0..MaxSeq]
      BY <2>8 DEF CallOnFrame, RecycleCaptured
    <3>4. (surf \in [CaptureThreads -> BOOLEAN])'
      BY <2>8 DEF CallOnFrame
    <3>5. (conv \in [CaptureThreads -> BOOLEAN])'
      BY <2>8 DEF CallOnFrame
    <3>6. using' \in [CaptureThreads -> Callbacks \union {None}]
      BY <2>8 DEF CallOnFrame, SetterType
    <3> QED
      BY <3>1, <3>2, <3>3, <3>4, <3>5, <3>6
  <2>9. CASE SurfaceEnds(c)
    BY <2>9 DEF SurfaceEnds, RecycleConverted, Goto
  <2>10. CASE CaptureWakes(c)
    BY <2>10 DEF CaptureWakes, Woken
  <2> QED
    BY <1>5, <2>1, <2>2, <2>3, <2>4, <2>5, <2>6, <2>7, <2>8, <2>9, <2>10 DEF
      Capture
<1>6. CASE SetterRuns
  BY <1>6 DEF SetterRuns, SetterWaits, SetterWakes,
    SetterAssigns, Waiters, Woken
<1>7. ASSUME NEW req \in Requests, SetterEnters(req)  PROVE CaptureType'
  BY <1>7 DEF SetterEnters
<1>8. CASE UNCHANGED vars
  BY <1>8 DEF vars
<1> QED
  BY <1>1, <1>2, <1>3, <1>4, <1>5, <1>6, <1>7, <1>8 DEF Next

\* The setter and the windows.
LEMMA SetterTyped ==
  ASSUME SetterType, CaptureType, PreviewConstants, [Next]_vars
  PROVE  SetterType'
<1> USE DEF SetterType
<1>1. CASE Control
  <2>1. CASE SetPreviewDisplay
    BY <2>1 DEF SetPreviewDisplay
  <2>2. CASE StartPreview
    BY <2>2 DEF StartPreview
  <2>3. CASE CreatePreview
    BY <2>3 DEF CreatePreview
  <2>4. CASE StopPreview
    BY <2>4 DEF StopPreview
  <2>5. CASE SignalPreview
    BY <2>5 DEF SignalPreview
  <2>6. CASE SignalCapture
    BY <2>6 DEF SignalCapture, Signal, Wake
  <2>7. CASE JoinCapture
    BY <2>7 DEF JoinCapture
  <2>8. CASE JoinPreview
    BY <2>8 DEF JoinPreview
  <2>9. CASE ClearDisplay
    BY <2>9 DEF ClearDisplay
  <2>10. CASE ClearPreview
    BY <2>10 DEF ClearPreview
  <2>11. CASE ClearCapture
    BY <2>11 DEF ClearCapture
  <2>12. CASE ReleaseWindows
    <3>1. cwin' \in Windows \union {None} /\ fcb' \in Callbacks \union {None}
      BY <2>12 DEF ReleaseWindows
    <3>2. set' \in {"idle", "wait", "asleep", "woken", "assign"}
      BY <2>12 DEF ReleaseWindows
    <3>3. arg' \in Requests
      BY <2>12 DEF ReleaseWindows
    <3>4. dead' \subseteq Windows
      BY <2>12, GivenBackWindow DEF ReleaseWindows
    <3>5. broken' \in BOOLEAN
      BY <2>12, GivenBackTyped DEF ReleaseWindows
    <3>6. changed' \in BOOLEAN
      BY <2>12 DEF ReleaseWindows
    <3> QED
      BY <3>1, <3>2, <3>3, <3>4, <3>5, <3>6
  <2> QED
    BY <1>1, <2>1, <2>2, <2>3, <2>4, <2>5, <2>6, <2>7, <2>8, <2>9, <2>10,
      <2>11, <2>12 DEF Control
<1>2. CASE Callback
  BY <1>2 DEF Callback, CallbackBegins, CheckFrame, AddPreviewFrame, DropFrame
<1>3. CASE SessionChanges
  BY <1>3 DEF SessionChanges
<1>4. CASE Preview
  <2>1. CASE Prepare
    BY <2>1 DEF Prepare
  <2>2. CASE StartStreaming
    BY <2>2 DEF StartStreaming
  <2>3. CASE ClearStale
    BY <2>3 DEF ClearStale
  <2>4. CASE PreviewLoop
    BY <2>4 DEF PreviewLoop
  <2>5. CASE WaitPreviewFrame
    BY <2>5 DEF WaitPreviewFrame
  <2>6. CASE Decode
    BY <2>6 DEF Decode
  <2>7. CASE Draw
    BY <2>7 DEF Draw
  <2>8. CASE AddCaptureFrame
    BY <2>8 DEF AddCaptureFrame, Broadcast, Wake
  <2>9. CASE PreviewEnds
    BY <2>9 DEF PreviewEnds, Signal, Wake
  <2>10. CASE StopStreaming
    BY <2>10 DEF StopStreaming
  <2>11. ASSUME NEW c \in CaptureThreads, CreateCapture(c)  PROVE SetterType'
    BY <2>11 DEF CreateCapture
  <2> QED
    BY <1>4, <2>1, <2>2, <2>3, <2>4, <2>5, <2>6, <2>7, <2>8, <2>9, <2>10, <2>11
      DEF Preview
<1>5. ASSUME NEW c \in CaptureThreads, Capture(c)  PROVE SetterType'
  <2>1. CASE CaptureClears(c)
    BY <2>1 DEF CaptureClears
  <2>2. CASE CaptureLoop(c)
    BY <2>2 DEF CaptureLoop
  <2>3. CASE CaptureTest(c)
    BY <2>3 DEF CaptureTest
  <2>4. CASE WaitCaptureFrame(c)
    BY <2>4 DEF WaitCaptureFrame
  <2>5. CASE ConvertForSurface(c)
    BY <2>5 DEF ConvertForSurface
  <2>6. CASE CopyToSurface(c)
    <3>1. cwin' \in Windows \union {None} /\ fcb' \in Callbacks \union {None}
      BY <2>6 DEF CopyToSurface
    <3>2. set' \in {"idle", "wait", "asleep", "woken", "assign"}
      BY <2>6 DEF CopyToSurface
    <3>3. arg' \in Requests
      BY <2>6 DEF CopyToSurface
    <3>4. dead' \subseteq Windows
      BY <2>6 DEF CopyToSurface
    <3>5. broken' \in BOOLEAN
      BY <2>6, UsedTyped DEF CopyToSurface
    <3>6. changed' \in BOOLEAN
      BY <2>6 DEF CopyToSurface
    <3> QED
      BY <3>1, <3>2, <3>3, <3>4, <3>5, <3>6
  <2>7. CASE CallbackConverts(c)
    BY <2>7 DEF CallbackConverts
  <2>8. CASE CallOnFrame(c)
    BY <2>8 DEF CallOnFrame
  <2>9. CASE SurfaceEnds(c)
    <3>1. cwin' \in Windows \union {None} /\ fcb' \in Callbacks \union {None}
      BY <2>9 DEF SurfaceEnds, ClearWindow
    <3>2. set' \in {"idle", "wait", "asleep", "woken", "assign"}
      BY <2>9 DEF SurfaceEnds
    <3>3. arg' \in Requests
      BY <2>9 DEF SurfaceEnds
    <3>4. dead' \subseteq Windows
      BY <2>9, GivenBackWindow DEF SurfaceEnds
    <3>5. broken' \in BOOLEAN
      BY <2>9, GivenBackTyped DEF SurfaceEnds
    <3>6. changed' \in BOOLEAN
      BY <2>9 DEF SurfaceEnds
    <3> QED
      BY <3>1, <3>2, <3>3, <3>4, <3>5, <3>6
  <2>10. CASE CaptureWakes(c)
    BY <2>10 DEF CaptureWakes
  <2> QED
    BY <1>5, <2>1, <2>2, <2>3, <2>4, <2>5, <2>6, <2>7, <2>8, <2>9, <2>10 DEF
      Capture
<1>6. CASE SetterRuns
  <2>1. CASE SetterWakes
    <3>1. cwin' \in Windows \union {None} /\ fcb' \in Callbacks \union {None}
      BY <2>1 DEF SetterWakes
    <3>2. set' \in {"idle", "wait", "asleep", "woken", "assign"}
      BY <2>1 DEF SetterWakes, Replace
    <3>3. arg' \in Requests
      BY <2>1 DEF SetterWakes, Replace, NoRequest, Requests
    <3>4. dead' \subseteq Windows
      BY <2>1, GivenBackWindow DEF SetterWakes, Replace
    <3>5. broken' \in BOOLEAN
      BY <2>1, GivenBackTyped DEF SetterWakes, Replace
    <3>6. changed' \in BOOLEAN
      BY <2>1 DEF SetterWakes
    <3> QED
      BY <3>1, <3>2, <3>3, <3>4, <3>5, <3>6
  <2>2. CASE SetterAssigns
    BY <2>2 DEF SetterAssigns, NoRequest, Requests
  <2>3. CASE SetterWaits
    BY <2>3 DEF SetterWaits
  <2> QED
    BY <1>6, <2>1, <2>2, <2>3 DEF SetterRuns
<1>7. ASSUME NEW req \in Requests, SetterEnters(req)  PROVE SetterType'
  <2>1. cwin' \in Windows \union {None} /\ fcb' \in Callbacks \union {None}
    BY <1>7 DEF SetterEnters
  <2>2. set' \in {"idle", "wait", "asleep", "woken", "assign"}
    BY <1>7 DEF SetterEnters, Replace
  <2>3. arg' \in Requests
    BY <1>7 DEF SetterEnters, Replace, NoRequest, Requests
  <2>4. dead' \subseteq Windows
    BY <1>7, GivenBackWindow DEF SetterEnters, Replace
  <2>5. broken' \in BOOLEAN
    BY <1>7, GivenBackTyped DEF SetterEnters, Replace
  <2>6. changed' \in BOOLEAN
    BY <1>7 DEF SetterEnters
  <2> QED
    BY <2>1, <2>2, <2>3, <2>4, <2>5, <2>6
<1>8. CASE UNCHANGED vars
  BY <1>8 DEF vars
<1> QED
  BY <1>1, <1>2, <1>3, <1>4, <1>5, <1>6, <1>7, <1>8 DEF Next

----------------------------------------------------------------------------
(***************************************************************************)
(* The parts of the inductive invariant.                                   *)
(***************************************************************************)
\* Where the control thread is, and which preview thread there may be.
LEMMA ControlPreserved ==
  ASSUME ControlInv, ControlType, PreviewType, PreviewConstants, [Next]_vars
  PROVE  ControlInv'
<1> USE DEF ControlInv, Ended
<1>1. CASE Control
  <2>1. CASE SetPreviewDisplay
    BY <2>1 DEF SetPreviewDisplay
  <2>2. CASE StartPreview
    BY <2>2 DEF StartPreview
  <2>3. CASE CreatePreview
    <3>1. pp = "none" /\ ctl' = "idle"
      BY <2>3 DEF CreatePreview
    <3>2. CASE pp' = "prepare" /\ running' = running
      BY <3>1, <3>2, <2>3 DEF CreatePreview
    <3>3. CASE running' = FALSE /\ WakePreview
      BY <3>1, <3>3 DEF WakePreview
    <3> QED
      BY <3>2, <3>3, <2>3 DEF CreatePreview
  <2>4. CASE StopPreview
    BY <2>4 DEF StopPreview
  <2>5. CASE SignalPreview
    BY <2>5 DEF SignalPreview
  <2>6. CASE SignalCapture
    BY <2>6 DEF SignalCapture
  <2>7. CASE JoinCapture
    BY <2>7 DEF JoinCapture
  <2>8. CASE JoinPreview
    BY <2>8 DEF JoinPreview
  <2>9. CASE ClearDisplay
    BY <2>9 DEF ClearDisplay
  <2>10. CASE ClearPreview
    BY <2>10 DEF ClearPreview
  <2>11. CASE ClearCapture
    BY <2>11 DEF ClearCapture
  <2>12. CASE ReleaseWindows
    BY <2>12 DEF ReleaseWindows
  <2> QED
    BY <1>1, <2>1, <2>2, <2>3, <2>4, <2>5, <2>6, <2>7, <2>8, <2>9, <2>10,
      <2>11, <2>12 DEF Control
<1>2. CASE Callback
  BY <1>2 DEF Callback, CallbackBegins, CheckFrame, AddPreviewFrame,
    WakePreview, DropFrame
<1>3. CASE SessionChanges
  BY <1>3 DEF SessionChanges
<1>4. CASE Preview
  <2>1. CASE Prepare
    BY <2>1 DEF Prepare
  <2>2. CASE StartStreaming
    BY <2>2 DEF StartStreaming
  <2>3. CASE ClearStale
    BY <2>3 DEF ClearStale
  <2>4. CASE PreviewLoop
    BY <2>4 DEF PreviewLoop
  <2>5. CASE WaitPreviewFrame
    BY <2>5 DEF WaitPreviewFrame
  <2>6. CASE Decode
    BY <2>6 DEF Decode
  <2>7. CASE Draw
    BY <2>7 DEF Draw
  <2>8. CASE AddCaptureFrame
    BY <2>8 DEF AddCaptureFrame
  <2>9. CASE PreviewEnds
    BY <2>9 DEF PreviewEnds
  <2>10. CASE StopStreaming
    BY <2>10 DEF StopStreaming
  <2>11. ASSUME NEW c \in CaptureThreads, CreateCapture(c)  PROVE ControlInv'
    BY <2>11 DEF CreateCapture
  <2> QED
    BY <1>4, <2>1, <2>2, <2>3, <2>4, <2>5, <2>6, <2>7, <2>8, <2>9, <2>10, <2>11
      DEF Preview
<1>5. ASSUME NEW c \in CaptureThreads, Capture(c)  PROVE ControlInv'
  BY <1>5 DEF Capture, CaptureClears, CaptureLoop, CaptureTest,
    WaitCaptureFrame, ConvertForSurface, CopyToSurface, CallbackConverts,
    CallOnFrame, SurfaceEnds, CaptureWakes
<1>6. CASE SetterRuns
  BY <1>6 DEF SetterRuns, SetterWaits, SetterWakes,
    SetterAssigns
<1>7. ASSUME NEW req \in Requests, SetterEnters(req)  PROVE ControlInv'
  BY <1>7 DEF SetterEnters
<1>8. CASE UNCHANGED vars
  BY <1>8 DEF vars
<1> QED
  BY <1>1, <1>2, <1>3, <1>4, <1>5, <1>6, <1>7, <1>8 DEF Next

\* What the preview thread has.
LEMMA PreviewPreserved ==
  ASSUME PreviewInv, PreviewType, SessionType, ControlInv, PreviewConstants,
    [Next]_vars
  PROVE  PreviewInv'
<1> USE DEF PreviewInv
<1>1. CASE Control
  <2>1. CASE SetPreviewDisplay
    BY <2>1 DEF SetPreviewDisplay
  <2>2. CASE StartPreview
    BY <2>2 DEF StartPreview
  <2>3. CASE CreatePreview
    BY <2>3 DEF CreatePreview, WakePreview, ControlInv, Ended
  <2>4. CASE StopPreview
    BY <2>4 DEF StopPreview
  <2>5. CASE SignalPreview
    BY <2>5 DEF SignalPreview, WakePreview
  <2>6. CASE SignalCapture
    BY <2>6 DEF SignalCapture
  <2>7. CASE JoinCapture
    BY <2>7 DEF JoinCapture
  <2>8. CASE JoinPreview
    BY <2>8 DEF JoinPreview
  <2>9. CASE ClearDisplay
    BY <2>9 DEF ClearDisplay
  <2>10. CASE ClearPreview
    BY <2>10 DEF ClearPreview
  <2>11. CASE ClearCapture
    BY <2>11 DEF ClearCapture
  <2>12. CASE ReleaseWindows
    BY <2>12 DEF ReleaseWindows
  <2> QED
    BY <1>1, <2>1, <2>2, <2>3, <2>4, <2>5, <2>6, <2>7, <2>8, <2>9, <2>10,
      <2>11, <2>12 DEF Control
<1>2. CASE Callback
  <2>1. CASE CallbackBegins
    BY <2>1 DEF CallbackBegins, Session!Deliver
  <2>2. CASE CheckFrame
    BY <2>2 DEF CheckFrame, CallbackReturns, Session!Return
  <2>3. CASE AddPreviewFrame
    BY <2>3 DEF AddPreviewFrame, WakePreview, CallbackReturns, Session!Return
  <2>4. CASE DropFrame
    BY <2>4 DEF DropFrame, CallbackReturns, Session!Return
  <2> QED
    BY <1>2, <2>1, <2>2, <2>3, <2>4 DEF Callback
<1>3. CASE SessionChanges
  BY <1>3 DEF SessionChanges, Session!Forgo, Session!Stop
<1>4. CASE Preview
  <2>1. CASE Prepare
    BY <2>1 DEF Prepare
  <2>2. CASE StartStreaming
    BY <2>2 DEF StartStreaming
  <2>3. CASE ClearStale
    BY <2>3 DEF ClearStale
  <2>4. CASE PreviewLoop
    BY <2>4 DEF PreviewLoop
  <2>5. CASE WaitPreviewFrame
    <3>1. frames # <<>> => Head(frames) # 0
      BY PreviewTail
    <3> QED
      BY <2>5, <3>1 DEF WaitPreviewFrame, TakePreviewFrame, RemoveFirst
  <2>6. CASE Decode
    BY <2>6 DEF Decode
  <2>7. CASE Draw
    BY <2>7 DEF Draw
  <2>8. CASE AddCaptureFrame
    BY <2>8 DEF AddCaptureFrame
  <2>9. CASE PreviewEnds
    BY <2>9 DEF PreviewEnds
  <2>10. CASE StopStreaming
    BY <2>10 DEF StopStreaming, Session!End
  <2>11. ASSUME NEW c \in CaptureThreads, CreateCapture(c)  PROVE PreviewInv'
    BY <2>11 DEF CreateCapture
  <2> QED
    BY <1>4, <2>1, <2>2, <2>3, <2>4, <2>5, <2>6, <2>7, <2>8, <2>9, <2>10, <2>11
      DEF Preview
<1>5. ASSUME NEW c \in CaptureThreads, Capture(c)  PROVE PreviewInv'
  BY <1>5 DEF Capture, CaptureClears, CaptureLoop, CaptureTest,
    WaitCaptureFrame, ConvertForSurface, CopyToSurface, CallbackConverts,
    CallOnFrame, SurfaceEnds, CaptureWakes
<1>6. CASE SetterRuns
  BY <1>6 DEF SetterRuns, SetterWaits, SetterWakes,
    SetterAssigns
<1>7. ASSUME NEW req \in Requests, SetterEnters(req)  PROVE PreviewInv'
  BY <1>7 DEF SetterEnters
<1>8. CASE UNCHANGED vars
  BY <1>8 DEF vars
<1> QED
  BY <1>1, <1>2, <1>3, <1>4, <1>5, <1>6, <1>7, <1>8 DEF Next

\* What stopPreview has emptied.
LEMMA EmptiedPreserved ==
  ASSUME EmptiedInv, ControlInv, PreviewInv, SessionInv, PreviewConstants,
    [Next]_vars
  PROVE  EmptiedInv'
<1> USE DEF EmptiedInv, ControlInv, Ended
<1>1. CASE Control
  <2>1. CASE SetPreviewDisplay
    BY <2>1 DEF SetPreviewDisplay
  <2>2. CASE StartPreview
    BY <2>2 DEF StartPreview
  <2>3. CASE CreatePreview
    BY <2>3 DEF CreatePreview
  <2>4. CASE StopPreview
    BY <2>4 DEF StopPreview
  <2>5. CASE SignalPreview
    BY <2>5 DEF SignalPreview
  <2>6. CASE SignalCapture
    BY <2>6 DEF SignalCapture
  <2>7. CASE JoinCapture
    BY <2>7 DEF JoinCapture
  <2>8. CASE JoinPreview
    BY <2>8 DEF JoinPreview
  <2>9. CASE ClearDisplay
    BY <2>9 DEF ClearDisplay
  <2>10. CASE ClearPreview
    BY <2>10 DEF ClearPreview, ClearPreviewFrame
  <2>11. CASE ClearCapture
    BY <2>11 DEF ClearCapture, ClearCaptureFrame
  <2>12. CASE ReleaseWindows
    BY <2>12 DEF ReleaseWindows
  <2> QED
    BY <1>1, <2>1, <2>2, <2>3, <2>4, <2>5, <2>6, <2>7, <2>8, <2>9, <2>10,
      <2>11, <2>12 DEF Control
<1>2. CASE Callback
  <2>1. CASE CallbackBegins
    BY <2>1 DEF CallbackBegins
  <2>2. CASE CheckFrame
    BY <2>2 DEF CheckFrame
  <2>3. CASE AddPreviewFrame
    BY <2>3 DEF AddPreviewFrame, PreviewInv, SessionInv
  <2>4. CASE DropFrame
    BY <2>4 DEF DropFrame
  <2> QED
    BY <1>2, <2>1, <2>2, <2>3, <2>4 DEF Callback
<1>3. CASE SessionChanges
  BY <1>3 DEF SessionChanges
<1>4. CASE Preview
  <2>1. CASE Prepare
    BY <2>1 DEF Prepare
  <2>2. CASE StartStreaming
    BY <2>2 DEF StartStreaming
  <2>3. CASE ClearStale
    BY <2>3 DEF ClearStale
  <2>4. CASE PreviewLoop
    BY <2>4 DEF PreviewLoop
  <2>5. CASE WaitPreviewFrame
    BY <2>5 DEF WaitPreviewFrame
  <2>6. CASE Decode
    BY <2>6 DEF Decode
  <2>7. CASE Draw
    BY <2>7 DEF Draw
  <2>8. CASE AddCaptureFrame
    BY <2>8 DEF AddCaptureFrame
  <2>9. CASE PreviewEnds
    BY <2>9 DEF PreviewEnds
  <2>10. CASE StopStreaming
    BY <2>10 DEF StopStreaming
  <2>11. ASSUME NEW c \in CaptureThreads, CreateCapture(c)  PROVE EmptiedInv'
    BY <2>11 DEF CreateCapture
  <2> QED
    BY <1>4, <2>1, <2>2, <2>3, <2>4, <2>5, <2>6, <2>7, <2>8, <2>9, <2>10, <2>11
      DEF Preview
<1>5. ASSUME NEW c \in CaptureThreads, Capture(c)  PROVE EmptiedInv'
  <2>1. CASE CaptureClears(c)
    BY <2>1 DEF CaptureClears, ClearCaptureFrame
  <2>2. CASE CaptureLoop(c)
    BY <2>2 DEF CaptureLoop
  <2>3. CASE CaptureTest(c)
    BY <2>3 DEF CaptureTest
  <2>4. CASE WaitCaptureFrame(c)
    BY <2>4 DEF WaitCaptureFrame, TakeCaptureFrame
  <2>5. CASE ConvertForSurface(c)
    BY <2>5 DEF ConvertForSurface
  <2>6. CASE CopyToSurface(c)
    BY <2>6 DEF CopyToSurface
  <2>7. CASE CallbackConverts(c)
    BY <2>7 DEF CallbackConverts
  <2>8. CASE CallOnFrame(c)
    BY <2>8 DEF CallOnFrame
  <2>9. CASE SurfaceEnds(c)
    BY <2>9 DEF SurfaceEnds
  <2>10. CASE CaptureWakes(c)
    BY <2>10 DEF CaptureWakes
  <2> QED
    BY <1>5, <2>1, <2>2, <2>3, <2>4, <2>5, <2>6, <2>7, <2>8, <2>9, <2>10 DEF
      Capture
<1>6. CASE SetterRuns
  BY <1>6 DEF SetterRuns, SetterWaits, SetterWakes,
    SetterAssigns
<1>7. ASSUME NEW req \in Requests, SetterEnters(req)  PROVE EmptiedInv'
  BY <1>7 DEF SetterEnters
<1>8. CASE UNCHANGED vars
  BY <1>8 DEF vars
<1> QED
  BY <1>1, <1>2, <1>3, <1>4, <1>5, <1>6, <1>7, <1>8 DEF Next

\* What the capture threads have.
LEMMA HoldPreserved ==
  ASSUME HoldInv, CaptureType, PreviewType, PreviewConstants, [Next]_vars
  PROVE  HoldInv'
<1> USE DEF HoldInv, HoldPoints, CaptureType
<1>1. CASE Control
  <2>1. CASE SetPreviewDisplay
    BY <2>1 DEF SetPreviewDisplay
  <2>2. CASE StartPreview
    BY <2>2 DEF StartPreview
  <2>3. CASE CreatePreview
    BY <2>3 DEF CreatePreview
  <2>4. CASE StopPreview
    BY <2>4 DEF StopPreview
  <2>5. CASE SignalPreview
    BY <2>5 DEF SignalPreview
  <2>6. CASE SignalCapture
    BY <2>6 DEF SignalCapture, Signal, Waiters, Wake, Woken
  <2>7. CASE JoinCapture
    BY <2>7 DEF JoinCapture, CaptureThreadEnded
  <2>8. CASE JoinPreview
    BY <2>8 DEF JoinPreview
  <2>9. CASE ClearDisplay
    BY <2>9 DEF ClearDisplay
  <2>10. CASE ClearPreview
    BY <2>10 DEF ClearPreview
  <2>11. CASE ClearCapture
    BY <2>11 DEF ClearCapture
  <2>12. CASE ReleaseWindows
    BY <2>12 DEF ReleaseWindows
  <2> QED
    BY <1>1, <2>1, <2>2, <2>3, <2>4, <2>5, <2>6, <2>7, <2>8, <2>9, <2>10,
      <2>11, <2>12 DEF Control
<1>2. CASE Callback
  BY <1>2 DEF Callback, CallbackBegins, CheckFrame, AddPreviewFrame, DropFrame
<1>3. CASE SessionChanges
  BY <1>3 DEF SessionChanges
<1>4. CASE Preview
  <2>1. CASE Prepare
    BY <2>1 DEF Prepare
  <2>2. CASE StartStreaming
    BY <2>2 DEF StartStreaming
  <2>3. CASE ClearStale
    BY <2>3 DEF ClearStale
  <2>4. CASE PreviewLoop
    BY <2>4 DEF PreviewLoop
  <2>5. CASE WaitPreviewFrame
    BY <2>5 DEF WaitPreviewFrame
  <2>6. CASE Decode
    BY <2>6 DEF Decode
  <2>7. CASE Draw
    BY <2>7 DEF Draw
  <2>8. CASE AddCaptureFrame
    BY <2>8 DEF AddCaptureFrame, Broadcast, Wake, Woken, Waiters
  <2>9. CASE PreviewEnds
    BY <2>9 DEF PreviewEnds, Signal, Waiters, Wake, Woken
  <2>10. CASE StopStreaming
    BY <2>10 DEF StopStreaming
  <2>11. ASSUME NEW c \in CaptureThreads, CreateCapture(c)  PROVE HoldInv'
    BY <2>11 DEF CreateCapture
  <2> QED
    BY <1>4, <2>1, <2>2, <2>3, <2>4, <2>5, <2>6, <2>7, <2>8, <2>9, <2>10, <2>11
      DEF Preview
<1>5. ASSUME NEW c \in CaptureThreads, Capture(c)  PROVE HoldInv'
  <2>1. CASE CaptureClears(c)
    BY <2>1 DEF CaptureClears, Goto
  <2>2. CASE CaptureLoop(c)
    BY <2>2 DEF CaptureLoop, Goto
  <2>3. CASE CaptureTest(c)
    BY <2>3 DEF CaptureTest, Goto
  <2>4. CASE WaitCaptureFrame(c)
    BY <2>4 DEF WaitCaptureFrame, Goto, TakeCaptureFrame
  <2>5. CASE ConvertForSurface(c)
    BY <2>5 DEF ConvertForSurface, Goto
  <2>6. CASE CopyToSurface(c)
    BY <2>6 DEF CopyToSurface, Goto
  <2>7. CASE CallbackConverts(c)
    BY <2>7 DEF CallbackConverts, RecycleCaptured, Goto
  <2>8. CASE CallOnFrame(c)
    BY <2>8 DEF CallOnFrame, Goto, RecycleCaptured
  <2>9. CASE SurfaceEnds(c)
    BY <2>9 DEF SurfaceEnds, RecycleConverted, Goto
  <2>10. CASE CaptureWakes(c)
    BY <2>10 DEF CaptureWakes, Woken, Waiters
  <2> QED
    BY <1>5, <2>1, <2>2, <2>3, <2>4, <2>5, <2>6, <2>7, <2>8, <2>9, <2>10 DEF
      Capture
<1>6. CASE SetterRuns
  BY <1>6 DEF SetterRuns, SetterWaits, SetterWakes,
    SetterAssigns, Waiters, Woken
<1>7. ASSUME NEW req \in Requests, SetterEnters(req)  PROVE HoldInv'
  BY <1>7 DEF SetterEnters
<1>8. CASE UNCHANGED vars
  BY <1>8 DEF vars
<1> QED
  BY <1>1, <1>2, <1>3, <1>4, <1>5, <1>6, <1>7, <1>8 DEF Next

\* Sleepers have nothing to take.
LEMMA SleepersPreserved ==
  ASSUME SleepersHaveNothingToTake, CaptureType, PreviewType,
    PreviewConstants, [Next]_vars
  PROVE  SleepersHaveNothingToTake'
<1> USE DEF SleepersHaveNothingToTake, CaptureType
<1>1. CASE Control
  <2>1. CASE SetPreviewDisplay
    BY <2>1 DEF SetPreviewDisplay
  <2>2. CASE StartPreview
    BY <2>2 DEF StartPreview
  <2>3. CASE CreatePreview
    BY <2>3 DEF CreatePreview, WakePreview
  <2>4. CASE StopPreview
    BY <2>4 DEF StopPreview
  <2>5. CASE SignalPreview
    BY <2>5 DEF SignalPreview, WakePreview
  <2>6. CASE SignalCapture
    BY <2>6 DEF SignalCapture, Signal, Wake, Woken
  <2>7. CASE JoinCapture
    BY <2>7 DEF JoinCapture
  <2>8. CASE JoinPreview
    BY <2>8 DEF JoinPreview
  <2>9. CASE ClearDisplay
    BY <2>9 DEF ClearDisplay
  <2>10. CASE ClearPreview
    BY <2>10 DEF ClearPreview, ClearPreviewFrame
  <2>11. CASE ClearCapture
    BY <2>11 DEF ClearCapture, ClearCaptureFrame
  <2>12. CASE ReleaseWindows
    BY <2>12 DEF ReleaseWindows
  <2> QED
    BY <1>1, <2>1, <2>2, <2>3, <2>4, <2>5, <2>6, <2>7, <2>8, <2>9, <2>10,
      <2>11, <2>12 DEF Control
<1>2. CASE Callback
  <2>1. CASE CallbackBegins
    BY <2>1 DEF CallbackBegins
  <2>2. CASE CheckFrame
    BY <2>2 DEF CheckFrame
  <2>3. CASE AddPreviewFrame
    BY <2>3 DEF AddPreviewFrame, WakePreview
  <2>4. CASE DropFrame
    BY <2>4 DEF DropFrame
  <2> QED
    BY <1>2, <2>1, <2>2, <2>3, <2>4 DEF Callback
<1>3. CASE SessionChanges
  BY <1>3 DEF SessionChanges
<1>4. CASE Preview
  <2>1. CASE Prepare
    BY <2>1 DEF Prepare
  <2>2. CASE StartStreaming
    BY <2>2 DEF StartStreaming
  <2>3. CASE ClearStale
    BY <2>3 DEF ClearStale
  <2>4. CASE PreviewLoop
    BY <2>4 DEF PreviewLoop
  <2>5. CASE WaitPreviewFrame
    BY <2>5 DEF WaitPreviewFrame, TakePreviewFrame, RemoveFirst
  <2>6. CASE Decode
    BY <2>6 DEF Decode
  <2>7. CASE Draw
    BY <2>7 DEF Draw
  <2>8. CASE AddCaptureFrame
    BY <2>8 DEF AddCaptureFrame, Broadcast, Wake, Woken, Waiters
  <2>9. CASE PreviewEnds
    BY <2>9 DEF PreviewEnds, Signal, Wake, Woken
  <2>10. CASE StopStreaming
    BY <2>10 DEF StopStreaming
  <2>11. ASSUME NEW c \in CaptureThreads, CreateCapture(c)  PROVE
  SleepersHaveNothingToTake'
    BY <2>11 DEF CreateCapture
  <2> QED
    BY <1>4, <2>1, <2>2, <2>3, <2>4, <2>5, <2>6, <2>7, <2>8, <2>9, <2>10, <2>11
      DEF Preview
<1>5. ASSUME NEW c \in CaptureThreads, Capture(c)  PROVE
  SleepersHaveNothingToTake'
  <2>1. CASE CaptureClears(c)
    BY <2>1 DEF CaptureClears, ClearCaptureFrame
  <2>2. CASE CaptureLoop(c)
    BY <2>2 DEF CaptureLoop, Goto
  <2>3. CASE CaptureTest(c)
    BY <2>3 DEF CaptureTest, Goto
  <2>4. CASE WaitCaptureFrame(c)
    BY <2>4 DEF WaitCaptureFrame, Goto, TakeCaptureFrame
  <2>5. CASE ConvertForSurface(c)
    BY <2>5 DEF ConvertForSurface, Goto
  <2>6. CASE CopyToSurface(c)
    BY <2>6 DEF CopyToSurface, Goto
  <2>7. CASE CallbackConverts(c)
    BY <2>7 DEF CallbackConverts, RecycleCaptured, Goto
  <2>8. CASE CallOnFrame(c)
    BY <2>8 DEF CallOnFrame, Goto, RecycleCaptured
  <2>9. CASE SurfaceEnds(c)
    BY <2>9 DEF SurfaceEnds, Goto
  <2>10. CASE CaptureWakes(c)
    BY <2>10 DEF CaptureWakes, Woken
  <2> QED
    BY <1>5, <2>1, <2>2, <2>3, <2>4, <2>5, <2>6, <2>7, <2>8, <2>9, <2>10 DEF
      Capture
<1>6. CASE SetterRuns
  BY <1>6 DEF SetterRuns, SetterWaits, SetterWakes,
    SetterAssigns, Waiters, Woken
<1>7. ASSUME NEW req \in Requests, SetterEnters(req)  PROVE
  SleepersHaveNothingToTake'
  BY <1>7 DEF SetterEnters
<1>8. CASE UNCHANGED vars
  BY <1>8 DEF vars
<1> QED
  BY <1>1, <1>2, <1>3, <1>4, <1>5, <1>6, <1>7, <1>8 DEF Next

\* The one capture thread.
LEMMA OneCapturePreserved ==
  ASSUME OneCapture, ControlInv, ControlType, CaptureType, PreviewConstants,
    [Next]_vars
  PROVE  OneCapture'
<1> USE DEF OneCapture, BeforeCreate, Ended, CaptureType
<1>1. CASE Control
  <2>1. CASE SetPreviewDisplay
    BY <2>1 DEF SetPreviewDisplay
  <2>2. CASE StartPreview
    BY <2>2 DEF StartPreview
  <2>3. CASE CreatePreview
    BY <2>3 DEF CreatePreview
  <2>4. CASE StopPreview
    BY <2>4 DEF StopPreview
  <2>5. CASE SignalPreview
    BY <2>5 DEF SignalPreview, WakePreview
  <2>6. CASE SignalCapture
    BY <2>6 DEF SignalCapture, Signal, Waiters, Wake, Woken
  <2>7. CASE JoinCapture
    <3>1. CASE handle = None
      BY <3>1, <2>7 DEF JoinCapture
    <3>2. CASE handle # None /\ handle \in CaptureThreads
      <4>1. cap' = [cap EXCEPT ![handle] = "none"] /\ handle' = None
        BY <3>2, <2>7 DEF JoinCapture
      <4>2. ctl' = "joinP" /\ ctl = "joinC" /\ UNCHANGED <<early, running, pp>>
        BY <3>2, <2>7 DEF JoinCapture
      <4>3. ~early => \A c \in CaptureThreads : cap'[c] = "none"
        BY <3>2, <4>1
      <4> QED
        BY <3>2, <4>1, <4>2, <4>3
    <3> QED
      BY <3>1, <3>2 DEF ControlType
  <2>8. CASE JoinPreview
    BY <2>8 DEF JoinPreview
  <2>9. CASE ClearDisplay
    BY <2>9 DEF ClearDisplay
  <2>10. CASE ClearPreview
    BY <2>10 DEF ClearPreview
  <2>11. CASE ClearCapture
    BY <2>11 DEF ClearCapture
  <2>12. CASE ReleaseWindows
    BY <2>12 DEF ReleaseWindows
  <2> QED
    BY <1>1, <2>1, <2>2, <2>3, <2>4, <2>5, <2>6, <2>7, <2>8, <2>9, <2>10,
      <2>11, <2>12 DEF Control
<1>2. CASE Callback
  BY <1>2 DEF Callback, CallbackBegins, CheckFrame, AddPreviewFrame,
    WakePreview, DropFrame
<1>3. CASE SessionChanges
  BY <1>3 DEF SessionChanges
<1>4. CASE Preview
  <2>1. CASE Prepare
    BY <2>1 DEF Prepare
  <2>2. CASE StartStreaming
    BY <2>2 DEF StartStreaming
  <2>3. CASE ClearStale
    BY <2>3 DEF ClearStale
  <2>4. CASE PreviewLoop
    BY <2>4 DEF PreviewLoop
  <2>5. CASE WaitPreviewFrame
    BY <2>5 DEF WaitPreviewFrame, TakePreviewFrame, RemoveFirst
  <2>6. CASE Decode
    BY <2>6 DEF Decode
  <2>7. CASE Draw
    BY <2>7 DEF Draw
  <2>8. CASE AddCaptureFrame
    BY <2>8 DEF AddCaptureFrame, Broadcast, Wake, Woken, Waiters
  <2>9. CASE PreviewEnds
    BY <2>9 DEF PreviewEnds, Signal, Waiters, Wake, Woken
  <2>10. CASE StopStreaming
    BY <2>10 DEF StopStreaming
  <2>11. ASSUME NEW c \in CaptureThreads, CreateCapture(c)  PROVE OneCapture'
    BY <2>11 DEF CreateCapture, ControlInv
  <2> QED
    BY <1>4, <2>1, <2>2, <2>3, <2>4, <2>5, <2>6, <2>7, <2>8, <2>9, <2>10, <2>11
      DEF Preview
<1>5. ASSUME NEW c \in CaptureThreads, Capture(c)  PROVE OneCapture'
  <2>1. CASE CaptureClears(c)
    BY <2>1 DEF CaptureClears, Goto
  <2>2. CASE CaptureLoop(c)
    BY <2>2 DEF CaptureLoop, Goto
  <2>3. CASE CaptureTest(c)
    BY <2>3 DEF CaptureTest, Goto
  <2>4. CASE WaitCaptureFrame(c)
    BY <2>4 DEF WaitCaptureFrame, Goto, TakeCaptureFrame
  <2>5. CASE ConvertForSurface(c)
    BY <2>5 DEF ConvertForSurface, Goto
  <2>6. CASE CopyToSurface(c)
    BY <2>6 DEF CopyToSurface, Goto
  <2>7. CASE CallbackConverts(c)
    BY <2>7 DEF CallbackConverts, RecycleCaptured, Goto
  <2>8. CASE CallOnFrame(c)
    BY <2>8 DEF CallOnFrame, Goto, RecycleCaptured
  <2>9. CASE SurfaceEnds(c)
    BY <2>9 DEF SurfaceEnds, Goto
  <2>10. CASE CaptureWakes(c)
    BY <2>10 DEF CaptureWakes, Woken, Waiters
  <2> QED
    BY <1>5, <2>1, <2>2, <2>3, <2>4, <2>5, <2>6, <2>7, <2>8, <2>9, <2>10 DEF
      Capture
<1>6. CASE SetterRuns
  BY <1>6 DEF SetterRuns, SetterWaits, SetterWakes,
    SetterAssigns, Waiters, Woken
<1>7. ASSUME NEW req \in Requests, SetterEnters(req)  PROVE OneCapture'
  BY <1>7 DEF SetterEnters
<1>8. CASE UNCHANGED vars
  BY <1>8 DEF vars
<1> QED
  BY <1>1, <1>2, <1>3, <1>4, <1>5, <1>6, <1>7, <1>8 DEF Next

\* No frame is lost.
LEMMA PoolPreserved ==
  ASSUME PoolType, NoFrameLost, PreviewType, PreviewType', SessionType,
    CaptureType, PreviewInv, HoldInv, PreviewConstants, [Next]_vars
  PROVE  PoolType' /\ NoFrameLost'
<1>1. CASE Control
  <2>1. CASE SetPreviewDisplay
    BY <2>1, Untouched DEF SetPreviewDisplay
  <2>2. CASE StartPreview
    BY <2>2, Untouched DEF StartPreview
  <2>3. CASE CreatePreview
    BY <2>3, Untouched DEF CreatePreview
  <2>4. CASE StopPreview
    BY <2>4, Untouched DEF StopPreview
  <2>5. CASE SignalPreview
    BY <2>5, Untouched DEF SignalPreview
  <2>6. CASE SignalCapture
    BY <2>6, Untouched DEF SignalCapture
  <2>7. CASE JoinCapture
    BY <2>7, Untouched DEF JoinCapture
  <2>8. CASE JoinPreview
    BY <2>8, Untouched DEF JoinPreview
  <2>9. CASE ClearDisplay
    BY <2>9, Untouched DEF ClearDisplay
  <2>10. CASE ClearPreview
    <3>1. Recycle(Len(frames)) /\ Len(frames) \in Nat
      BY <2>10 DEF ClearPreview, ClearPreviewFrame
    <3>2. One(slot') = One(slot) /\ HeldByCallback' = HeldByCallback /\ One(pf') = One(pf)
      BY <2>10 DEF ClearPreview, HeldByCallback
    <3>3. HeldByCapture' = HeldByCapture
      BY <2>10, SameHeld DEF ClearPreview
    <3>4. Len(frames') = 0
      BY <2>10 DEF ClearPreview, ClearPreviewFrame
    <3>5. InUse = InUse' + Len(frames)
      BY <3>2, <3>3, <3>4, TermsCounted DEF InUse
    <3> QED
      BY <3>1, <3>5, BalanceReturned
  <2>11. CASE ClearCapture
    <3>1. Recycle(One(slot)) /\ One(slot) \in Nat
      BY <2>11, TermsCounted DEF ClearCapture, ClearCaptureFrame
    <3>2. Len(frames') = Len(frames) /\ HeldByCallback' = HeldByCallback /\ One(pf') = One(pf)
      BY <2>11 DEF ClearCapture, HeldByCallback
    <3>3. HeldByCapture' = HeldByCapture
      BY <2>11, SameHeld DEF ClearCapture
    <3>4. One(slot') = 0
      BY <2>11 DEF ClearCapture, ClearCaptureFrame, One
    <3>5. InUse = InUse' + One(slot)
      BY <3>2, <3>3, <3>4, TermsCounted DEF InUse
    <3> QED
      BY <3>1, <3>5, BalanceReturned
  <2>12. CASE ReleaseWindows
    BY <2>12, Untouched DEF ReleaseWindows
  <2> QED
    BY <1>1, <2>1, <2>2, <2>3, <2>4, <2>5, <2>6, <2>7, <2>8, <2>9, <2>10,
      <2>11, <2>12 DEF Control
<1>2. CASE Callback
  <2>1. CASE CallbackBegins
    <3>1. HeldByCallback' = HeldByCallback
      BY <2>1 DEF CallbackBegins, HeldByCallback, Session!Deliver
    <3>2. InUse' = InUse
      BY <2>1, <3>1, SameHeld DEF CallbackBegins, InUse
    <3> QED
      BY <2>1, <3>2, BalanceKept DEF CallbackBegins
  <2>2. CASE CheckFrame
    <3>1. CASE UNCHANGED poolVars /\ cb' = "none"
      <4>1. UNCHANGED poolVars
        BY <2>2, <3>1 DEF CheckFrame
      <4>2. Len(frames') = Len(frames) /\ One(slot') = One(slot) /\ One(pf') = One(pf)
        BY <2>2 DEF CheckFrame
      <4>3. HeldByCapture' = HeldByCapture
        BY <2>2, SameHeld DEF CheckFrame
      <4>4. HeldByCallback' = 0 /\ HeldByCallback = 0
        BY <2>2, <3>1 DEF CheckFrame, HeldByCallback
      <4>5. InUse' = InUse
        BY <4>2, <4>3, <4>4 DEF InUse
      <4> QED
        BY <4>1, <4>5, BalanceKept
    <3>2. CASE GetFrame /\ cb' \in {"add", "drop"}
      <4>1. GetFrame
        BY <2>2, <3>2 DEF CheckFrame
      <4>2. Len(frames') = Len(frames) /\ One(slot') = One(slot) /\ One(pf') = One(pf)
        BY <2>2 DEF CheckFrame
      <4>3. HeldByCapture' = HeldByCapture
        BY <2>2, SameHeld DEF CheckFrame
      <4>4. HeldByCallback' = 1 /\ HeldByCallback = 0
        BY <2>2, <3>2 DEF CheckFrame, HeldByCallback
      <4>5. InUse' = InUse + 1
        BY <4>2, <4>3, <4>4, TermsCounted DEF InUse
      <4> QED
        BY <4>1, <4>5, BalanceTaken
    <3> QED
      BY <2>2, <3>1, <3>2 DEF CheckFrame, CallbackReturns
  <2>3. CASE AddPreviewFrame
    <3>1. CASE running /\ QueueHasRoom
      <4>1. UNCHANGED poolVars
        BY <2>3 DEF AddPreviewFrame
      <4>2. One(slot') = One(slot) /\ One(pf') = One(pf)
        BY <2>3 DEF AddPreviewFrame
      <4>3. HeldByCapture' = HeldByCapture
        BY <2>3, SameHeld DEF AddPreviewFrame
      <4>4. Len(frames') = Len(frames) + 1
        BY <2>3, <3>1 DEF AddPreviewFrame
      <4>5. HeldByCallback' = 0 /\ HeldByCallback = 1
        BY <2>3, <3>1 DEF AddPreviewFrame, CallbackReturns, HeldByCallback
      <4>6. InUse' = InUse
        BY SMTT(30), <4>2, <4>3, <4>4, <4>5, TermsCounted DEF InUse
      <4> QED
        BY <4>1, <4>6, BalanceKept
    <3>2. CASE ~(running /\ QueueHasRoom)
      <4>1. UNCHANGED poolVars
        BY <2>3 DEF AddPreviewFrame
      <4>2. One(slot') = One(slot) /\ One(pf') = One(pf)
        BY <2>3 DEF AddPreviewFrame
      <4>3. HeldByCapture' = HeldByCapture
        BY <2>3, SameHeld DEF AddPreviewFrame
      <4>4. Len(frames') = Len(frames)
        BY <2>3, <3>2 DEF AddPreviewFrame
      <4>5. HeldByCallback' = HeldByCallback
        BY <2>3, <3>2 DEF AddPreviewFrame, HeldByCallback
      <4>6. InUse' = InUse
        BY <4>2, <4>3, <4>4, <4>5 DEF InUse
      <4> QED
        BY <4>1, <4>6, BalanceKept
    <3> QED
      BY <3>1, <3>2
  <2>4. CASE DropFrame
    <3>1. Recycle(1)
      BY <2>4 DEF DropFrame
    <3>2. Len(frames') = Len(frames) /\ One(slot') = One(slot) /\ One(pf') = One(pf)
      BY <2>4 DEF DropFrame
    <3>3. HeldByCapture' = HeldByCapture
      BY <2>4, SameHeld DEF DropFrame
    <3>4. HeldByCallback' = 0 /\ HeldByCallback = 1
      BY <2>4 DEF DropFrame, CallbackReturns, HeldByCallback
    <3>5. InUse = InUse' + 1
      BY <3>2, <3>3, <3>4, TermsCounted DEF InUse
    <3> QED
      BY <3>1, <3>5, BalanceReturned
  <2> QED
    BY <1>2, <2>1, <2>2, <2>3, <2>4 DEF Callback
<1>3. CASE SessionChanges
  BY <1>3, Untouched DEF SessionChanges
<1>4. CASE Preview
  <2>1. CASE Prepare
    BY <2>1, Untouched DEF Prepare
  <2>2. CASE StartStreaming
    BY <2>2, Untouched DEF StartStreaming
  <2>3. CASE ClearStale
    <3>1. Recycle(Len(frames)) /\ Len(frames) \in Nat
      BY <2>3 DEF ClearStale, ClearPreviewFrame
    <3>2. One(slot') = One(slot) /\ HeldByCallback' = HeldByCallback /\ One(pf') = One(pf)
      BY <2>3 DEF ClearStale, HeldByCallback
    <3>3. HeldByCapture' = HeldByCapture
      BY <2>3, SameHeld DEF ClearStale
    <3>4. Len(frames') = 0
      BY <2>3 DEF ClearStale, ClearPreviewFrame
    <3>5. InUse = InUse' + Len(frames)
      BY <3>2, <3>3, <3>4, TermsCounted DEF InUse
    <3> QED
      BY <3>1, <3>5, BalanceReturned
  <2>4. CASE PreviewLoop
    BY <2>4, Untouched DEF PreviewLoop
  <2>5. CASE WaitPreviewFrame
    <3>1. CASE UNCHANGED <<pf, frames>>
      BY <2>5, <3>1, Untouched DEF WaitPreviewFrame
    <3>2. CASE frames # <<>> /\ pf' = Head(frames) /\ frames' = Tail(frames)
      <4>1. UNCHANGED poolVars
        BY <2>5 DEF WaitPreviewFrame
      <4>2. One(slot') = One(slot) /\ HeldByCallback' = HeldByCallback
        BY <2>5 DEF WaitPreviewFrame, HeldByCallback
      <4>3. HeldByCapture' = HeldByCapture
        BY <2>5, SameHeld DEF WaitPreviewFrame
      <4>4. Len(frames) = Len(frames') + 1
        BY <2>5, <3>2 DEF WaitPreviewFrame
      <4>5. One(pf') = 1 /\ One(pf) = 0
        BY <2>5, <3>2, PreviewTail DEF WaitPreviewFrame, One, PreviewInv
      <4>6. InUse' = InUse
        BY SMTT(30), <4>2, <4>3, <4>4, <4>5, TermsCounted DEF InUse
      <4> QED
        BY <4>1, <4>6, BalanceKept
    <3> QED
      BY <2>5, <3>1, <3>2 DEF WaitPreviewFrame, TakePreviewFrame, RemoveFirst
  <2>6. CASE Decode
    <3>1. CASE pp = "have"
      <4>1. InUse' = InUse
        BY <2>6, <3>1, SameHeld DEF Decode, InUse, HeldByCallback
      <4> QED
        BY <2>6, <3>1, <4>1, BalanceKept DEF Decode
    <3>2. CASE pp = "drop"
      <4>1. Recycle(1)
        BY <2>6, <3>2 DEF Decode
      <4>2. Len(frames') = Len(frames) /\ One(slot') = One(slot) /\ HeldByCallback' = HeldByCallback
        BY <2>6 DEF Decode, HeldByCallback
      <4>3. HeldByCapture' = HeldByCapture
        BY <2>6, SameHeld DEF Decode
      <4>4. One(pf') = 0 /\ One(pf) = 1
        BY <2>6, <3>2 DEF Decode, One, PreviewInv
      <4>5. InUse = InUse' + 1
        BY <4>2, <4>3, <4>4, TermsCounted DEF InUse
      <4> QED
        BY <4>1, <4>5, BalanceReturned
    <3> QED
      BY <2>6, <3>1, <3>2 DEF Decode
  <2>7. CASE Draw
    <3>1. InUse' = InUse
      BY <2>7, SameHeld DEF Draw, InUse, HeldByCallback
    <3> QED
      BY <2>7, <3>1, BalanceKept DEF Draw
  <2>8. CASE AddCaptureFrame
    <3>1. CASE running
      <4>1. Recycle(One(slot)) /\ One(slot) \in Nat
        BY <2>8, <3>1, TermsCounted DEF AddCaptureFrame
      <4>2. Len(frames') = Len(frames) /\ HeldByCallback' = HeldByCallback
        BY <2>8 DEF AddCaptureFrame, HeldByCallback
      <4>3. HeldByCapture' = HeldByCapture
        BY <2>8, SameHeld DEF AddCaptureFrame
      <4>4. One(slot') = One(pf)
        BY <2>8, <3>1 DEF AddCaptureFrame
      <4>5. One(pf') = 0
        BY <2>8 DEF AddCaptureFrame, One
      <4>6. InUse = InUse' + One(slot)
        BY <4>2, <4>3, <4>4, <4>5, TermsCounted DEF InUse
      <4> QED
        BY <4>1, <4>6, BalanceReturned
    <3>2. CASE ~running
      <4>1. Recycle(1)
        BY <2>8, <3>2 DEF AddCaptureFrame, Reject
      <4>2. Len(frames') = Len(frames) /\ HeldByCallback' = HeldByCallback
        BY <2>8 DEF AddCaptureFrame, HeldByCallback
      <4>3. HeldByCapture' = HeldByCapture
        BY <2>8, SameHeld DEF AddCaptureFrame
      <4>4. One(slot') = One(slot)
        BY <2>8, <3>2 DEF AddCaptureFrame
      <4>5. One(pf') = 0 /\ One(pf) = 1
        BY <2>8 DEF AddCaptureFrame, One, PreviewInv
      <4>6. InUse = InUse' + 1
        BY <4>2, <4>3, <4>4, <4>5, TermsCounted DEF InUse
      <4> QED
        BY <4>1, <4>6, BalanceReturned
    <3> QED
      BY <3>1, <3>2
  <2>9. CASE PreviewEnds
    BY <2>9, Untouched DEF PreviewEnds
  <2>10. CASE StopStreaming
    BY <2>10, Untouched DEF StopStreaming
  <2>11. ASSUME NEW c \in CaptureThreads, CreateCapture(c)  PROVE PoolType' /\
  NoFrameLost'
    BY <2>11, Untouched DEF CreateCapture
  <2> QED
    BY <1>4, <2>1, <2>2, <2>3, <2>4, <2>5, <2>6, <2>7, <2>8, <2>9, <2>10, <2>11
      DEF Preview
<1>5. ASSUME NEW c \in CaptureThreads, Capture(c)  PROVE PoolType' /\
  NoFrameLost'
  <2>1. CASE CaptureClears(c)
    <3>1. Recycle(One(slot)) /\ One(slot) \in Nat
      BY <2>1, TermsCounted DEF CaptureClears, ClearCaptureFrame
    <3>2. Len(frames') = Len(frames) /\ HeldByCallback' = HeldByCallback /\ One(pf') = One(pf)
      BY <2>1 DEF CaptureClears, HeldByCallback
    <3>3. HeldByCapture' = HeldByCapture
      BY <2>1, SameHeld DEF CaptureClears
    <3>4. One(slot') = 0
      BY <2>1 DEF CaptureClears, ClearCaptureFrame, One
    <3>5. InUse = InUse' + One(slot)
      BY <3>2, <3>3, <3>4, TermsCounted DEF InUse
    <3> QED
      BY <3>1, <3>5, BalanceReturned
  <2>2. CASE CaptureLoop(c)
    BY <2>2, Untouched DEF CaptureLoop
  <2>3. CASE CaptureTest(c)
    BY <2>3, Untouched DEF CaptureTest
  <2>4. CASE WaitCaptureFrame(c)
    <3>1. CASE UNCHANGED <<cf, slot>>
      BY <2>4, <3>1, Untouched DEF WaitCaptureFrame
    <3>2. CASE slot # 0 /\ cf' = [cf EXCEPT ![c] = slot] /\ slot' = 0
      <4>1. UNCHANGED poolVars
        BY <2>4 DEF WaitCaptureFrame
      <4>2. Len(frames') = Len(frames) /\ HeldByCallback' = HeldByCallback /\ One(pf') = One(pf)
        BY <2>4 DEF WaitCaptureFrame, HeldByCallback
      <4>3. One(slot') = 0 /\ One(slot) = 1
        BY <2>4, <3>2 DEF WaitCaptureFrame, One
      <4>4. HeldByCapture' = HeldByCapture + 1
        BY <2>4, <3>2, FrameTaken DEF WaitCaptureFrame, HoldInv, HoldPoints
      <4>5. InUse' = InUse
        BY SMTT(30), <4>2, <4>3, <4>4, TermsCounted DEF InUse
      <4> QED
        BY <4>1, <4>5, BalanceKept
    <3> QED
      BY <2>4, <3>1, <3>2 DEF WaitCaptureFrame, TakeCaptureFrame
  <2>5. CASE ConvertForSurface(c)
    <3>1. CASE UNCHANGED poolVars /\ conv' = conv
      BY <2>5, <3>1, Untouched DEF ConvertForSurface
    <3>2. CASE GetFrame /\ ~conv[c] /\ conv' = [conv EXCEPT ![c] = TRUE]
      <4>1. GetFrame
        BY <2>5, <3>2 DEF ConvertForSurface
      <4>2. /\ Len(frames') = Len(frames) /\ One(slot') = One(slot)
            /\ HeldByCallback' = HeldByCallback /\ One(pf') = One(pf)
        BY <2>5 DEF ConvertForSurface, HeldByCallback
      <4>3. HeldByCapture' = HeldByCapture + 1
        BY <2>5, <3>2, ConvertedTaken DEF ConvertForSurface
      <4>4. InUse' = InUse + 1
        BY SMTT(30), <4>2, <4>3, TermsCounted DEF InUse
      <4> QED
        BY <4>1, <4>4, BalanceTaken
    <3>3. CASE UNCHANGED poolVars /\ conv[c] /\ conv' = [conv EXCEPT ![c] = TRUE]
      <4>1. conv' = conv
        BY <3>3 DEF CaptureType
      <4> QED
        BY <2>5, <3>3, <4>1, Untouched DEF ConvertForSurface
    <3> QED
      BY <2>5, <3>1, <3>2, <3>3 DEF ConvertForSurface
  <2>6. CASE CopyToSurface(c)
    BY <2>6, Untouched DEF CopyToSurface
  <2>7. CASE CallbackConverts(c)
    <3>1. CASE RecycleCaptured(c)
      <4>1. Recycle(1)
        BY <2>7, <3>1 DEF CallbackConverts, RecycleCaptured
      <4>2. /\ Len(frames') = Len(frames) /\ One(slot') = One(slot)
            /\ HeldByCallback' = HeldByCallback /\ One(pf') = One(pf)
        BY <2>7 DEF CallbackConverts, HeldByCallback
      <4>3. HeldByCapture = HeldByCapture' + 1
        BY <2>7, <3>1, FrameLeft DEF CallbackConverts, RecycleCaptured,
          HoldInv, HoldPoints
      <4>4. InUse = InUse' + 1
        BY SMTT(30), <4>2, <4>3, TermsCounted DEF InUse
      <4> QED
        BY <4>1, <4>4, BalanceReturned
    <3>2. CASE (Borrow \/ UNCHANGED poolVars) /\ UNCHANGED cf
      <4>1. InUse' = InUse
        BY <2>7, <3>2, SameHeld DEF CallbackConverts, InUse, HeldByCallback
      <4> QED
        BY <3>2, <4>1, BalanceKept
    <3> QED
      BY <2>7, <3>1, <3>2 DEF CallbackConverts
  <2>8. CASE CallOnFrame(c)
    <3>1. CASE RecycleCaptured(c) /\ cap[c] \in {"call", "onFrame"}
      <4>1. Recycle(1)
        BY <3>1 DEF RecycleCaptured
      <4>2. /\ Len(frames') = Len(frames) /\ One(slot') = One(slot)
            /\ HeldByCallback' = HeldByCallback /\ One(pf') = One(pf)
        BY <2>8 DEF CallOnFrame, HeldByCallback
      <4>3. HeldByCapture = HeldByCapture' + 1
        BY <2>8, <3>1, FrameLeft DEF CallOnFrame, RecycleCaptured, HoldInv,
          HoldPoints
      <4>4. InUse = InUse' + 1
        BY <4>2, <4>3, TermsCounted DEF InUse
      <4> QED
        BY <4>1, <4>4, BalanceReturned
    <3>2. CASE UNCHANGED <<poolVars, cf>>
      BY <2>8, <3>2, Untouched DEF CallOnFrame
    <3> QED
      BY <2>8, <3>1, <3>2 DEF CallOnFrame
  <2>9. CASE SurfaceEnds(c)
    <3>1. CASE conv[c] /\ RecycleConverted(c)
      <4>1. Recycle(1)
        BY <3>1 DEF RecycleConverted
      <4>2. /\ Len(frames') = Len(frames) /\ One(slot') = One(slot)
            /\ HeldByCallback' = HeldByCallback /\ One(pf') = One(pf)
        BY <2>9 DEF SurfaceEnds, HeldByCallback
      <4>3. HeldByCapture = HeldByCapture' + 1
        BY <2>9, <3>1, ConvertedLeft DEF SurfaceEnds, RecycleConverted
      <4>4. InUse = InUse' + 1
        BY <4>2, <4>3, TermsCounted DEF InUse
      <4> QED
        BY <4>1, <4>4, BalanceReturned
    <3>2. CASE ~conv[c] /\ RecycleConverted(c)
      <4>1. conv' = conv /\ Recycle(0)
        BY <3>2 DEF RecycleConverted, CaptureType
      <4>2. InUse' = InUse
        BY <2>9, <4>1, SameHeld DEF SurfaceEnds, InUse, HeldByCallback
      <4>3. InUse = InUse' + 0
        BY <4>2, InUseCounted
      <4> QED
        BY <4>1, <4>3, BalanceReturned
    <3>3. CASE UNCHANGED <<poolVars, conv>>
      BY <2>9, <3>3, Untouched DEF SurfaceEnds
    <3> QED
      BY <2>9, <3>1, <3>2, <3>3 DEF SurfaceEnds
  <2>10. CASE CaptureWakes(c)
    BY <2>10, Untouched DEF CaptureWakes
  <2> QED
    BY <1>5, <2>1, <2>2, <2>3, <2>4, <2>5, <2>6, <2>7, <2>8, <2>9, <2>10 DEF
      Capture
<1>6. CASE SetterRuns
  BY <1>6, Untouched DEF SetterRuns, SetterWaits, SetterWakes,
    SetterAssigns
<1>7. ASSUME NEW req \in Requests, SetterEnters(req)  PROVE PoolType' /\
  NoFrameLost'
  BY <1>7, Untouched DEF SetterEnters
<1>8. CASE UNCHANGED vars
  BY <1>8, Untouched DEF vars
<1> QED
  BY <1>1, <1>2, <1>3, <1>4, <1>5, <1>6, <1>7, <1>8 DEF Next

\* Unless one was left behind, no capture thread exists when stopPreview has
\* ended, nor more than one at any time.
LEMMA EndedCaptures ==
  ASSUME OneCapture, ~early, Ended, PreviewConstants
  PROVE  \A c \in CaptureThreads : cap[c] = "none"
  BY DEF OneCapture

LEMMA OnlyCapture ==
  ASSUME OneCapture, ~early, NEW c \in CaptureThreads, cap[c] # "none"
  PROVE  \A d \in CaptureThreads : d # c => cap[d] = "none"
  BY DEF OneCapture

\* What the setter may replace, and which window is used.
LEMMA UsePreserved ==
  ASSUME UseInv, BrokenOnlyAfterChange, OneCapture, ControlInv, ControlType,
    PreviewType, CaptureType, SetterType, PreviewConstants, [Next]_vars
  PROVE  UseInv' /\ BrokenOnlyAfterChange'
<1> USE DEF UseInv, BrokenOnlyAfterChange, SetterInv, WindowInv, NoneCaptures,
  Withdrawn, Current, CaptureType
<1>1. CASE Control
  <2>1. CASE SetPreviewDisplay
    BY <2>1 DEF SetPreviewDisplay
  <2>2. CASE StartPreview
    BY <2>2 DEF StartPreview
  <2>3. CASE CreatePreview
    BY <2>3 DEF CreatePreview
  <2>4. CASE StopPreview
    BY <2>4 DEF StopPreview
  <2>5. CASE SignalPreview
    BY <2>5 DEF SignalPreview
  <2>6. CASE SignalCapture
    BY <2>6 DEF SignalCapture, Signal, Waiters, Wake, Woken
  <2>7. CASE JoinCapture
    <3>1. UNCHANGED <<cwin, dead, broken, set, arg, fcb, changed>>
      BY <2>7 DEF JoinCapture
    <3>2. early => early'
      BY <2>7 DEF JoinCapture
    <3>3. \A c \in CaptureThreads :
             cap'[c] # cap[c] => cap[c] = "done" /\ cap'[c] = "none"
      BY <2>7 DEF JoinCapture, CaptureThreadEnded
    <3> QED
      BY <3>1, <3>2, <3>3
  <2>8. CASE JoinPreview
    BY <2>8 DEF JoinPreview
  <2>9. CASE ClearDisplay
    <3>1. /\ UNCHANGED <<cap, cwin, dead, set, arg, fcb, changed, early>>
          /\ broken' = (cwin \in dead)
      BY <2>9 DEF ClearDisplay
    <3>2. ASSUME ~changed, ~early  PROVE cwin \notin dead
      BY <2>9, <3>2, EndedCaptures DEF ClearDisplay, CaptureMutexFree, Ended
    <3> QED
      BY <3>1, <3>2
  <2>10. CASE ClearPreview
    BY <2>10 DEF ClearPreview
  <2>11. CASE ClearCapture
    BY <2>11 DEF ClearCapture
  <2>12. CASE ReleaseWindows
    <3>1. UNCHANGED <<cap, set, arg, fcb, changed, early>>
      BY <2>12 DEF ReleaseWindows
    <3>2. CASE cwin = None
      BY <2>12, <3>1, <3>2 DEF ReleaseWindows
    <3>3. CASE cwin # None
      <4>1. /\ cwin' = None /\ dead' = dead \union {cwin}
            /\ broken' = (cwin \in dead)
        BY <2>12, <3>3 DEF ReleaseWindows, GiveBack
      <4>2. None \notin dead' /\ set # "assign"
        BY <2>12, <3>3, <4>1 DEF ReleaseWindows, CaptureMutexFree, SetterType
      <4>3. ASSUME ~changed, ~early
            PROVE  cwin \notin dead /\ \A c \in CaptureThreads : cap[c] = "none"
        BY <2>12, <4>2, <4>3, EndedCaptures DEF ReleaseWindows, Ended
      <4> QED
        BY <3>1, <4>1, <4>2, <4>3
    <3> QED
      BY <3>2, <3>3
  <2> QED
    BY <1>1, <2>1, <2>2, <2>3, <2>4, <2>5, <2>6, <2>7, <2>8, <2>9, <2>10,
      <2>11, <2>12 DEF Control
<1>2. CASE Callback
  <2>1. CASE CallbackBegins
    BY <2>1 DEF CallbackBegins
  <2>2. CASE CheckFrame
    BY <2>2 DEF CheckFrame
  <2>3. CASE AddPreviewFrame
    BY <2>3 DEF AddPreviewFrame
  <2>4. CASE DropFrame
    BY <2>4 DEF DropFrame
  <2> QED
    BY <1>2, <2>1, <2>2, <2>3, <2>4 DEF Callback
<1>3. CASE SessionChanges
  BY <1>3 DEF SessionChanges
<1>4. CASE Preview
  <2>1. CASE Prepare
    BY <2>1 DEF Prepare
  <2>2. CASE StartStreaming
    BY <2>2 DEF StartStreaming
  <2>3. CASE ClearStale
    BY <2>3 DEF ClearStale
  <2>4. CASE PreviewLoop
    BY <2>4 DEF PreviewLoop
  <2>5. CASE WaitPreviewFrame
    BY <2>5 DEF WaitPreviewFrame
  <2>6. CASE Decode
    BY <2>6 DEF Decode
  <2>7. CASE Draw
    BY <2>7 DEF Draw
  <2>8. CASE AddCaptureFrame
    BY <2>8 DEF AddCaptureFrame, Broadcast, Wake, Woken, Waiters
  <2>9. CASE PreviewEnds
    BY <2>9 DEF PreviewEnds, Signal, Waiters, Wake, Woken
  <2>10. CASE StopStreaming
    BY <2>10 DEF StopStreaming
  <2>11. ASSUME NEW c \in CaptureThreads, CreateCapture(c)  PROVE UseInv' /\
  BrokenOnlyAfterChange'
    BY <2>11 DEF CreateCapture
  <2> QED
    BY <1>4, <2>1, <2>2, <2>3, <2>4, <2>5, <2>6, <2>7, <2>8, <2>9, <2>10, <2>11
      DEF Preview
<1>5. ASSUME NEW c \in CaptureThreads, Capture(c)  PROVE UseInv' /\
  BrokenOnlyAfterChange'
  <2>1. CASE CaptureClears(c)
    BY <2>1 DEF CaptureClears, ClearCaptureFrame, CaptureMutexFree, Goto
  <2>2. CASE CaptureLoop(c)
    BY <2>2 DEF CaptureLoop, Goto
  <2>3. CASE CaptureTest(c)
    BY <2>3 DEF CaptureTest, Goto
  <2>4. CASE WaitCaptureFrame(c)
    BY <2>4 DEF WaitCaptureFrame, Goto, TakeCaptureFrame
  <2>5. CASE ConvertForSurface(c)
    BY <2>5 DEF ConvertForSurface, Goto
  <2>6. CASE CopyToSurface(c)
    <3>1. /\ UNCHANGED <<cwin, dead, set, arg, fcb, changed, early>>
          /\ cap[c] \in {"copy", "post"} /\ ~broken
          /\ \/ cap' = [cap EXCEPT ![c] = "callback"]
             \/ cwin # None /\ cap' = [cap EXCEPT ![c] = "post"]
      BY <2>6 DEF CopyToSurface, Goto
    <3>2. ASSUME ~changed, ~early
          PROVE  cwin \notin dead /\ (cap[c] = "post" => cwin # None)
      BY <3>1, <3>2, OnlyCapture
    <3>3. broken' => cwin \in dead \/ (cap[c] = "post" /\ cwin = None)
      BY <2>6, <3>1 DEF CopyToSurface
    <3>4. BrokenOnlyAfterChange'
      BY <3>1, <3>2, <3>3
    <3>5. ASSUME ~changed, ~early  PROVE SetterInv' /\ WindowInv'
      BY <3>1, <3>2, <3>5
    <3> QED
      BY <3>1, <3>4, <3>5
  <2>7. CASE CallbackConverts(c)
    BY <2>7 DEF CallbackConverts, RecycleCaptured, Goto
  <2>8. CASE CallOnFrame(c)
    <3>1. /\ UNCHANGED <<cwin, dead, set, arg, fcb, changed, early>>
          /\ cap[c] \in {"call", "onFrame"} /\ ~broken
          /\ \/ cap' = [cap EXCEPT ![c] = "test"]
             \/ UNCHANGED cap
             \/ fcb # None /\ cap' = [cap EXCEPT ![c] = "onFrame"]
      BY <2>8 DEF CallOnFrame, RecycleCaptured, Goto
    <3>2. ASSUME ~changed, ~early
          PROVE  ~CallbackDeleted /\ (cap[c] = "onFrame" => fcb # None)
      BY <3>1, <3>2 DEF CallbackDeleted
    <3>3. broken' => CallbackDeleted \/ (cap[c] = "onFrame" /\ fcb = None)
      BY <2>8, <3>1 DEF CallOnFrame
    <3>4. BrokenOnlyAfterChange'
      BY <3>1, <3>2, <3>3
    <3>5. ASSUME ~changed, ~early  PROVE SetterInv' /\ WindowInv'
      BY <3>1, <3>2, <3>5
    <3> QED
      BY <3>1, <3>4, <3>5
  <2>9. CASE SurfaceEnds(c)
    <3>1. UNCHANGED <<set, arg, fcb, changed, early>> /\ ~broken
      BY <2>9 DEF SurfaceEnds
    <3>2. CASE cap[c] = "end" /\ cwin = None
      <4>1. UNCHANGED <<cwin, dead, broken>> /\ cap' = [cap EXCEPT ![c] = "wake"]
        BY <2>9, <3>2 DEF SurfaceEnds, Goto
      <4> QED
        BY <3>1, <3>2, <4>1
    <3>3. CASE cap[c] = "end" /\ cwin # None
      <4>1. /\ cwin' = cwin /\ dead' = dead \union {cwin}
            /\ broken' = (cwin \in dead) /\ cap' = [cap EXCEPT ![c] = "null"]
        BY <2>9, <3>3 DEF SurfaceEnds, Goto, GiveBack
      <4>2. ASSUME ~changed, ~early
            PROVE  /\ cwin \notin dead
                   /\ \A d \in CaptureThreads : d # c => cap[d] = "none"
        BY <3>1, <3>3, <4>2, OnlyCapture
      <4>3. cap'[c] = "null"
        BY <4>1
      <4> QED
        BY <3>1, <3>3, <4>1, <4>2, <4>3
    <3>4. CASE cap[c] = "null"
      <4>1. /\ cwin' = None /\ UNCHANGED <<dead, broken>>
            /\ cap' = [cap EXCEPT ![c] = "wake"]
        BY <2>9, <3>4 DEF SurfaceEnds, Goto, ClearWindow
      <4>2. None \notin dead
        BY DEF SetterType
      <4>3. ASSUME ~changed, ~early
            PROVE  \A d \in CaptureThreads : d # c => cap[d] = "none"
        BY <3>1, <3>4, <4>3, OnlyCapture
      <4> QED
        BY <3>1, <3>4, <4>1, <4>2, <4>3
    <3> QED
      BY <2>9, <3>2, <3>3, <3>4 DEF SurfaceEnds
  <2>10. CASE CaptureWakes(c)
    <3>1. /\ UNCHANGED <<early, changed, broken, arg, fcb, cwin, dead>>
          /\ cap[c] = "wake"
          /\ set' \in {set, "woken"} /\ (set' = set \/ set = "asleep")
      BY <2>10 DEF CaptureWakes
    <3>2. \A d \in CaptureThreads :
             \/ cap'[d] = cap[d]
             \/ cap[d] = "asleep" /\ cap'[d] = "woken"
             \/ cap[d] = "wake" /\ cap'[d] = "loop"
      <4>1. cap' = [Woken(Waiters) EXCEPT ![c] = "loop"]
        BY <2>10 DEF CaptureWakes
      <4> QED
        BY <3>1, <4>1 DEF Woken, Waiters
    <3> QED
      BY <3>1, <3>2
  <2> QED
    BY <1>5, <2>1, <2>2, <2>3, <2>4, <2>5, <2>6, <2>7, <2>8, <2>9, <2>10 DEF
      Capture
<1>6. CASE SetterRuns
  <2>1. CASE SetterWakes
    BY <2>1 DEF SetterWakes, Replace
  <2>2. CASE SetterAssigns
    <3>1. /\ UNCHANGED <<cap, broken, changed, early>>
          /\ set = "assign" /\ set' = "idle" /\ ~broken
          /\ None \notin dead
      BY <2>2 DEF SetterAssigns, SetterType
    <3>2. CASE arg.kind = "window"
      <4>1. /\ cwin' = arg.value /\ dead' = dead \ {arg.value}
            /\ UNCHANGED fcb
        BY <2>2, <3>2 DEF SetterAssigns
      <4>2. ASSUME ~changed, ~early
            PROVE  \A c \in CaptureThreads : cap[c] \notin {"null", "post"}
        BY <3>1, <4>2
      <4> QED
        BY <3>1, <4>1, <4>2
    <3>3. CASE arg.kind # "window"
      <4>1. fcb' = arg.value /\ UNCHANGED <<cwin, dead>>
        BY <2>2, <3>3 DEF SetterAssigns
      <4>2. ASSUME ~changed, ~early  PROVE NoneCaptures
        BY <3>1, <3>3, <4>2
      <4> QED
        BY <3>1, <3>3, <4>1, <4>2
    <3> QED
      BY <3>2, <3>3
  <2>3. CASE SetterWaits
    <3>1. /\ UNCHANGED <<early, changed, broken, arg, fcb, cwin, dead>>
          /\ set = "wait" /\ set' = "asleep" /\ ~broken
      BY <2>3 DEF SetterWaits
    <3>2. \A c \in CaptureThreads :
             cap'[c] # cap[c] => cap[c] = "asleep" /\ cap'[c] = "woken"
      BY <2>3 DEF SetterWaits, Woken, Waiters
    <3> QED
      BY <3>1, <3>2
  <2> QED
    BY <1>6, <2>1, <2>2, <2>3 DEF SetterRuns
<1>7. ASSUME NEW req \in Requests, SetterEnters(req)  PROVE UseInv' /\
  BrokenOnlyAfterChange'
  <2>1. /\ set = "idle" /\ ~broken
        /\ UNCHANGED <<early, fcb, cwin, running, ctl>>
        /\ changed' = (changed \/ (Current(req.kind) # req.value
                                     /\ (running \/ ctl # "idle")))
    BY <1>7 DEF SetterEnters
  <2>2. CASE set' = "wait"
    <3>1. running /\ arg' = req /\ UNCHANGED <<cap, dead, broken>>
      BY <1>7, <2>2 DEF SetterEnters, Replace
    <3>2. ~changed' => Current(req.kind) = req.value
      BY <2>1, <3>1
    <3> QED
      BY <2>1, <2>2, <3>1, <3>2
  <2>3. CASE set' = "idle"
    <3>1. UNCHANGED <<cap, dead, broken>>
      BY <1>7, <2>1, <2>3 DEF SetterEnters, Replace
    <3> QED
      BY <2>1, <2>3, <3>1
  <2>4. CASE set' = "assign"
    <3>1. UNCHANGED cap /\ arg' = req /\ Current(req.kind) # req.value
      BY <1>7, <2>1, <2>4 DEF SetterEnters, Replace
    <3>2. \/ UNCHANGED <<dead, broken>> /\ (req.kind # "window" \/ cwin = None)
          \/ /\ req.kind = "window" /\ dead' = dead \union {cwin}
             /\ broken' = (cwin \in dead)
      BY <1>7, <2>1, <2>4 DEF SetterEnters, Replace, GiveBack
    <3>3. ASSUME ~changed', ~early
          PROVE  /\ \A c \in CaptureThreads : cap[c] = "none"
                 /\ cwin \notin dead
      BY <2>1, <3>1, <3>3, EndedCaptures DEF Ended
    <3>4. changed => changed'
      BY <2>1
    <3> QED
      BY <2>1, <2>4, <3>1, <3>2, <3>3, <3>4
  <2> QED
    BY <1>7, <2>2, <2>3, <2>4 DEF SetterEnters, Replace
<1>8. CASE UNCHANGED vars
  BY <1>8 DEF vars
<1> QED
  BY <1>1, <1>2, <1>3, <1>4, <1>5, <1>6, <1>7, <1>8 DEF Next

----------------------------------------------------------------------------
(***************************************************************************)
(* The order of the frames.                                                *)
(***************************************************************************)
Ordered == OrderInv /\ FramesInOrder

\* The queue after adding a frame that is newer than all in it.
LEMMA OrderAppended ==
  ASSUME PreviewType, PreviewConstants, NEW f \in Seqs,
         \A i, j \in 1..Len(frames) : i < j => frames[i] < frames[j],
         \A g \in Queued : g < f, frames' = Append(frames, f)
  PROVE  /\ Queued' = Queued \union {f}
         /\ \A i, j \in 1..Len(frames') : i < j => frames'[i] < frames'[j]
<1> USE DEF PreviewType, Queued
<1>1. Len(frames') = Len(frames) + 1 /\ frames'[Len(frames) + 1] = f
  OBVIOUS
<1>2. \A i \in 1..Len(frames) : frames'[i] = frames[i]
  OBVIOUS
<1>3. \A i \in 1..Len(frames) : frames[i] < f
  OBVIOUS
<1>4. Len(frames) \in Nat
  OBVIOUS
<1>5. Queued' = {frames'[i] : i \in 1..Len(frames')}
  OBVIOUS
<1>6. ASSUME NEW i \in 1..Len(frames'), NEW j \in 1..Len(frames'), i < j
      PROVE  frames'[i] < frames'[j]
  <2>1. i \in 1..Len(frames)
    BY <1>1, <1>4, <1>6
  <2>2. CASE j = Len(frames) + 1
    BY <2>1, <2>2, <1>1, <1>2, <1>3
  <2>3. CASE j \in 1..Len(frames)
    BY <2>1, <2>3, <1>2, <1>6
  <2> QED
    BY <2>2, <2>3, <1>1, <1>4
<1>7. \A g : g \in Queued' <=> g \in Queued \union {f}
  <2>1. ASSUME NEW g \in Queued'  PROVE g \in Queued \union {f}
    <3>1. PICK i \in 1..Len(frames') : g = frames'[i]
      BY <1>5
    <3>2. i \in 1..Len(frames) \/ i = Len(frames) + 1
      BY <1>1, <1>4
    <3> QED
      BY <3>1, <3>2, <1>1, <1>2
  <2>2. ASSUME NEW g \in Queued  PROVE g \in Queued'
    <3>1. PICK i \in 1..Len(frames) : g = frames[i]
      OBVIOUS
    <3>2. i \in 1..Len(frames') /\ frames'[i] = g
      BY <3>1, <1>1, <1>2, <1>4
    <3> QED
      BY <3>2, <1>5
  <2>3. f \in Queued'
    <3>1. Len(frames) + 1 \in 1..Len(frames')
      BY <1>1, <1>4
    <3> QED
      BY <3>1, <1>1, <1>5
  <2> QED
    BY <2>1, <2>2, <2>3
<1> QED
  BY <1>6, <1>7

\* The queue after removing the first frame, which is older than the others.
LEMMA OrderRemoved ==
  ASSUME PreviewType, PreviewConstants, frames # <<>>,
         \A i, j \in 1..Len(frames) : i < j => frames[i] < frames[j],
         frames' = Tail(frames)
  PROVE  /\ Head(frames) \in Queued /\ Head(frames) \in Seqs
         /\ Queued' \subseteq Queued
         /\ \A g \in Queued' : Head(frames) < g
         /\ \A i, j \in 1..Len(frames') : i < j => frames'[i] < frames'[j]
<1> USE DEF PreviewType, Queued
<1>1. Len(frames) \in Nat /\ Len(frames) > 0
  OBVIOUS
<1>2. Len(frames') = Len(frames) - 1 /\ Head(frames) = frames[1]
  OBVIOUS
<1>3. \A i \in 1..Len(frames') : frames'[i] = frames[i + 1]
  OBVIOUS
<1>4. \A i \in 1..Len(frames') : i + 1 \in 1..Len(frames) /\ i \in Nat
  BY <1>1, <1>2
<1>5. 1 \in 1..Len(frames)
  BY <1>1
<1>6. Queued' = {frames'[i] : i \in 1..Len(frames')}
  OBVIOUS
<1>7. ASSUME NEW g \in Queued'  PROVE g \in Queued /\ Head(frames) < g
  <2>1. PICK i \in 1..Len(frames') : g = frames'[i]
    BY <1>6
  <2>2. g = frames[i + 1] /\ i + 1 \in 1..Len(frames) /\ 1 < i + 1
    BY <2>1, <1>3, <1>4
  <2> QED
    BY <2>2, <1>2, <1>5
<1>8. ASSUME NEW i \in 1..Len(frames'), NEW j \in 1..Len(frames'), i < j
      PROVE  frames'[i] < frames'[j]
  <2>1. i + 1 < j + 1
    BY <1>4, <1>8
  <2> QED
    BY <2>1, <1>3, <1>4
<1>9. Head(frames) \in Queued /\ Head(frames) \in Seqs
  BY <1>2, <1>5
<1> QED
  BY <1>7, <1>8, <1>9

\* A step that moves no frame, lets no callback begin and begins no session.
LEMMA OrderKept ==
  ASSUME Ordered, UNCHANGED <<frames, pf, slot, cf, sent>>,
         cb' = cb \/ cb' = "none" \/ (cb # "none" /\ cb' # "none"),
         phase' = phase \/ phase' = "closed" \/ phase # "closed",
         early => early',
         pp' \in {"prepare", "start"} => pp \in {"prepare", "start"}
  PROVE  Ordered'
  BY DEF Ordered, OrderInv, FramesInOrder, Older, Queued, Incoming, Behind

\* So does one that ends a session and with it the numbers.
LEMMA OrderEnded ==
  ASSUME Ordered, UNCHANGED <<frames, pf, slot, cf, cb>>, cb = "none",
         phase' = "closed", early => early',
         pp' \notin {"prepare", "start"}
  PROVE  Ordered'
  BY DEF Ordered, OrderInv, FramesInOrder, Older, Queued, Incoming, Behind

\* Frames have positive numbers.
LEMMA FrameBehind ==
  ASSUME PreviewType, SessionType, SessionInv, PreviewConstants
  PROVE  /\ Behind \subseteq Nat \ {0} /\ Queued \subseteq Nat \ {0}
         /\ Older(0, Behind \union ({pf} \ {0}))
<1>1. Queued \subseteq Seqs
  <2>1. \A i \in 1..Len(frames) : frames[i] \in Seqs
    BY DEF PreviewType
  <2> QED
    BY <2>1 DEF Queued
<1>2. Incoming \subseteq Nat \ {0}
  BY DEF Incoming, SessionInv, SessionType
<1>3. Behind \subseteq Nat \ {0}
  BY <1>1, <1>2 DEF Behind, PreviewConstants
<1>4. {pf} \ {0} \subseteq Nat \ {0}
  BY DEF PreviewType
<1> QED
  BY <1>1, <1>3, <1>4 DEF Older

\* The next frame is newer than all that were sent.
LEMMA SentNext ==
  ASSUME PreviewType, SessionType, SessionInv, CaptureType, PreviewConstants
  PROVE  /\ sent \in Nat
         /\ \A f \in Queued \union {pf, slot} :
               f <= sent => f < sent + 1 /\ f <= sent + 1
         /\ \A c \in CaptureThreads :
               cf[c] <= sent => cf[c] < sent + 1 /\ cf[c] <= sent + 1
<1>1. Queued \union {pf, slot} \subseteq Nat
  BY FrameBehind DEF PreviewType, CaptureType
<1>2. \A c \in CaptureThreads : cf[c] \in Nat
  BY DEF CaptureType
<1> QED
  BY <1>1, <1>2 DEF SessionType

\* The frames in the queue are recycled, or the one in the slot, or the one that
\* the preview thread or a capture thread has.
LEMMA QueueEmptied ==
  ASSUME Ordered, PreviewConstants, frames' = <<>>,
         UNCHANGED <<pf, slot, cf, sent, cb, phase, early>>,
         pp' \in {"prepare", "start"} => pp \in {"prepare", "start"}
  PROVE  Ordered'
<1>1. Queued' = {} /\ Behind' \subseteq Behind /\ Incoming' = Incoming
  BY DEF Queued, Behind, Incoming
<1>2. OrderInv'
  BY <1>1 DEF Ordered, OrderInv
<1>3. FramesInOrder'
  BY <1>1 DEF Ordered, FramesInOrder, Older
<1> QED
  BY <1>2, <1>3 DEF Ordered

LEMMA SlotEmptied ==
  ASSUME Ordered, PreviewType, SessionType, SessionInv, PreviewConstants,
         slot' = 0,
         UNCHANGED <<frames, pf, cf, sent, cb, phase, early, pp>>
  PROVE  Ordered'
<1>1. Queued' = Queued /\ Behind' = Behind /\ Incoming' = Incoming
  BY DEF Queued, Behind, Incoming
<1>2. OrderInv'
  BY <1>1 DEF Ordered, OrderInv, SessionType
<1>3. FramesInOrder'
  BY <1>1, FrameBehind DEF Ordered, FramesInOrder, Older
<1> QED
  BY <1>2, <1>3 DEF Ordered

LEMMA FrameGone ==
  ASSUME Ordered, PreviewType, SessionType, SessionInv, PreviewConstants,
         pf' \in {pf, 0},
         UNCHANGED <<frames, slot, cf, sent, cb, phase, early>>,
         pp' \notin {"prepare", "start"}
  PROVE  Ordered'
<1>1. Queued' = Queued /\ Behind' = Behind /\ Incoming' = Incoming
  BY DEF Queued, Behind, Incoming
<1>2. OrderInv'
  BY <1>1 DEF Ordered, OrderInv, SessionType
<1>3. FramesInOrder'
  BY <1>1, FrameBehind DEF Ordered, FramesInOrder, Older
<1> QED
  BY <1>2, <1>3 DEF Ordered

LEMMA CapturedGone ==
  ASSUME Ordered, CaptureType, PreviewType, SessionType, SessionInv,
         PreviewConstants, NEW c \in CaptureThreads,
         cf' = cf \/ cf' = [cf EXCEPT ![c] = 0],
         UNCHANGED <<frames, pf, slot, sent, cb, phase, early, pp>>
  PROVE  Ordered'
<1>1. Queued' = Queued /\ Behind' = Behind /\ Incoming' = Incoming
  BY DEF Queued, Behind, Incoming
<1>2. \A d \in CaptureThreads : cf'[d] \in {cf[d], 0}
  BY DEF CaptureType
<1>3. OrderInv'
  BY <1>1, <1>2 DEF Ordered, OrderInv, SessionType
<1>4. \A d \in CaptureThreads :
         Older(cf[d], Behind \union ({pf, slot} \ {0}))
            => Older(cf'[d], Behind \union ({pf, slot} \ {0}))
  <2>1. Older(0, Behind \union ({pf, slot} \ {0}))
    BY FrameBehind DEF Older, CaptureType
  <2> QED
    BY <1>2, <2>1
<1>5. FramesInOrder'
  BY <1>1, <1>4 DEF Ordered, FramesInOrder
<1> QED
  BY <1>3, <1>5 DEF Ordered

\* Before a session begins nobody has a frame that could still be given on.
LEMMA NoneLeft ==
  ASSUME Ordered, OneCapture, HoldInv, PreviewInv, PreviewConstants, pp = "start"
  PROVE  /\ frames = <<>> /\ slot = 0 /\ pf = 0
         /\ ~early => \A c \in CaptureThreads : cf[c] = 0
<1>1. frames = <<>> /\ slot = 0 /\ pf = 0
  BY DEF Ordered, OrderInv, PreviewInv
<1>2. ASSUME ~early, NEW c \in CaptureThreads  PROVE cf[c] = 0
  <2>1. cap[c] = "none"
    BY <1>2 DEF OneCapture, BeforeCreate
  <2> QED
    BY <2>1 DEF HoldInv, HoldPoints
<1> QED
  BY <1>1, <1>2

\* The order is kept by every step.
LEMMA OrderPreserved ==
  ASSUME Ordered, ControlType, SessionType, PreviewType, CaptureType, PreviewType',
         SessionInv, ControlInv, PreviewInv, EmptiedInv, HoldInv, OneCapture,
         PreviewConstants, [Next]_vars
  PROVE  Ordered'
<1>1. CASE Control
  <2>1. CASE SetPreviewDisplay
    BY <2>1, OrderKept DEF SetPreviewDisplay
  <2>2. CASE StartPreview
    BY <2>2, OrderKept DEF StartPreview
  <2>3. CASE CreatePreview
    <3>1. frames = <<>> /\ slot = 0
      BY <2>3 DEF CreatePreview, EmptiedInv
    <3> QED
      BY <2>3, <3>1 DEF CreatePreview, Ordered, OrderInv, FramesInOrder, Older,
                        Queued, Incoming, Behind
  <2>4. CASE StopPreview
    BY <2>4, OrderKept DEF StopPreview
  <2>5. CASE SignalPreview
    BY <2>5, OrderKept DEF SignalPreview, WakePreview
  <2>6. CASE SignalCapture
    BY <2>6, OrderKept DEF SignalCapture
  <2>7. CASE JoinCapture
    <3>1. UNCHANGED <<frames, pf, slot, cf, sent, cb, phase, pp>>
      BY <2>7 DEF JoinCapture
    <3>2. early => early'
      BY <2>7, Zenon DEF JoinCapture
    <3> QED
      BY <3>1, <3>2, OrderKept
  <2>8. CASE JoinPreview
    BY <2>8, OrderKept DEF JoinPreview
  <2>9. CASE ClearDisplay
    BY <2>9, OrderKept DEF ClearDisplay
  <2>10. CASE ClearPreview
    BY <2>10, QueueEmptied DEF ClearPreview, ClearPreviewFrame
  <2>11. CASE ClearCapture
    BY <2>11, SlotEmptied DEF ClearCapture, ClearCaptureFrame
  <2>12. CASE ReleaseWindows
    BY <2>12, OrderKept DEF ReleaseWindows
  <2> QED
    BY <1>1, <2>1, <2>2, <2>3, <2>4, <2>5, <2>6, <2>7, <2>8, <2>9, <2>10,
      <2>11, <2>12 DEF Control
<1>2. CASE Callback
  <2>1. CASE CallbackBegins
    <3>1. cb = "none" /\ cb' = "check" /\ phase # "closed" /\ sent' = sent + 1
      BY <2>1 DEF CallbackBegins, Session!Deliver
    <3>2. UNCHANGED <<frames, pf, slot, cf, phase, early, pp>>
      BY <2>1 DEF CallbackBegins, Session!Deliver
    <3>3. /\ \A f \in Queued \union {pf, slot} : f <= sent /\ f < sent'
          /\ ~early => \A c \in CaptureThreads : cf[c] <= sent /\ cf[c] < sent'
      BY <3>1, SentNext DEF Ordered, OrderInv
    <3>4. Queued' = Queued /\ Incoming' = {sent'} /\ Behind' = Queued \union {sent'}
      BY <3>1, <3>2 DEF Queued, Incoming, Behind
    <3>5. OrderInv'
      BY <3>1, <3>2, <3>3, <3>4, SentNext DEF Ordered, OrderInv
    <3>6. FramesInOrder'
      BY <3>2, <3>3, <3>4 DEF Ordered, FramesInOrder, Older, Behind
    <3> QED
      BY <3>5, <3>6 DEF Ordered
  <2>2. CASE CheckFrame
    BY <2>2, OrderKept DEF CheckFrame, CallbackReturns, Session!Return
  <2>3. CASE AddPreviewFrame
    <3>1. CASE cb' = "drop"
      BY <2>3, <3>1, OrderKept DEF AddPreviewFrame, CallbackReturns
    <3>2. CASE cb' # "drop"
      <4>1. /\ cb = "add" /\ cb' = "none" /\ frames' = Append(frames, sent)
            /\ UNCHANGED <<pf, slot, cf, sent, phase, early>>
            /\ pp' \in {"prepare", "start"} => pp \in {"prepare", "start"}
        BY <2>3, <3>2 DEF AddPreviewFrame, CallbackReturns, Session!Return,
                         WakePreview
      <4>2. sent \in Seqs /\ phase # "closed"
        BY <4>1 DEF SessionInv, SessionType
      <4>3. \A g \in Queued : g < sent
        BY <4>1 DEF Ordered, FramesInOrder, Older, Incoming
      <4>4. /\ Queued' = Queued \union {sent}
            /\ \A i, j \in 1..Len(frames') : i < j => frames'[i] < frames'[j]
        BY <4>1, <4>2, <4>3, OrderAppended DEF Ordered, FramesInOrder
      <4>5. Behind = Queued \union {sent} /\ Behind' = Behind /\ Incoming' = {}
        BY <4>1, <4>4 DEF Behind, Incoming
      <4>6. FramesInOrder'
        BY <4>1, <4>4, <4>5 DEF Ordered, FramesInOrder, Older
      <4>7. OrderInv'
        <5>1. pp \notin {"prepare", "start"}
          BY <4>2 DEF PreviewInv
        <5> QED
          BY <5>1, <4>1, <4>2, <4>4 DEF Ordered, OrderInv
      <4> QED
        BY <4>6, <4>7 DEF Ordered
    <3> QED
      BY <3>1, <3>2
  <2>4. CASE DropFrame
    BY <2>4, OrderKept DEF DropFrame, CallbackReturns, Session!Return
  <2> QED
    BY <1>2, <2>1, <2>2, <2>3, <2>4 DEF Callback
<1>3. CASE SessionChanges
  BY <1>3, OrderKept DEF SessionChanges, Session!Forgo, Session!Stop
<1>4. CASE Preview
  <2>1. CASE Prepare
    BY <2>1, OrderKept DEF Prepare
  <2>2. CASE StartStreaming
    <3>1. CASE pp' = "exit"
      BY <2>2, <3>1, OrderKept DEF StartStreaming
    <3>2. CASE pp' = "clear"
      <4>1. /\ UNCHANGED <<frames, pf, slot, cf, cb, early>>
            /\ sent' = 0 /\ pp = "start" /\ phase = "closed"
        BY <2>2, <3>2 DEF StartStreaming, Session!Begin
      <4>2. cb = "none"
        BY <4>1 DEF SessionInv
      <4>3. /\ frames = <<>> /\ slot = 0 /\ pf = 0
            /\ ~early => \A c \in CaptureThreads : cf[c] = 0
        BY <4>1, NoneLeft
      <4>4. Queued' = {} /\ Behind' = {}
        BY <4>1, <4>2, <4>3 DEF Queued, Behind, Incoming
      <4>5. FramesInOrder'
        BY <4>1, <4>3, <4>4 DEF FramesInOrder, Older
      <4>6. OrderInv'
        BY <3>2, <4>1, <4>3, <4>4 DEF OrderInv
      <4> QED
        BY <4>5, <4>6 DEF Ordered
    <3> QED
      BY <2>2, <3>1, <3>2 DEF StartStreaming
  <2>3. CASE ClearStale
    BY <2>3, QueueEmptied DEF ClearStale, ClearPreviewFrame
  <2>4. CASE PreviewLoop
    BY <2>4, OrderKept DEF PreviewLoop
  <2>5. CASE WaitPreviewFrame
    <3>1. CASE UNCHANGED frames
      BY <2>5, <3>1, OrderKept, PreviewTail
        DEF WaitPreviewFrame, TakePreviewFrame, RemoveFirst
    <3>2. CASE frames' # frames
      <4>1. /\ frames # <<>> /\ pf' = Head(frames) /\ frames' = Tail(frames)
            /\ pp \in {"take", "woken"} /\ pp' = "have"
            /\ UNCHANGED <<slot, cf, cb, sent, phase, early>>
        BY <2>5, <3>2 DEF WaitPreviewFrame, TakePreviewFrame, RemoveFirst
      <4>2. /\ pf' \in Queued /\ Queued' \subseteq Queued /\ pf' \in Seqs
            /\ \A g \in Queued' : pf' < g
            /\ \A i, j \in 1..Len(frames') : i < j => frames'[i] < frames'[j]
        BY <4>1, OrderRemoved DEF Ordered, FramesInOrder
      <4>3. Incoming' = Incoming /\ Behind' = Queued' \union Incoming
        BY <4>1 DEF Incoming, Behind
      <4>4. Behind' \union {pf'} \subseteq Behind /\ Older(pf', Behind')
        BY <4>2, <4>3 DEF Behind, Older, Ordered, FramesInOrder
      <4>5. FramesInOrder'
        BY <4>1, <4>2, <4>3, <4>4 DEF Ordered, FramesInOrder, Older
      <4>6. OrderInv'
        BY <4>1, <4>2 DEF Ordered, OrderInv
      <4> QED
        BY <4>5, <4>6 DEF Ordered
    <3> QED
      BY <3>1, <3>2
  <2>6. CASE Decode
    <3>1. UNCHANGED <<frames, slot, cf, sent, cb, phase, early>> /\ pf' \in {pf, 0}
      BY <2>6 DEF Decode
    <3>2. pp' \notin {"prepare", "start"}
      BY <2>6 DEF Decode
    <3> QED
      BY <3>1, <3>2, FrameGone
  <2>7. CASE Draw
    BY <2>7, OrderKept DEF Draw
  <2>8. CASE AddCaptureFrame
    <3>1. /\ UNCHANGED <<frames, cf, sent, cb, phase, early>>
          /\ pf' = 0 /\ slot' \in {pf, slot} /\ pp = "give" /\ pp' = "test"
      BY <2>8 DEF AddCaptureFrame
    <3>2. pf # 0
      BY <3>1 DEF PreviewInv
    <3>3. Behind' = Behind /\ Queued' = Queued /\ Incoming' = Incoming
      BY <3>1 DEF Behind, Queued, Incoming
    <3>4. FramesInOrder'
      <4>1. Older(pf', Behind') /\ Older(slot', Behind' \union ({pf'} \ {0}))
        BY <3>1, <3>3, FrameBehind DEF Ordered, FramesInOrder, Older
      <4>2. ASSUME ~early, NEW c \in CaptureThreads
            PROVE  Older(cf[c], Behind \union ({pf', slot'} \ {0}))
        BY <3>1, <4>2 DEF Ordered, FramesInOrder, Older
      <4> QED
        BY <3>1, <3>3, <4>1, <4>2 DEF Ordered, FramesInOrder
    <3>5. OrderInv'
      BY <3>1, <3>3 DEF Ordered, OrderInv, SessionType
    <3> QED
      BY <3>4, <3>5 DEF Ordered
  <2>9. CASE PreviewEnds
    BY <2>9, OrderKept DEF PreviewEnds
  <2>10. CASE StopStreaming
    <3>1. CASE phase' = "closed"
      BY <2>10, <3>1, OrderEnded
        DEF StopStreaming, Session!Stop, Session!End, PreviewInv
    <3>2. CASE phase' # "closed"
      BY <2>10, <3>2, OrderKept DEF StopStreaming, Session!Stop, Session!End
    <3> QED
      BY <3>1, <3>2
  <2>11. ASSUME NEW c \in CaptureThreads, CreateCapture(c)  PROVE Ordered'
    BY <2>11, OrderKept DEF CreateCapture
  <2> QED
    BY <1>4, <2>1, <2>2, <2>3, <2>4, <2>5, <2>6, <2>7, <2>8, <2>9, <2>10, <2>11
      DEF Preview
<1>5. ASSUME NEW c \in CaptureThreads, Capture(c)  PROVE Ordered'
  <2>1. CASE CaptureClears(c)
    BY <2>1, SlotEmptied DEF CaptureClears, ClearCaptureFrame
  <2>2. CASE CaptureLoop(c)
    BY <2>2, OrderKept DEF CaptureLoop
  <2>3. CASE CaptureTest(c)
    BY <2>3, OrderKept DEF CaptureTest
  <2>4. CASE WaitCaptureFrame(c)
    <3>1. CASE UNCHANGED <<cf, slot>>
      BY <2>4, <3>1, OrderKept DEF WaitCaptureFrame
    <3>2. CASE ~UNCHANGED <<cf, slot>>
      <4>1. /\ cf' = [cf EXCEPT ![c] = slot] /\ slot' = 0 /\ slot # 0
            /\ UNCHANGED <<frames, pf, cb, sent, phase, early, pp>>
        BY <2>4, <3>2 DEF WaitCaptureFrame, TakeCaptureFrame
      <4>2. \A d \in CaptureThreads : cf'[d] \in {cf[d], slot}
        BY <4>1 DEF CaptureType
      <4>3. Behind' = Behind /\ Queued' = Queued /\ Incoming' = Incoming
        BY <4>1 DEF Behind, Queued, Incoming
      <4>4. Older(slot', Behind' \union ({pf'} \ {0}))
        BY <4>1, <4>3, FrameBehind DEF Older
      <4>5. ASSUME ~early, NEW d \in CaptureThreads
            PROVE  Older(cf'[d], Behind \union ({pf, slot'} \ {0}))
        <5>1. Older(cf[d], Behind \union ({pf} \ {0}))
          BY <4>5 DEF Ordered, FramesInOrder, Older
        <5>2. Older(slot, Behind \union ({pf} \ {0}))
          BY DEF Ordered, FramesInOrder
        <5>3. {pf, slot'} \ {0} = {pf} \ {0}
          BY <4>1
        <5> QED
          BY <4>2, <5>1, <5>2, <5>3
      <4>6. FramesInOrder'
        BY <4>1, <4>3, <4>4, <4>5 DEF Ordered, FramesInOrder
      <4>7. OrderInv'
        BY <4>1, <4>2, <4>3 DEF Ordered, OrderInv, SessionType
      <4> QED
        BY <4>6, <4>7 DEF Ordered
    <3> QED
      BY <3>1, <3>2
  <2>5. CASE ConvertForSurface(c)
    BY <2>5, OrderKept DEF ConvertForSurface
  <2>6. CASE CopyToSurface(c)
    BY <2>6, OrderKept DEF CopyToSurface
  <2>7. CASE CallbackConverts(c)
    BY <2>7, CapturedGone DEF CallbackConverts, RecycleCaptured
  <2>8. CASE CallOnFrame(c)
    BY <2>8, CapturedGone DEF CallOnFrame, RecycleCaptured
  <2>9. CASE SurfaceEnds(c)
    BY <2>9, OrderKept DEF SurfaceEnds
  <2>10. CASE CaptureWakes(c)
    BY <2>10, OrderKept DEF CaptureWakes
  <2> QED
    BY <1>5, <2>1, <2>2, <2>3, <2>4, <2>5, <2>6, <2>7, <2>8, <2>9, <2>10 DEF
      Capture
<1>6. CASE SetterRuns
  BY <1>6, OrderKept DEF SetterRuns, SetterWaits, SetterWakes,
    SetterAssigns
<1>7. ASSUME NEW req \in Requests, SetterEnters(req)  PROVE Ordered'
  BY <1>7, OrderKept DEF SetterEnters
<1>8. CASE UNCHANGED vars
  BY <1>8, OrderKept DEF vars
<1> QED
  BY <1>1, <1>2, <1>3, <1>4, <1>5, <1>6, <1>7, <1>8 DEF Next

\* Every step is a step of the session, or leaves the session as it is.
LEMMA SessionStep ==
  ASSUME SessionType, SessionInv, ControlInv, PreviewInv, PreviewConstants,
    [Next]_vars
  PROVE  Session!SessionNext \/ UNCHANGED <<phase, last, cb # "none">>
<1>1. CASE Control
  BY <1>1 DEF Control, SetPreviewDisplay, StartPreview, CreatePreview,
    StopPreview, SignalPreview, SignalCapture, JoinCapture, JoinPreview,
    ClearDisplay, ClearPreview, ClearCapture, ReleaseWindows
<1>2. CASE Callback
  <2>1. CASE CallbackBegins
    BY <2>1 DEF CallbackBegins, Session!SessionNext
  <2>2. CASE CheckFrame
    BY <2>2 DEF CheckFrame, CallbackReturns, Session!SessionNext
  <2>3. CASE AddPreviewFrame
    BY <2>3 DEF AddPreviewFrame, CallbackReturns, Session!SessionNext
  <2>4. CASE DropFrame
    BY <2>4 DEF DropFrame, CallbackReturns, Session!SessionNext
  <2> QED
    BY <1>2, <2>1, <2>2, <2>3, <2>4 DEF Callback
<1>3. CASE SessionChanges
  BY <1>3 DEF SessionChanges, Session!SessionNext
<1>4. CASE Preview
  <2>1. CASE Prepare
    BY <2>1 DEF Prepare
  <2>2. CASE StartStreaming
    BY <2>2 DEF StartStreaming, Session!SessionNext
  <2>3. CASE ClearStale
    BY <2>3 DEF ClearStale
  <2>4. CASE PreviewLoop
    BY <2>4 DEF PreviewLoop
  <2>5. CASE WaitPreviewFrame
    BY <2>5 DEF WaitPreviewFrame
  <2>6. CASE Decode
    BY <2>6 DEF Decode
  <2>7. CASE Draw
    BY <2>7 DEF Draw
  <2>8. CASE AddCaptureFrame
    BY <2>8 DEF AddCaptureFrame
  <2>9. CASE PreviewEnds
    BY <2>9 DEF PreviewEnds
  <2>10. CASE StopStreaming
    BY <2>10 DEF StopStreaming, Session!SessionNext
  <2>11. ASSUME NEW c \in CaptureThreads, CreateCapture(c)  PROVE
  Session!SessionNext \/ UNCHANGED <<phase, last, cb # "none">>
    BY <2>11 DEF CreateCapture
  <2> QED
    BY <1>4, <2>1, <2>2, <2>3, <2>4, <2>5, <2>6, <2>7, <2>8, <2>9, <2>10, <2>11
      DEF Preview
<1>5. ASSUME NEW c \in CaptureThreads, Capture(c)  PROVE Session!SessionNext
  \/ UNCHANGED <<phase, last, cb # "none">>
  BY <1>5 DEF Capture, CaptureClears, CaptureLoop, CaptureTest,
    WaitCaptureFrame, ConvertForSurface, CopyToSurface, CallbackConverts,
    CallOnFrame, SurfaceEnds, CaptureWakes
<1>6. CASE SetterRuns
  BY <1>6 DEF SetterRuns, SetterWaits, SetterWakes,
    SetterAssigns
<1>7. ASSUME NEW req \in Requests, SetterEnters(req)  PROVE
  Session!SessionNext \/ UNCHANGED <<phase, last, cb # "none">>
  BY <1>7 DEF SetterEnters
<1>8. CASE UNCHANGED vars
  BY <1>8 DEF vars
<1> QED
  BY <1>1, <1>2, <1>3, <1>4, <1>5, <1>6, <1>7, <1>8 DEF Next

----------------------------------------------------------------------------
(***************************************************************************)
(* The inductive invariant and what follows from it.                       *)
(***************************************************************************)
\* At the start nothing has happened.
LEMMA StartInv ==
  ASSUME Init, PreviewConstants
  PROVE  IInv
<1>0. 0 \in 0..MaxSeq
  OBVIOUS
<1> USE DEF Init
<1>1. phase = "closed" /\ last = FALSE
  BY DEF Session!SessionInit
<1>2. ControlType /\ SessionType /\ PoolType /\ PreviewType
  <2>1. frames \in Seq(Seqs) /\ Len(frames) = 0
    OBVIOUS
  <2>2. ControlType
    BY DEF ControlType
  <2>3. SessionType
    BY <1>0, <1>1 DEF SessionType
  <2>4. PoolType
    BY DEF PoolType
  <2>5. PreviewType
    BY <2>1 DEF PreviewType, PreviewPoints
  <2> QED
    BY <2>2, <2>3, <2>4, <2>5
<1>3. CaptureType
  <2>1. slot \in 0..MaxSeq /\ capturing \in BOOLEAN
    BY <1>0
  <2>2. cap \in [CaptureThreads -> CapturePoints]
    BY DEF CapturePoints
  <2>3. cf \in [CaptureThreads -> 0..MaxSeq]
    BY <1>0
  <2>4. /\ surf \in [CaptureThreads -> BOOLEAN]
        /\ conv \in [CaptureThreads -> BOOLEAN]
    OBVIOUS
  <2>5. using \in [CaptureThreads -> Callbacks \union {None}]
    OBVIOUS
  <2> QED
    BY <2>1, <2>2, <2>3, <2>4, <2>5 DEF CaptureType
<1>4. SetterType
  BY DEF SetterType, Requests, NoRequest
<1>5. SessionInv /\ ControlInv /\ PreviewInv /\ EmptiedInv
  BY <1>1 DEF SessionInv, ControlInv, PreviewInv, EmptiedInv
<1>6. HoldInv /\ SleepersHaveNothingToTake /\ OneCapture
  BY DEF HoldInv, HoldPoints, SleepersHaveNothingToTake, OneCapture
<1>7. NoFrameLost
  <2>1. WithFrame = {} /\ WithConverted = {}
    BY DEF WithFrame, WithConverted
  <2>2. HeldByCapture = Cardinality({}) + Cardinality({})
    BY <2>1 DEF HeldByCapture
  <2>3. HeldByCapture = 0
    BY <2>2, FS_EmptySet
  <2> QED
    BY <2>3 DEF NoFrameLost, HeldByCallback, One
<1>8. UseInv /\ BrokenOnlyAfterChange
  BY DEF UseInv, SetterInv, WindowInv, BrokenOnlyAfterChange
<1>9. OrderInv /\ FramesInOrder
  BY <1>1 DEF OrderInv, FramesInOrder, Queued, Incoming, Behind, Older
<1> QED
  BY <1>2, <1>3, <1>4, <1>5, <1>6, <1>7, <1>8, <1>9 DEF IInv, TypeOK

\* Every step preserves it.
LEMMA StepInv ==
  ASSUME IInv, [Next]_vars, PreviewConstants
  PROVE  IInv'
<1> USE DEF IInv, TypeOK
<1>1. ControlType' /\ SessionType' /\ SessionInv' /\ PreviewType'
  BY ControlTyped, SessionTyped, PreviewTyped
<1>2. CaptureType' /\ SetterType'
  BY CaptureTyped, SetterTyped
<1>3. ControlInv' /\ PreviewInv' /\ EmptiedInv'
  BY ControlPreserved, PreviewPreserved, EmptiedPreserved
<1>4. HoldInv' /\ SleepersHaveNothingToTake' /\ OneCapture'
  BY HoldPreserved, SleepersPreserved, OneCapturePreserved
<1>5. PoolType' /\ NoFrameLost'
  BY <1>1, PoolPreserved
<1>6. UseInv' /\ BrokenOnlyAfterChange'
  BY UsePreserved
<1>7. OrderInv' /\ FramesInOrder'
  BY <1>1, OrderPreserved DEF Ordered
<1> QED
  BY <1>1, <1>2, <1>3, <1>4, <1>5, <1>6, <1>7

\* The positions of the five threads always agree with each other.
THEOREM Invariant == Spec => []IInv
<1>1. Init => IInv
  BY StartInv, PreviewConstants
<1>2. IInv /\ [Next]_vars => IInv'
  BY StepInv, PreviewConstants
<1> QED
  BY <1>1, <1>2, PTL DEF Spec

\* Type correctness.
THEOREM TypeCorrect == Spec => []TypeOK
<1>1. IInv => TypeOK
  BY DEF IInv
<1> QED
  BY <1>1, Invariant, PTL

\* Every allocated frame is in the pool, in the queue, in the slot or held by
\* one thread, whatever the sizes of the queue and the pool.
THEOREM FramesAccounted == Spec => []NoFrameLost
<1>1. IInv => NoFrameLost
  BY DEF IInv
<1> QED
  BY <1>1, Invariant, PTL

\* A thread asleep in waitPreviewFrame or waitCaptureFrame has nothing to take.
THEOREM NoFrameMissed == Spec => []SleepersHaveNothingToTake
<1>1. IInv => SleepersHaveNothingToTake
  BY DEF IInv
<1> QED
  BY <1>1, Invariant, PTL

\* Frames keep the camera's order through queue, preview thread, slot and capture
\* thread, whatever the length of the queue and whichever frames are dropped.
THEOREM OrderKeptInPreview == Spec => []FramesInOrder
<1>1. IInv => FramesInOrder
  BY DEF IInv
<1> QED
  BY <1>1, Invariant, PTL

\* A window or callback object is used after its release only if one was
\* replaced while previewing or a capture thread was left behind.
THEOREM UsedWhileHeld == Spec => []BrokenOnlyAfterChange
<1>1. IInv => BrokenOnlyAfterChange
  BY DEF IInv
<1> QED
  BY <1>1, Invariant, PTL

\* When stopPreview has returned, and found the capture thread, the stream is
\* closed, the preview thread gone and every frame in the pool.
LEMMA StoppedInv ==
  ASSUME IInv, PreviewConstants
  PROVE  StoppedHoldsNothing
<1> SUFFICES ASSUME ctl = "idle", ~running, ~early
             PROVE  phase = "closed" /\ cb = "none" /\ pp = "none" /\ alloc = pool
  BY DEF StoppedHoldsNothing
<1>1. Ended
  BY DEF Ended
<1>2. pp = "none"
  BY <1>1 DEF IInv, ControlInv
<1>3. phase = "closed" /\ cb = "none" /\ pf = 0
  BY <1>2 DEF IInv, PreviewInv, SessionInv
<1>4. frames = <<>> /\ slot = 0
  BY DEF IInv, EmptiedInv
<1>5. \A c \in CaptureThreads : cap[c] = "none"
  BY <1>1, EndedCaptures DEF IInv
<1>6. \A c \in CaptureThreads : cf[c] = 0 /\ ~conv[c]
  BY <1>5 DEF IInv, HoldInv, HoldPoints
<1>7. HeldByCapture = 0
  <2>1. HeldByCapture = Cardinality({}) + Cardinality({})
    BY <1>6 DEF HeldByCapture
  <2> QED
    BY <2>1, FS_EmptySet
<1>8. alloc = pool
  BY <1>3, <1>4, <1>7 DEF IInv, TypeOK, PoolType, NoFrameLost, HeldByCallback,
    One
<1> QED
  BY <1>2, <1>3, <1>8

\* StoppedHoldsNothing holds always: what stopPreview promises on return.
THEOREM StoppedLeavesNothing == Spec => []StoppedHoldsNothing
<1>1. IInv => StoppedHoldsNothing
  BY StoppedInv, PreviewConstants
<1> QED
  BY <1>1, Invariant, PTL

----------------------------------------------------------------------------
(***************************************************************************)
(* The composition with libuvc.                                            *)
(***************************************************************************)
\* The preview engine and the callback thread do nothing with the session that
\* the contract of libuvc, which UvcStream implements, does not have.
THEOREM UsesContract == Spec => Session!Session
<1>1. Init => Session!SessionInit
  BY DEF Init
<1>2. IInv /\ [Next]_vars => [Session!SessionNext]_(Session!svars)
  BY SessionStep, PreviewConstants DEF IInv, TypeOK, Session!svars
<1> QED
  BY <1>1, <1>2, Invariant, PTL DEF Spec, Session!Session

=============================================================================
