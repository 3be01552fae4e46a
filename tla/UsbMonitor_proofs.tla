-------------------------- MODULE UsbMonitor_proofs --------------------------
(***************************************************************************)
(* What UsbMonitor guarantees for every set of devices and every bound: its*)
(* type invariant and the safety properties of UsbMonitor_blocks.cfg, which*)
(* follow from one inductive invariant, IInv.                              *)
(*                                                                         *)
(* The invariant is proved in layers, each from those before it: types,    *)
(* permissions and blocks; which connections are known; what is left of a  *)
(* device that was detached.  A layer's lemma looks at the steps that      *)
(* change its variables, which the lemmas called ...Moves name.            *)
(***************************************************************************)
EXTENDS UsbMonitor, TLAPS, SequenceTheorems, FiniteSetTheorems

USE DEF None, MainAt, HandlerAt, ClientAt

\* What appending to a sequence does to its range.
LEMMA Appended ==
  ASSUME NEW S, NEW s \in Seq(S), NEW e \in S
  PROVE  Append(s, e) \in Seq(S) /\ Range(Append(s, e)) = Range(s) \union {e}
<1>1. /\ Append(s, e) \in Seq(S) /\ Len(Append(s, e)) = Len(s) + 1
      /\ \A i \in 1..Len(s) : Append(s, e)[i] = s[i]
      /\ Append(s, e)[Len(s) + 1] = e
  BY AppendProperties
<1>2. Range(s) = {s[i] : i \in 1..Len(s)}
  BY RangeEquality
<1>3. Range(Append(s, e)) = {Append(s, e)[i] : i \in 1..(Len(s) + 1)}
  BY <1>1, RangeEquality
<1>4. Len(s) \in Nat /\ 1..(Len(s) + 1) = 1..Len(s) \union {Len(s) + 1}
  BY LenProperties
<1>5. {Append(s, e)[i] : i \in 1..Len(s)} = {s[i] : i \in 1..Len(s)}
  BY <1>1
<1> QED
  BY <1>1, <1>2, <1>3, <1>4, <1>5

\* Taking the first element leaves nothing new.
LEMMA Taken ==
  ASSUME NEW S, NEW s \in Seq(S), s # <<>>
  PROVE  /\ Head(s) \in S /\ Head(s) \in Range(s)
         /\ Tail(s) \in Seq(S) /\ Range(Tail(s)) \subseteq Range(s)
<1>1. /\ Head(s) \in S /\ Tail(s) \in Seq(S)
      /\ Len(Tail(s)) = Len(s) - 1
      /\ \A i \in 1..Len(Tail(s)) : Tail(s)[i] = s[i + 1]
  BY HeadTailProperties
<1>2. Range(s) = {s[i] : i \in 1..Len(s)}
  BY RangeEquality
<1>3. Range(Tail(s)) = {Tail(s)[i] : i \in 1..Len(Tail(s))}
  BY <1>1, RangeEquality
<1>4. Len(s) \in Nat /\ Len(s) >= 1 /\ Head(s) = s[1]
  BY LenProperties, EmptySeq
<1>5. \A i \in 1..Len(Tail(s)) : i + 1 \in 1..Len(s)
  BY <1>1, <1>4
<1> QED
  BY <1>1, <1>2, <1>3, <1>4, <1>5

\* The empty sequence has no elements.
LEMMA Emptied == ASSUME NEW S PROVE <<>> \in Seq(S) /\ Range(<<>>) = {}
<1>1. <<>> \in Seq(S) /\ Len(<<>>) = 0
  BY EmptySeq
<1>2. Range(<<>>) = {<<>>[i] : i \in 1..0}
  BY <1>1, RangeEquality
<1> QED
  BY <1>1, <1>2

\* Closing changes one field of one block, creating adds a block at the end.
LEMMA ClosedBlock ==
  ASSUME blocks \in Seq(Block), NEW b \in 1..Len(blocks), Close(b)
  PROVE  /\ blocks' \in Seq(Block) /\ Len(blocks') = Len(blocks)
         /\ \A c \in 1..Len(blocks) :
               /\ blocks'[c].dev = blocks[c].dev
               /\ blocks'[c].clone = blocks[c].clone
               /\ blocks'[c].open <=> blocks[c].open /\ c # b
<1>1. \A c \in 1..Len(blocks) : blocks[c] \in Block
  BY ElementOfSeq
<1>2. [blocks[b] EXCEPT !.open = FALSE] \in Block
  BY <1>1 DEF Block
<1>3. blocks' = [blocks EXCEPT ![b] = [blocks[b] EXCEPT !.open = FALSE]]
  BY DEF Close
<1>4. /\ blocks' \in Seq(Block) /\ Len(blocks') = Len(blocks)
      /\ \A c \in 1..Len(blocks) :
            blocks'[c] = IF c = b THEN [blocks[b] EXCEPT !.open = FALSE]
                         ELSE blocks[c]
  BY <1>2, <1>3, ExceptSeq
<1> QED
  BY <1>1, <1>4 DEF Block

\* Creating one adds it at the end.
LEMMA CreatedBlock ==
  ASSUME blocks \in Seq(Block), NEW d \in Devices, NEW clone \in BOOLEAN,
         Create(d, clone)
  PROVE  /\ blocks' \in Seq(Block) /\ Len(blocks') = Len(blocks) + 1
         /\ Len(blocks) \in Nat
         /\ \A c \in 1..Len(blocks) : blocks'[c] = blocks[c]
         /\ blocks'[Len(blocks) + 1].dev = d
         /\ blocks'[Len(blocks) + 1].open <=> d \in granted
         /\ blocks'[Len(blocks) + 1].clone = clone
<1> DEFINE new == [dev |-> d, open |-> d \in granted, clone |-> clone]
<1>1. new \in Block
  BY DEF Block
<1>2. /\ new.dev = d /\ (new.open <=> d \in granted) /\ new.clone = clone
  OBVIOUS
<1>3. blocks' = Append(blocks, new)
  BY DEF Create
<1> HIDE DEF new
<1>4. /\ blocks' \in Seq(Block) /\ Len(blocks') = Len(blocks) + 1
      /\ Len(blocks) \in Nat
      /\ \A c \in 1..Len(blocks) : blocks'[c] = blocks[c]
      /\ blocks'[Len(blocks) + 1] = new
  BY <1>1, <1>3, AppendProperties, LenProperties
<1> QED
  BY <1>2, <1>4

----------------------------------------------------------------------------
(***************************************************************************)
(* Which steps move each of the threads.                                   *)
(***************************************************************************)
\* The main thread is moved by its own steps.
LEMMA MainMoves ==
  ASSUME [Next]_vars
  PROVE  \/ Unregister \/ ReceiveDetached \/ DestroyRemoves
         \/ MainCloses \/ MainForgets \/ DestroyMarks
         \/ main' = Idle \/ UNCHANGED main
  BY DEF Next, System, MainRuns, HandlerRuns, ClientRuns, Application, vars,
         handlerKeeps, clientKeeps, Register, ReceivePermission,
         ProcessDettach, DestroyClears, HandlerTakes, CheckBegins, ConnectGets,
         ConnectCreates, ConnectPuts, ConnectTells, CheckLists, CheckCompares,
         CheckCounts, CheckPosts, RequestPermission, OpenDevice, CameraOpens,
         ClientCloses, ClientForgets, ClientCreates, ClientPuts, HasPermission,
         ContextGone, contextVars

\* So is the handler thread.
LEMMA HandMoves ==
  ASSUME [Next]_vars
  PROVE  \/ HandlerTakes \/ ConnectGets \/ ConnectCreates \/ ConnectPuts
         \/ CheckBegins \/ CheckLists \/ CheckCompares \/ CheckCounts
         \/ hand' = Idle \/ UNCHANGED hand
  BY DEF Next, System, MainRuns, HandlerRuns, ClientRuns, Application, vars,
         mainKeeps, clientKeeps, Register, Unregister, ReceivePermission,
         ReceiveDetached, MainCloses, MainForgets, ProcessDettach,
         DestroyMarks, DestroyRemoves, DestroyClears, ConnectTells, CheckPosts,
         RequestPermission, OpenDevice, CameraOpens, ClientCloses,
         ClientForgets, ClientCreates, ClientPuts, HasPermission, ContextGone,
         contextVars

\* And the application's.
LEMMA ClientMoves ==
  ASSUME [Next]_vars
  PROVE  \/ ClientCreates \/ client' = Idle \/ UNCHANGED client
         \/ \E b \in 1..Len(blocks) :
               ClientCloses(b)
               /\ client' = [at |-> "forget", dev |-> None, blk |-> b]
         \/ \E d \in Devices :
               OpenDevice(d)
               /\ client' = [at |-> "create", dev |-> d, blk |-> 0]
  BY DEF Next, System, MainRuns, HandlerRuns, ClientRuns, Application, vars,
         mainKeeps, handlerKeeps, Register, Unregister, ReceivePermission,
         ReceiveDetached, MainCloses, MainForgets, ProcessDettach,
         DestroyMarks, DestroyRemoves, DestroyClears, HandlerTakes,
         CheckBegins, ConnectGets, ConnectCreates, ConnectPuts, ConnectTells,
         CheckLists, CheckCompares, CheckCounts, CheckPosts, RequestPermission,
         OpenDevice, CameraOpens, ClientCloses, ClientForgets, ClientPuts,
         HasPermission, ContextGone, contextVars

----------------------------------------------------------------------------
(***************************************************************************)
(* Types.                                                                  *)
(***************************************************************************)
\* A broadcast is delivered as one of the kinds there are.
LEMMA BroadcastType ==
  ASSUME WorldType, NEW kind \in {"granted", "denied", "detached"},
         NEW d \in Devices, Broadcast(kind, d)
  PROVE  inbox' \in Seq(Broadcasts)
<1>1. [kind |-> kind, dev |-> d] \in Broadcasts
  BY DEF Broadcasts
<1> QED
  BY <1>1, Appended DEF WorldType, Broadcast

\* The devices, the broadcasts and the fields of the monitor keep their types.
LEMMA WorldStep ==
  ASSUME TypeOK, PermissionInv, [Next]_vars PROVE WorldType'
<1>0. WorldType /\ BlockType /\ ThreadType
  BY DEF TypeOK
<1>1. CASE UNCHANGED <<worldVars, inbox, contextVars, destroyed, counts, hasPerm>>
  BY <1>0, <1>1 DEF WorldType, worldVars, contextVars
<1>2. ASSUME System PROVE WorldType'
  <2>1. UNCHANGED <<registered, stray, destroyed, counts, hasPerm>>
    BY <1>2 DEF System
  <2>2. CASE ContextGone
    <3>1. inbox' \in Seq(Broadcasts) /\ {context', listening'} \subseteq BOOLEAN
      BY <1>0, <2>2, Emptied DEF ContextGone, WorldType
    <3> QED
      BY <1>0, <2>1, <2>2, <3>1 DEF ContextGone, worldVars, WorldType
  <2>3. ASSUME NEW d \in Devices, Plug(d) \/ Unplug(d) \/ UserAnswers(d),
               UNCHANGED <<context, listening>>
        PROVE  WorldType'
    <3>1. inbox' \in Seq(Broadcasts)
      BY <1>0, <2>3, BroadcastType DEF Plug, Unplug, UserAnswers, WorldType
    <3>2. usb' \in [Devices -> {"new", "in", "out"}]
      BY <1>0, <2>3 DEF Plug, Unplug, UserAnswers, WorldType
    <3>3. granted' \subseteq Devices /\ asked' \subseteq Devices
      BY <1>0, <2>3 DEF Plug, Unplug, UserAnswers, WorldType
    <3> QED
      BY <1>0, <2>1, <2>3, <3>1, <3>2, <3>3 DEF WorldType
  <2> QED
    BY <1>2, <2>2, <2>3 DEF System
<1>3. ASSUME Register \/ Unregister PROVE WorldType'
  <2>1. inbox' \in Seq(Broadcasts)
    BY <1>0, <1>3, Emptied DEF Register, Unregister, WorldType
  <2>2. counts' \in Nat /\ stray' \in Nat
    BY <1>0, <1>3 DEF Register, Unregister, Running, WorldType
  <2>3. {context', registered', listening'} \subseteq BOOLEAN
    BY <1>0, <1>3 DEF Register, Unregister, WorldType
  <2>4. UNCHANGED <<worldVars, destroyed, hasPerm>>
    BY <1>3 DEF Register, Unregister, mainKeeps
  <2> QED
    BY <1>0, <2>1, <2>2, <2>3, <2>4 DEF WorldType, worldVars
<1>4. ASSUME ReceivePermission \/ ReceiveDetached PROVE WorldType'
  <2>1. inbox # <<>> /\ inbox' = Tail(inbox)
    BY <1>4 DEF ReceivePermission, ReceiveDetached
  <2>2. inbox' \in Seq(Broadcasts) /\ Head(inbox) \in Broadcasts
    BY <1>0, <2>1, Taken DEF WorldType
  <2>3. UNCHANGED <<worldVars, contextVars, destroyed, counts>>
    BY <1>4 DEF ReceivePermission, ReceiveDetached, mainKeeps
  <2>4. hasPerm' \subseteq Devices
    BY <1>0, <1>4, <2>2
    DEF ReceivePermission, ReceiveDetached, ProcessConnect, ProcessCancel,
        WorldType, Broadcasts
  <2> QED
    BY <1>0, <2>2, <2>3, <2>4 DEF WorldType, worldVars, contextVars
<1>5. ASSUME ProcessDettach \/ DestroyMarks PROVE WorldType'
  <2>1. counts' \in Nat
    BY <1>0, <1>5 DEF ProcessDettach, ResetCount, DestroyMarks, WorldType
  <2>3. destroyed' \in BOOLEAN
    BY <1>0, <1>5 DEF ProcessDettach, DestroyMarks, WorldType
  <2>2. UNCHANGED <<worldVars, inbox, contextVars, hasPerm>>
    BY <1>5 DEF ProcessDettach, DestroyMarks, mainKeeps
  <2> QED
    BY <1>0, <2>1, <2>2, <2>3 DEF WorldType, worldVars, contextVars
<1>6. ASSUME CheckCompares \/ CheckCounts PROVE WorldType'
  <2>1. seen \subseteq Devices /\ Cardinality(seen) \in Nat
    BY <1>0, MonitorConstants, FS_Subset, FS_CardinalityType DEF ThreadType
  <2>2. counts' \in Nat /\ hasPerm' \subseteq Devices
    BY <1>0, <1>6, <2>1 DEF CheckCompares, CheckCounts, WorldType
  <2>3. UNCHANGED <<worldVars, inbox, contextVars, destroyed>>
    BY <1>6 DEF CheckCompares, CheckCounts, handlerKeeps
  <2> QED
    BY <1>0, <2>2, <2>3 DEF WorldType, worldVars, contextVars
<1>7. ASSUME NEW d \in Devices,
                 RequestPermission(d) \/ HasPermission(d) \/ OpenDevice(d)
      PROVE  WorldType'
  <2>1. asked' \subseteq Devices /\ hasPerm' \subseteq Devices
    BY <1>0, <1>7
    DEF RequestPermission, HasPermission, OpenDevice, UpdatePermission,
        ProcessConnect, ProcessCancel, WorldType, clientKeeps, worldVars
  <2>2. UNCHANGED <<usb, granted, inbox, contextVars, destroyed, counts>>
    BY <1>7
    DEF RequestPermission, HasPermission, OpenDevice, clientKeeps, worldVars
  <2> QED
    BY <1>0, <2>1, <2>2 DEF WorldType, contextVars
<1>8. \/ System \/ Register \/ Unregister
      \/ ReceivePermission \/ ReceiveDetached \/ ProcessDettach \/ DestroyMarks
      \/ CheckCompares \/ CheckCounts
      \/ \E d \in Devices :
            RequestPermission(d) \/ HasPermission(d) \/ OpenDevice(d)
      \/ UNCHANGED <<worldVars, inbox, contextVars, destroyed, counts, hasPerm>>
  BY DEF Next, MainRuns, HandlerRuns, ClientRuns, Application, vars, worldVars,
         MainCloses, MainForgets, DestroyRemoves, DestroyClears, mainKeeps,
         HandlerTakes, CheckBegins, ConnectGets, ConnectCreates, ConnectPuts,
         ConnectTells, CheckLists, CheckPosts, handlerKeeps, CameraOpens,
         ClientCloses, ClientForgets, ClientCreates, ClientPuts, clientKeeps,
         contextVars
<1> QED
  BY <1>1, <1>2, <1>3, <1>4, <1>5, <1>6, <1>7, <1>8 DEF worldVars

\* Every block is of a device.
LEMMA BlockHasDevice ==
  ASSUME BlockType, NEW b \in 1..Len(blocks)
  PROVE  blocks[b] \in Block /\ blocks[b].dev \in Devices
<1>1. blocks[b] \in Block
  BY ElementOfSeq DEF BlockType
<1> QED
  BY <1>1 DEF Block

\* What each of these methods does to the sequence of blocks.
BlocksGrow ==
    /\ blocks' \in Seq(Block) /\ Len(blocks) \in Nat
    /\ Len(blocks') \in {Len(blocks), Len(blocks) + 1}
    /\ \A c \in 1..Len(blocks) :
          /\ blocks'[c].dev = blocks[c].dev
          /\ blocks'[c].clone = blocks[c].clone
          /\ blocks'[c].open => blocks[c].open

\* No step loses a block, opens one again or makes two.
LEMMA BlocksStep ==
  ASSUME TypeOK, PermissionInv, HasBlock, [Next]_vars PROVE BlocksGrow
<1>0. blocks \in Seq(Block) /\ Len(blocks) \in Nat
  BY LenProperties DEF TypeOK, BlockType
<1>1. CASE UNCHANGED blocks
  BY <1>0, <1>1 DEF BlocksGrow
<1>2. ASSUME NEW b \in 1..Len(blocks), Close(b) PROVE BlocksGrow
  BY <1>0, <1>2, ClosedBlock DEF BlocksGrow
<1>3. ASSUME NEW d \in Devices, NEW clone \in BOOLEAN, Create(d, clone)
      PROVE  BlocksGrow
  BY <1>0, <1>3, CreatedBlock DEF BlocksGrow
<1>4. CASE MainCloses
  <2>1. main.blk \in 1..Len(blocks)
    BY <1>4 DEF MainCloses, HasBlock
  <2>2. Close(main.blk) \/ UNCHANGED blocks
    BY <1>4 DEF MainCloses
  <2> QED
    BY <1>1, <1>2, <2>1, <2>2
<1>5. CASE \E b \in 1..Len(blocks) : ClientCloses(b)
  BY <1>1, <1>2, <1>5 DEF ClientCloses
<1>6. CASE \E b \in 1..Len(blocks) : CameraOpens(b)
  <2>1. PICK b \in 1..Len(blocks) : Create(blocks[b].dev, TRUE)
    BY <1>6 DEF CameraOpens
  <2>2. blocks[b].dev \in Devices
    BY BlockHasDevice DEF TypeOK
  <2> QED
    BY <1>3, <2>1, <2>2
<1>7. CASE ConnectCreates
  <2>1. hand.dev \in Devices
    BY <1>7
    DEF ConnectCreates, Constructs, PermissionInv, ConnectPoints, CreatePoints
  <2>2. Create(hand.dev, FALSE) \/ UNCHANGED blocks
    BY <1>7 DEF ConnectCreates, Constructs
  <2> QED
    BY <1>1, <1>3, <2>1, <2>2
<1>8. CASE ClientCreates
  <2>1. client.dev \in Devices
    BY <1>8 DEF ClientCreates, Constructs, PermissionInv, CreatePoints
  <2>2. Create(client.dev, FALSE) \/ UNCHANGED blocks
    BY <1>8 DEF ClientCreates, Constructs
  <2> QED
    BY <1>1, <1>3, <2>1, <2>2
<1>9. \/ MainCloses \/ ConnectCreates \/ ClientCreates
      \/ \E b \in 1..Len(blocks) : ClientCloses(b) \/ CameraOpens(b)
      \/ UNCHANGED blocks
  BY DEF Next, System, MainRuns, HandlerRuns, ClientRuns, Application, vars,
         blockVars, Register, Unregister, ReceivePermission, ReceiveDetached,
         MainForgets, ProcessDettach, DestroyMarks, DestroyRemoves,
         DestroyClears, HandlerTakes, CheckBegins, ConnectGets, ConnectPuts,
         ConnectTells, CheckLists, CheckCompares, CheckCounts, CheckPosts,
         RequestPermission, OpenDevice, ClientForgets, ClientPuts,
         HasPermission, ContextGone, contextVars
<1> QED
  BY <1>1, <1>4, <1>5, <1>6, <1>7, <1>8, <1>9

\* So an index of a block remains one.
LEMMA IndicesGrow ==
  ASSUME BlocksGrow
  PROVE  /\ 1..Len(blocks) \subseteq 1..Len(blocks')
         /\ 0..Len(blocks) \subseteq 0..Len(blocks')
  BY DEF BlocksGrow

\* The map, and what the application was handed, refer to blocks there are.
LEMMA BlockStep ==
  ASSUME TypeOK, PermissionInv, HasBlock, [Next]_vars PROVE BlockType'
<1>0. /\ WorldType /\ BlockType /\ ThreadType
      /\ Len(blocks) \in Nat /\ blocks' \in Seq(Block)
      /\ 1..Len(blocks) \subseteq 1..Len(blocks')
      /\ 0..Len(blocks) \subseteq 0..Len(blocks')
  BY BlocksStep, IndicesGrow DEF TypeOK, BlocksGrow
<1>a. ASSUME map' \in [Devices -> 0..Len(blocks')],
             handed' \subseteq 1..Len(blocks'),
             dropped' \subseteq 1..Len(blocks'), camera' \in 0..Len(blocks')
      PROVE  BlockType'
  BY <1>0, <1>a DEF BlockType
<1>1. CASE UNCHANGED <<map, dropped, handed, camera>>
  BY <1>0, <1>1, <1>a DEF BlockType
<1>2. CASE MainForgets \/ ClientForgets
  <2>1. PICK b \in 1..Len(blocks) : RemoveEntry(b)
    BY <1>2 DEF MainForgets, ClientForgets, HasBlock
  <2>2. UNCHANGED <<handed, camera>>
    BY <1>2 DEF MainForgets, ClientForgets, mainKeeps
  <2>3. blocks[b].dev \in Devices
    BY <1>0, BlockHasDevice
  <2>4. map' \in [Devices -> 0..Len(blocks)]
    BY <1>0, <2>1, <2>3 DEF RemoveEntry, BlockType
  <2>5. map[blocks[b].dev] \in {0} \union 1..Len(blocks)
    BY <1>0, <2>3 DEF BlockType
  <2>6. dropped' \subseteq 1..Len(blocks)
    <3>1. \/ dropped' = dropped
          \/ /\ map[blocks[b].dev] # 0
             /\ dropped' = dropped \union {map[blocks[b].dev]}
      BY <2>1 DEF RemoveEntry
    <3> QED
      BY <1>0, <2>5, <3>1 DEF BlockType
  <2> QED
    BY <1>0, <1>a, <2>2, <2>4, <2>6 DEF BlockType
<1>3. CASE ReceiveDetached \/ DestroyRemoves \/ DestroyClears
  <2>1. map' \in [Devices -> 0..Len(blocks)]
    BY <1>0, <1>3
    DEF ReceiveDetached, DestroyRemoves, DestroyClears, BlockType
  <2>2. UNCHANGED <<handed, camera, dropped>>
    BY <1>3 DEF ReceiveDetached, DestroyRemoves, DestroyClears, mainKeeps
  <2> QED
    BY <1>0, <1>a, <2>1, <2>2 DEF BlockType
<1>4. CASE ConnectPuts \/ ClientPuts
  <2>1. PICK d \in Devices, b \in 1..Len(blocks) :
            Enter(d, b) /\ handed' \in {handed, handed \union {b}}
    <3>1. CASE ConnectPuts
      BY <3>1
      DEF ConnectPuts, HasBlock, PermissionInv, ConnectPoints, CreatePoints
    <3>2. CASE ClientPuts
      BY <3>2 DEF ClientPuts, HasBlock, PermissionInv, CreatePoints
    <3> QED
      BY <1>4, <3>1, <3>2
  <2>2. UNCHANGED camera
    BY <1>4 DEF ConnectPuts, ClientPuts, handlerKeeps
  <2>3. map' \in [Devices -> 0..Len(blocks)]
    BY <1>0, <2>1 DEF Enter, BlockType
  <2>5. map[d] \in {0} \union 1..Len(blocks)
    BY <1>0 DEF BlockType
  <2>6. dropped' \subseteq 1..Len(blocks)
    <3>1. \/ dropped' = dropped
          \/ map[d] # 0 /\ dropped' = dropped \union {map[d]}
      BY <2>1 DEF Enter
    <3> QED
      BY <1>0, <2>5, <3>1 DEF BlockType
  <2>4. handed' \subseteq 1..Len(blocks)
    BY <1>0, <2>1 DEF BlockType
  <2> QED
    BY <1>0, <1>a, <2>2, <2>3, <2>4, <2>6 DEF BlockType
<1>5. CASE ConnectTells
  <2>1. hand.blk \in 1..Len(blocks)
    BY <1>5 DEF ConnectTells, HasBlock
  <2>2. handed' = handed \union {hand.blk} /\ UNCHANGED <<map, dropped, camera>>
    BY <1>5 DEF ConnectTells, handlerKeeps, blockVars, entryVars
  <2> QED
    BY <1>0, <1>a, <2>1, <2>2 DEF BlockType
<1>6. CASE \E b \in 1..Len(blocks) : CameraOpens(b) \/ ClientCloses(b)
  <2>1. PICK b \in 1..Len(blocks) : CameraOpens(b) \/ ClientCloses(b)
    BY <1>6
  <2>2. UNCHANGED <<map, dropped, handed>>
    BY <2>1 DEF CameraOpens, ClientCloses, entryVars
  <2>3. camera' \in 0..Len(blocks')
    <3>1. CASE CameraOpens(b)
      <4>1. Create(blocks[b].dev, TRUE) /\ camera' = Len(blocks) + 1
        BY <3>1 DEF CameraOpens, Created
      <4>2. Len(blocks') = Len(blocks) + 1
        BY <1>0, <4>1, BlockHasDevice, CreatedBlock DEF BlockType
      <4> QED
        BY <1>0, <4>1, <4>2
    <3>2. CASE ClientCloses(b)
      BY <1>0, <3>2 DEF ClientCloses, BlockType
    <3> QED
      BY <2>1, <3>1, <3>2
  <2> QED
    BY <1>0, <1>a, <2>2, <2>3 DEF BlockType
<1>7. CASE \E d \in Devices : OpenDevice(d)
  <2>1. handed' \subseteq 1..Len(blocks)
    <3>1. PICK d \in Devices : OpenDevice(d)
      BY <1>7
    <3>2. map[d] \in {0} \union 1..Len(blocks)
      BY <1>0 DEF BlockType
    <3>3. handed' = handed \/ (map[d] # 0 /\ handed' = handed \union {map[d]})
      BY <3>1 DEF OpenDevice
    <3> QED
      BY <1>0, <3>2, <3>3 DEF BlockType
  <2>2. UNCHANGED <<map, dropped, camera>>
    BY <1>7 DEF OpenDevice, blockVars, entryVars
  <2> QED
    BY <1>0, <1>a, <2>1, <2>2 DEF BlockType
<1>8. \/ MainForgets \/ ClientForgets
      \/ ReceiveDetached \/ DestroyRemoves \/ DestroyClears
      \/ ConnectPuts \/ ClientPuts \/ ConnectTells
      \/ \E b \in 1..Len(blocks) : CameraOpens(b) \/ ClientCloses(b)
      \/ \E d \in Devices : OpenDevice(d)
      \/ UNCHANGED <<map, dropped, handed, camera>>
  BY DEF Next, System, MainRuns, HandlerRuns, ClientRuns, Application, vars,
         blockVars, entryVars, mainKeeps, handlerKeeps, clientKeeps, Register,
         Unregister, ReceivePermission, MainCloses, ProcessDettach,
         DestroyMarks, HandlerTakes, CheckBegins, ConnectGets, ConnectCreates,
         CheckLists, CheckCompares, CheckCounts, CheckPosts, RequestPermission,
         ClientCreates, HasPermission, ContextGone, contextVars
<1> QED
  BY <1>1, <1>2, <1>3, <1>4, <1>5, <1>6, <1>7, <1>8

\* Posting adds one runnable at most.
LEMMA Posted ==
  ASSUME ThreadType, NEW kind \in {"connect", "cancel", "attach", "detach"},
         NEW d \in Devices, Post(kind, d)
  PROVE  /\ queue' \in Seq(Runnables)
         /\ Range(queue') \subseteq
               Range(queue) \union {[kind |-> kind, dev |-> d]}
<1>1. [kind |-> kind, dev |-> d] \in Runnables
  BY DEF Runnables
<1> QED
  BY <1>1, Appended DEF ThreadType, Post

\* What is new in the queue, and why.
MayBePosted(r) ==
    \/ r.kind \in {"cancel", "attach"}
    \/ r.kind = "connect" /\ r.dev \in Devices /\ Allowed(r.dev) /\ UNCHANGED usb
    \/ r.kind = "detach" /\ ProcessDettach /\ r.dev = main.dev

QueueGrows ==
    /\ queue' \in Seq(Runnables)
    /\ \A r \in Range(queue') : r \in Range(queue) \/ MayBePosted(r)

\* A runnable is in the queue for one of these reasons.
LEMMA QueueStep ==
  ASSUME TypeOK, PermissionInv, [Next]_vars PROVE QueueGrows
<1>0. WorldType /\ ThreadType
  BY DEF TypeOK
<1>1. CASE UNCHANGED queue
  BY <1>0, <1>1 DEF QueueGrows, ThreadType
<1>2. ASSUME NEW kind \in {"connect", "cancel", "attach", "detach"},
             NEW d \in Devices, Post(kind, d),
             MayBePosted([kind |-> kind, dev |-> d])
      PROVE  QueueGrows
  BY <1>0, <1>2, Posted DEF QueueGrows
<1>3. ASSUME NEW d \in Devices, ProcessCancel(d) PROVE QueueGrows
  <2>1. CASE UNCHANGED queue
    BY <1>1, <2>1
  <2>2. CASE Post("cancel", d)
    BY <1>2, <2>2 DEF MayBePosted
  <2> QED
    BY <1>3, <2>1, <2>2 DEF ProcessCancel
<1>4. ASSUME NEW d \in Devices, ProcessConnect(d), Allowed(d), UNCHANGED usb
      PROVE  QueueGrows
  <2>1. CASE UNCHANGED queue
    BY <1>1, <2>1
  <2>2. CASE Post("connect", d)
    BY <1>2, <1>4, <2>2 DEF MayBePosted
  <2> QED
    BY <1>4, <2>1, <2>2 DEF ProcessConnect
<1>5. CASE ReceivePermission
  <2>1. Head(inbox) \in Broadcasts /\ Head(inbox) \in Range(inbox)
    BY <1>0, <1>5, Taken DEF ReceivePermission, WorldType
  <2>2. Head(inbox).dev \in Devices
    BY <2>1 DEF Broadcasts
  <2>3. Head(inbox).kind = "granted" => Allowed(Head(inbox).dev)
    BY <2>1 DEF PermissionInv
  <2>4. UNCHANGED usb
    BY <1>5 DEF ReceivePermission, mainKeeps, worldVars
  <2> QED
    BY <1>3, <1>4, <1>5, <2>2, <2>3, <2>4 DEF ReceivePermission
<1>6. CASE ProcessDettach
  <2>1. main.dev \in Devices /\ Post("detach", main.dev)
    BY <1>6 DEF ProcessDettach, PermissionInv
  <2> QED
    BY <1>2, <1>6, <2>1 DEF MayBePosted
<1>7. CASE DestroyClears
  BY <1>7, Emptied DEF DestroyClears, QuitLooper, QueueGrows
<1>8. CASE HandlerTakes
  BY <1>0, <1>8, Taken DEF HandlerTakes, QueueGrows, ThreadType
<1>9. CASE CheckPosts
  <2>1. CASE \E d \in seen : Post("attach", d)
    <3>1. PICK d \in Devices : Post("attach", d)
      BY <1>0, <2>1 DEF ThreadType
    <3> QED
      BY <1>2, <3>1 DEF MayBePosted
  <2> QED
    BY <1>1, <1>9, <2>1 DEF CheckPosts
<1>10. CASE \E d \in Devices : RequestPermission(d)
  <2>1. PICK d \in Devices : RequestPermission(d)
    BY <1>10
  <2>2. UNCHANGED usb
    BY <2>1 DEF RequestPermission
  <2>3. \/ UNCHANGED queue \/ ProcessCancel(d)
        \/ d \in granted /\ ProcessConnect(d)
    BY <2>1 DEF RequestPermission
  <2> QED
    BY <1>1, <1>3, <1>4, <2>2, <2>3 DEF Allowed
<1>11. \/ ReceivePermission \/ ProcessDettach \/ DestroyClears \/ HandlerTakes
       \/ CheckPosts \/ \E d \in Devices : RequestPermission(d)
       \/ UNCHANGED queue
  BY DEF Next, System, MainRuns, HandlerRuns, ClientRuns, Application, vars,
         looperVars, clientKeeps, Register, Unregister, ReceiveDetached,
         MainCloses, MainForgets, DestroyMarks, DestroyRemoves, CheckBegins,
         ConnectGets, ConnectCreates, ConnectPuts, ConnectTells, CheckLists,
         CheckCompares, CheckCounts, OpenDevice, CameraOpens, ClientCloses,
         ClientForgets, ClientCreates, ClientPuts, HasPermission, ContextGone,
         contextVars
<1> QED
  BY <1>1, <1>5, <1>6, <1>7, <1>8, <1>9, <1>10, <1>11

\* A thread record whose parts have their types.
LEMMA ThreadRecord ==
  ASSUME NEW points, NEW p \in points, NEW d \in Devices \union {None},
         NEW b \in Nat
  PROVE  [at |-> p, dev |-> d, blk |-> b] \in Thread(points)
  BY DEF Thread

\* The main thread keeps its type.
LEMMA MainStep ==
  ASSUME TypeOK, [Next]_vars PROVE main' \in Thread(MainPoints)
<1>0. WorldType /\ BlockType /\ ThreadType
  BY DEF TypeOK
<1>1. CASE UNCHANGED main
  BY <1>0, <1>1 DEF ThreadType
<1>2. ASSUME NEW p \in MainPoints, main' = [main EXCEPT !.at = p]
      PROVE  main' \in Thread(MainPoints)
  BY <1>0, <1>2 DEF ThreadType, Thread
<1>3. CASE main' = Idle
  BY <1>3 DEF Idle, Thread, MainPoints
<1>4. CASE Unregister
  BY <1>4 DEF Unregister, Idle, Thread, MainPoints
<1>5. CASE ReceiveDetached
  <2>0. Head(inbox) \in Broadcasts
    BY <1>0, <1>5, Taken DEF ReceiveDetached, WorldType
  <2>1. Head(inbox).dev \in Devices
    BY <2>0 DEF Broadcasts
  <2>2. map[Head(inbox).dev] \in Nat
    BY <1>0, <2>1, LenProperties DEF BlockType
  <2>3. RemovedIsClosed \in MainPoints
    BY DEF RemovedIsClosed, MainPoints
  <2> QED
    BY <1>5, <2>1, <2>2, <2>3, ThreadRecord DEF ReceiveDetached
<1>6. CASE MainCloses \/ MainForgets \/ DestroyMarks
  <2>1. \/ main' = Idle
        \/ \E p \in MainPoints : main' = [main EXCEPT !.at = p]
    BY <1>6
    DEF MainCloses, MainForgets, DestroyMarks, GoMain, AfterClose, MainPoints
  <2> QED
    BY <1>2, <1>3, <2>1
<1>7. CASE DestroyRemoves
  <2>1. CASE \E d \in Devices :
               main' = [at |-> "close", dev |-> d, blk |-> map[d]]
    <3>1. PICK d \in Devices :
              main' = [at |-> "close", dev |-> d, blk |-> map[d]]
      BY <2>1
    <3>2. map[d] \in Nat
      BY <1>0, LenProperties DEF BlockType
    <3> QED
      BY <3>1, <3>2 DEF Thread, MainPoints
  <2>2. CASE main' = [main EXCEPT !.at = "clear"]
    BY <1>2, <2>2 DEF MainPoints
  <2> QED
    BY <1>7, <2>1, <2>2 DEF DestroyRemoves, GoMain
<1>8. \/ Unregister \/ ReceiveDetached \/ DestroyRemoves
      \/ MainCloses \/ MainForgets \/ DestroyMarks
      \/ main' = Idle \/ UNCHANGED main
  BY MainMoves
<1> QED
  BY <1>1, <1>3, <1>4, <1>5, <1>6, <1>7, <1>8

HandlerPoints == {"idle"} \union CheckPoints \union ConnectPoints

\* The handler thread keeps its type.
LEMMA HandStep ==
  ASSUME TypeOK, PermissionInv, [Next]_vars PROVE hand' \in Thread(HandlerPoints)
<1>0. WorldType /\ BlockType /\ ThreadType /\ Len(blocks) \in Nat
      /\ hand \in Thread(HandlerPoints)
  BY LenProperties DEF TypeOK, BlockType, ThreadType, HandlerPoints
<1>1. CASE UNCHANGED hand
  BY <1>0, <1>1
<1>2. ASSUME NEW p \in HandlerPoints, hand' = [hand EXCEPT !.at = p]
      PROVE  hand' \in Thread(HandlerPoints)
  BY <1>0, <1>2 DEF Thread
<1>3. CASE hand' = Idle
  BY <1>3 DEF Idle, Thread, HandlerPoints
<1>4. CASE HandlerTakes
  <2>1. Head(queue) \in Runnables
    BY <1>0, <1>4, Taken DEF HandlerTakes, ThreadType
  <2>2. Head(queue).dev \in Devices
    BY <2>1 DEF Runnables
  <2>3. hand' \in {Idle, [at |-> "get", dev |-> Head(queue).dev, blk |-> 0]}
    BY <1>4 DEF HandlerTakes
  <2>4. "get" \in HandlerPoints
    BY DEF HandlerPoints, ConnectPoints
  <2> QED
    BY <1>3, <2>2, <2>3, <2>4, ThreadRecord
<1>5. CASE CheckBegins
  <2>1. hand' \in {Idle, [Idle EXCEPT !.at = "list"]}
    BY <1>5 DEF CheckBegins
  <2>2. [Idle EXCEPT !.at = "list"] \in Thread(HandlerPoints)
    BY DEF Idle, Thread, HandlerPoints, CheckPoints
  <2> QED
    BY <1>3, <2>1, <2>2
<1>6. CASE ConnectGets
  <2>1. hand.dev \in Devices
    BY <1>6 DEF ConnectGets, PermissionInv, ConnectPoints
  <2>2. map[hand.dev] \in Nat
    BY <1>0, <2>1 DEF BlockType
  <2>3. PICK p \in {"create", "tell"} :
            hand' = [hand EXCEPT !.at = p, !.blk = map[hand.dev]]
    BY <1>6 DEF ConnectGets
  <2>4. p \in HandlerPoints
    BY DEF HandlerPoints, ConnectPoints, CreatePoints
  <2> QED
    BY <1>0, <2>2, <2>3, <2>4 DEF Thread
<1>7. CASE ConnectCreates
  <2>1. \/ \E p \in {"info", "put"} :
              hand' = [hand EXCEPT !.at = p, !.blk = Len(blocks) + 1]
        \/ hand' = [hand EXCEPT !.at = "put"]
    BY <1>7 DEF ConnectCreates, Constructed, Created
  <2>2. {"info", "put"} \subseteq HandlerPoints /\ Len(blocks) + 1 \in Nat
    BY <1>0 DEF HandlerPoints, ConnectPoints, CreatePoints
  <2>3. CASE \E p \in {"info", "put"} :
                hand' = [hand EXCEPT !.at = p, !.blk = Len(blocks) + 1]
    BY <1>0, <2>2, <2>3 DEF Thread
  <2> QED
    BY <1>2, <2>1, <2>2, <2>3
<1>8. CASE \E p \in {"tell", "permit", "count", "announce"} :
              hand' = [hand EXCEPT !.at = p]
  BY <1>2, <1>8 DEF HandlerPoints, CheckPoints, ConnectPoints
<1>9. \/ HandlerTakes \/ CheckBegins \/ ConnectGets \/ ConnectCreates
      \/ hand' = Idle \/ UNCHANGED hand
      \/ \E p \in {"tell", "permit", "count", "announce"} :
            hand' = [hand EXCEPT !.at = p]
  BY DEF Next, System, MainRuns, HandlerRuns, ClientRuns, Application, vars,
         mainKeeps, clientKeeps, Register, Unregister, ReceivePermission,
         ReceiveDetached, MainCloses, MainForgets, ProcessDettach,
         DestroyMarks, DestroyRemoves, DestroyClears, ConnectPuts,
         ConnectTells, CheckLists, CheckCompares, CheckCounts, CheckPosts,
         GoHandler, RequestPermission, OpenDevice, CameraOpens, ClientCloses,
         ClientForgets, ClientCreates, ClientPuts, HasPermission, ContextGone,
         contextVars
<1> QED
  BY <1>1, <1>3, <1>4, <1>5, <1>6, <1>7, <1>8, <1>9

\* The application's thread keeps its type.
LEMMA ClientStep ==
  ASSUME TypeOK, [Next]_vars PROVE client' \in Thread(ClientPoints)
<1>0. BlockType /\ Len(blocks) \in Nat /\ client \in Thread(ClientPoints)
  BY LenProperties DEF TypeOK, BlockType, ThreadType
<1>1. CASE UNCHANGED client
  BY <1>0, <1>1
<1>2. CASE client' = Idle
  BY <1>2 DEF Idle, Thread, ClientPoints
<1>3. CASE \E b \in 1..Len(blocks) :
              client' = [at |-> "forget", dev |-> None, blk |-> b]
  BY <1>0, <1>3 DEF Thread, ClientPoints
<1>4. CASE \E d \in Devices :
              client' = [at |-> "create", dev |-> d, blk |-> 0]
  BY <1>0, <1>4 DEF Thread, ClientPoints, CreatePoints
<1>5. CASE ClientCreates
  <2>1. \/ \E p \in {"info", "put"} :
              client' = [client EXCEPT !.at = p, !.blk = Len(blocks) + 1]
        \/ client' = [client EXCEPT !.at = "put"]
    BY <1>5 DEF ClientCreates, Constructed, Created
  <2>2. {"info", "put"} \subseteq ClientPoints /\ Len(blocks) + 1 \in Nat
    BY <1>0 DEF ClientPoints, CreatePoints
  <2> QED
    BY <1>0, <2>1, <2>2 DEF Thread
<1>6. \/ ClientCreates \/ client' = Idle \/ UNCHANGED client
      \/ \E b \in 1..Len(blocks) :
            client' = [at |-> "forget", dev |-> None, blk |-> b]
      \/ \E d \in Devices :
            client' = [at |-> "create", dev |-> d, blk |-> 0]
  BY ClientMoves
<1> QED
  BY <1>1, <1>2, <1>3, <1>4, <1>5, <1>6

\* The timers, the quit flag and the check's list.
LEMMA LooperStep ==
  ASSUME TypeOK, [Next]_vars
  PROVE  timers' \in Nat /\ quit' \in BOOLEAN /\ crashed' \in BOOLEAN
<1>0. timers \in Nat /\ quit \in BOOLEAN /\ crashed \in BOOLEAN
  BY DEF TypeOK, ThreadType
<1>1. /\ \/ timers' \in {0, timers, timers + 1}
         \/ timers > 0 /\ timers' = timers - 1
      /\ UNCHANGED quit \/ quit' = TRUE
  BY DEF Next, System, MainRuns, HandlerRuns, ClientRuns, Application, vars,
         looperVars, clientKeeps, Register, Unregister, RemoveCheck,
         ReceivePermission, QuitLooper, ReceiveDetached, MainCloses,
         MainForgets, ProcessDettach, DestroyMarks, DestroyRemoves,
         DestroyClears, HandlerTakes, CheckBegins, ConnectGets, ConnectCreates,
         ConnectPuts, ConnectTells, CheckLists, CheckCompares, CheckCounts,
         CheckPosts, RequestPermission, OpenDevice, CameraOpens, ClientCloses,
         ClientForgets, ClientPuts, ClientCreates, HasPermission, ContextGone,
         contextVars
<1>2. UNCHANGED crashed \/ ConnectCreates \/ ClientCreates \/ CheckLists
      \/ CheckCompares
  BY DEF Next, System, MainRuns, HandlerRuns, ClientRuns, Application, vars,
         mainKeeps, Register, Unregister, ReceivePermission, ReceiveDetached,
         MainCloses, MainForgets, ProcessDettach, DestroyMarks, DestroyRemoves,
         DestroyClears, HandlerTakes, CheckBegins, ConnectGets, ConnectPuts,
         ConnectTells, CheckCounts, CheckPosts, RequestPermission, OpenDevice,
         CameraOpens, ClientCloses, ClientForgets, ClientPuts, HasPermission,
         ContextGone, contextVars
<1>3. ConnectCreates \/ ClientCreates => crashed' \in BOOLEAN
  BY DEF ConnectCreates, ClientCreates, Constructs
<1>4. CheckLists \/ CheckCompares => crashed' \in BOOLEAN
  BY DEF CheckLists, CheckCompares, TypeOK, WorldType
<1>5. quit' \in BOOLEAN
  BY <1>0, <1>1
<1>6. crashed' \in BOOLEAN
  BY <1>0, <1>2, <1>3, <1>4
<1> QED
  BY <1>0, <1>1, <1>5, <1>6

\* The check's list, and what was announced, are devices.
LEMMA SeenStep ==
  ASSUME TypeOK, [Next]_vars
  PROVE  seen' \subseteq Devices /\ announced' \subseteq Devices
<1>0. seen \subseteq Devices /\ announced \subseteq Devices
  BY DEF TypeOK, ThreadType
<1>1. UNCHANGED announced \/ HandlerTakes
  BY DEF Next, System, MainRuns, HandlerRuns, ClientRuns, Application, vars,
         mainKeeps, clientKeeps, Register, Unregister, ReceivePermission,
         ReceiveDetached, MainCloses, MainForgets, ProcessDettach,
         DestroyMarks, DestroyRemoves, DestroyClears, CheckBegins, ConnectGets,
         ConnectCreates, ConnectPuts, ConnectTells, CheckLists, CheckCompares,
         CheckCounts, CheckPosts, RequestPermission, OpenDevice, CameraOpens,
         ClientCloses, ClientForgets, ClientPuts, ClientCreates, HasPermission,
         ContextGone, contextVars
<1>2. ASSUME HandlerTakes PROVE announced' \subseteq Devices
  <2>1. Head(queue) \in Runnables
    BY <1>2, Taken DEF HandlerTakes, TypeOK, ThreadType
  <2>2. Head(queue).dev \in Devices
    BY <2>1 DEF Runnables
  <2> QED
    BY <1>0, <1>2, <2>2 DEF HandlerTakes
<1>3. seen' \subseteq seen \/ seen' = Attached
  BY DEF Next, System, MainRuns, HandlerRuns, ClientRuns, Application, vars,
         mainKeeps, clientKeeps, Register, Unregister, ReceivePermission,
         ReceiveDetached, MainCloses, MainForgets, ProcessDettach,
         DestroyMarks, DestroyRemoves, DestroyClears, HandlerTakes,
         CheckBegins, ConnectGets, ConnectCreates, ConnectPuts, ConnectTells,
         CheckLists, CheckCompares, CheckCounts, CheckPosts, RequestPermission,
         OpenDevice, CameraOpens, ClientCloses, ClientForgets, ClientPuts,
         ClientCreates, HasPermission, ContextGone, contextVars
<1> QED
  BY <1>0, <1>1, <1>2, <1>3 DEF Attached

\* What happened at the same time is remembered.
LEMMA RacesStep ==
  ASSUME TypeOK, [Next]_vars
  PROVE  races \subseteq races' /\ races' \subseteq {"count", "connect"}
<1>0. races \subseteq {"count", "connect"}
  BY DEF TypeOK, ThreadType
<1>1. \/ UNCHANGED races
      \/ \E what \in SUBSET {"count", "connect"} : Race(what)
  BY DEF Next, System, MainRuns, HandlerRuns, ClientRuns, Application, vars,
         handlerKeeps, clientKeeps, Register, Unregister, ReceivePermission,
         ReceiveDetached, MainCloses, MainForgets, ProcessDettach,
         DestroyMarks, DestroyRemoves, DestroyClears, HandlerTakes,
         CheckBegins, ConnectGets, ConnectCreates, ConnectPuts, ConnectTells,
         CheckLists, CheckCompares, CheckCounts, CheckPosts, RequestPermission,
         OpenDevice, CameraOpens, ClientCloses, ClientForgets, ClientPuts,
         ClientCreates, Counting, Creating, HasPermission,
         ContextGone, contextVars
<1> QED
  BY <1>0, <1>1 DEF Race

\* Every step keeps the types.
LEMMA TypeStep ==
  ASSUME TypeOK, PermissionInv, HasBlock, [Next]_vars PROVE TypeOK'
<1>1. WorldType' /\ BlockType'
  BY WorldStep, BlockStep
<1>2. queue' \in Seq(Runnables)
  BY QueueStep DEF QueueGrows
<1> QED
  BY <1>1, <1>2, MainStep, HandStep, ClientStep, LooperStep, SeenStep,
     RacesStep
  DEF TypeOK, ThreadType, HandlerPoints

----------------------------------------------------------------------------
(***************************************************************************)
(* Permissions, and the block a thread is at work with.                    *)
(***************************************************************************)
\* A device that is gone stays so, and permission ends only with the device.
LEMMA GoneStays ==
  ASSUME TypeOK, PermissionInv, [Next]_vars, NEW d \in Devices
  PROVE  /\ Gone(d) => Gone(d)'
         /\ Allowed(d) => Allowed(d)'
         /\ d \in granted' => usb'[d] = "in"
<1>0. /\ usb \in [Devices -> {"new", "in", "out"}] /\ granted \subseteq Devices
      /\ \A e \in granted : usb[e] = "in"
  BY DEF TypeOK, WorldType, PermissionInv
<1>1. CASE UNCHANGED <<usb, granted>>
  BY <1>0, <1>1 DEF Gone, Allowed
<1>2. CASE \E e \in Devices : Plug(e) \/ Unplug(e) \/ UserAnswers(e)
  BY <1>0, <1>2 DEF Gone, Allowed, Plug, Unplug, UserAnswers
<1>3. \/ \E e \in Devices : Plug(e) \/ Unplug(e) \/ UserAnswers(e)
      \/ UNCHANGED <<usb, granted>>
  BY DEF Next, System, MainRuns, HandlerRuns, ClientRuns, Application, vars,
         worldVars, mainKeeps, handlerKeeps, clientKeeps, Register, Unregister,
         ReceivePermission, ReceiveDetached, MainCloses, MainForgets,
         ProcessDettach, DestroyMarks, DestroyRemoves, DestroyClears,
         HandlerTakes, CheckBegins, ConnectGets, ConnectCreates, ConnectPuts,
         ConnectTells, CheckLists, CheckCompares, CheckCounts, CheckPosts,
         RequestPermission, OpenDevice, CameraOpens, ClientCloses,
         ClientForgets, ClientPuts, ClientCreates, HasPermission, ContextGone,
         contextVars
<1> QED
  BY <1>1, <1>2, <1>3

\* What a broadcast says is so.
Right(m) == IF m.kind = "detached" THEN Gone(m.dev)
            ELSE m.kind = "granted" => Allowed(m.dev)

\* What is broadcast is so, and stays so.
LEMMA InboxStep ==
  ASSUME TypeOK, PermissionInv, [Next]_vars
  PROVE  \A m \in Range(inbox') : Right(m)'
<1>0. WorldType /\ inbox \in Seq(Broadcasts)
  BY DEF TypeOK, WorldType
<1>1. \A m \in Range(inbox) : m \in Broadcasts /\ m.dev \in Devices
  <2>1. Range(inbox) \subseteq Broadcasts
    <3>1. Range(inbox) = {inbox[i] : i \in 1..Len(inbox)}
      BY <1>0, RangeEquality
    <3> QED
      BY <1>0, <3>1, ElementOfSeq
  <2> QED
    BY <2>1 DEF Broadcasts
<1>2. \A m \in Range(inbox) : Right(m)'
  BY <1>1, GoneStays DEF PermissionInv, Allowed, Gone, Right
<1>3. CASE Range(inbox') \subseteq Range(inbox)
  BY <1>2, <1>3
<1>4. ASSUME NEW kind \in {"granted", "denied", "detached"}, NEW d \in Devices,
             Broadcast(kind, d), Right([kind |-> kind, dev |-> d])'
      PROVE  \A m \in Range(inbox') : Right(m)'
  <2>1. [kind |-> kind, dev |-> d] \in Broadcasts
    BY DEF Broadcasts
  <2>2. Range(inbox') \subseteq Range(inbox) \union {[kind |-> kind, dev |-> d]}
    BY <1>0, <1>4, <2>1, Appended DEF Broadcast
  <2> QED
    BY <1>2, <1>4, <2>2
<1>5. CASE \E d \in Devices : Unplug(d)
  <2>1. PICK d \in Devices : Unplug(d)
    BY <1>5
  <2>2. Gone(d)'
    BY <1>0, <2>1 DEF Unplug, Gone, WorldType
  <2> QED
    BY <1>4, <2>1, <2>2 DEF Unplug, Right
<1>6. CASE \E d \in Devices : UserAnswers(d)
  <2>1. PICK d \in Devices : UserAnswers(d)
    BY <1>6
  <2>2. CASE d \in granted' /\ Broadcast("granted", d)
    BY <1>4, <2>2 DEF Right, Allowed
  <2>3. CASE Broadcast("denied", d)
    BY <1>4, <2>3 DEF Right
  <2> QED
    BY <2>1, <2>2, <2>3 DEF UserAnswers
<1>7. CASE inbox' = <<>>
  BY <1>7, <1>3, Emptied
<1>8. CASE ReceivePermission \/ ReceiveDetached
  BY <1>0, <1>3, <1>8, Taken DEF ReceivePermission, ReceiveDetached
<1>9. \/ \E d \in Devices : Unplug(d) \/ UserAnswers(d)
      \/ inbox' = <<>> \/ ReceivePermission \/ ReceiveDetached
      \/ UNCHANGED inbox
  BY DEF Next, System, Plug, MainRuns, HandlerRuns, ClientRuns, Application,
         vars, handlerKeeps, clientKeeps, Register, Unregister, MainCloses,
         MainForgets, ProcessDettach, DestroyMarks, DestroyRemoves,
         DestroyClears, HandlerTakes, CheckBegins, ConnectGets, ConnectCreates,
         ConnectPuts, ConnectTells, CheckLists, CheckCompares, CheckCounts,
         CheckPosts, RequestPermission, OpenDevice, CameraOpens, ClientCloses,
         ClientForgets, ClientPuts, ClientCreates, HasPermission, ContextGone,
         contextVars
<1> QED
  BY <1>3, <1>5, <1>6, <1>7, <1>8, <1>9

\* What the queue holds is of its type.
LEMMA Queued ==
  ASSUME ThreadType
  PROVE  \A r \in Range(queue) : r \in Runnables /\ r.dev \in Devices
<1>1. Range(queue) = {queue[i] : i \in 1..Len(queue)}
  BY RangeEquality DEF ThreadType
<1>2. \A r \in Range(queue) : r \in Runnables
  BY <1>1, ElementOfSeq DEF ThreadType
<1> QED
  BY <1>2 DEF Runnables

\* The handler thread connects to devices that were allowed.
LEMMA HandPermission ==
  ASSUME TypeOK, PermissionInv, [Next]_vars, hand'.at \in ConnectPoints
  PROVE  hand'.dev \in Devices /\ Allowed(hand.dev)'
<1>0. hand \in Thread(HandlerPoints)
  BY DEF TypeOK, ThreadType, HandlerPoints
<1>1. CASE hand'.dev = hand.dev /\ hand.at \in ConnectPoints
  BY <1>1, GoneStays DEF PermissionInv, Allowed, Gone
<1>2. CASE HandlerTakes
  <2>1. Head(queue) \in Runnables /\ Head(queue) \in Range(queue)
    BY <1>2, Taken DEF HandlerTakes, TypeOK, ThreadType
  <2>2. Head(queue).dev \in Devices
    BY <2>1 DEF Runnables
  <2>3. Head(queue).kind = "connect" /\ hand'.dev = Head(queue).dev
    BY <1>2 DEF HandlerTakes, Idle, ConnectPoints, CreatePoints
  <2> QED
    BY <2>1, <2>2, <2>3, GoneStays DEF PermissionInv, Allowed, Gone
<1>3. CASE hand' = Idle \/ \E p \in CheckPoints : hand'.at = p
  BY <1>3 DEF Idle, ConnectPoints, CreatePoints, CheckPoints
<1>4. CASE ConnectGets \/ ConnectCreates \/ ConnectPuts
  BY <1>0, <1>1, <1>4
  DEF ConnectGets, ConnectCreates, ConnectPuts, GoHandler, Thread, Constructs,
      Constructed, ConnectPoints, CreatePoints
<1>5. CASE CheckBegins \/ CheckLists \/ CheckCompares \/ CheckCounts
  BY <1>0, <1>3, <1>5
  DEF CheckBegins, CheckLists, CheckCompares, CheckCounts, GoHandler,
      CheckPoints, Idle, Thread
<1>6. \/ HandlerTakes \/ ConnectGets \/ ConnectCreates \/ ConnectPuts
      \/ CheckBegins \/ CheckLists \/ CheckCompares \/ CheckCounts
      \/ hand' = Idle \/ UNCHANGED hand
  BY HandMoves
<1> QED
  BY <1>1, <1>2, <1>3, <1>4, <1>5, <1>6

\* openDevice does too.
LEMMA ClientPermission ==
  ASSUME TypeOK, PermissionInv, [Next]_vars, client'.at \in CreatePoints
  PROVE  client'.dev \in Devices /\ Allowed(client.dev)'
<1>0. client \in Thread(ClientPoints)
  BY DEF TypeOK, ThreadType
<1>1. CASE client'.dev = client.dev /\ client.at \in CreatePoints
  BY <1>1, GoneStays DEF PermissionInv, Allowed, Gone
<1>2. CASE \E d \in Devices : OpenDevice(d)
  <2>1. PICK d \in Devices : OpenDevice(d)
    BY <1>2
  <2>2. CASE client' = [at |-> "create", dev |-> d, blk |-> 0]
    <3>1. Allowed(d)
      BY <2>1, <2>2 DEF OpenDevice, Allowed
    <3> QED
      BY <2>2, <3>1, GoneStays DEF Allowed, Gone
  <2> QED
    BY <1>1, <2>1, <2>2 DEF OpenDevice
<1>3. CASE client'.at \in {"idle", "forget"}
  BY <1>3 DEF CreatePoints
<1>4. CASE ClientCreates
  BY <1>0, <1>1, <1>4
  DEF ClientCreates, Constructs, Constructed, Thread, CreatePoints
<1>5. \/ ClientCreates \/ client' = Idle \/ UNCHANGED client
      \/ \E b \in 1..Len(blocks) : ClientCloses(b)
      \/ \E d \in Devices : OpenDevice(d)
  BY ClientMoves
<1>6. CASE \E b \in 1..Len(blocks) : ClientCloses(b)
  BY <1>1, <1>3, <1>6 DEF ClientCloses
<1>7. CASE client' = Idle
  BY <1>3, <1>7 DEF Idle
<1> QED
  BY <1>1, <1>2, <1>4, <1>5, <1>6, <1>7

\* The main thread closes for a device that is gone, or for destroy.
LEMMA MainPermission ==
  ASSUME TypeOK, PermissionInv, DestroyInv, [Next]_vars,
         main'.at \in {"close", "forget", "detached"}
  PROVE  main'.dev \in Devices /\ (destroyed' \/ Gone(main.dev)')
<1>0. main \in Thread(MainPoints) /\ destroyed \in BOOLEAN
  BY DEF TypeOK, ThreadType, WorldType
<1>d. destroyed => destroyed'
  BY <1>0
  DEF Next, System, MainRuns, HandlerRuns, ClientRuns, Application, vars, Idle,
      clientKeeps, handlerKeeps, Register, Unregister, ReceivePermission,
      ReceiveDetached, MainCloses, MainForgets, ProcessDettach, DestroyMarks,
      DestroyRemoves, DestroyClears, HandlerTakes, CheckBegins, ConnectGets,
      ConnectCreates, ConnectPuts, ConnectTells, CheckLists, CheckCompares,
      CheckCounts, CheckPosts, RequestPermission, OpenDevice, CameraOpens,
      ClientCloses, ClientForgets, ClientPuts, ClientCreates, HasPermission,
      ContextGone, contextVars
<1>1. CASE main'.dev = main.dev /\ main.at \in {"close", "forget", "detached"}
  BY <1>1, <1>d, GoneStays DEF PermissionInv, Gone
<1>2. CASE main'.at \in {"idle", "mark", "next", "clear"}
  BY <1>2
<1>3. CASE ReceiveDetached
  <2>1. Head(inbox) \in Broadcasts /\ Head(inbox) \in Range(inbox)
    BY <1>3, Taken DEF ReceiveDetached, TypeOK, WorldType
  <2>2. Head(inbox).dev \in Devices
    BY <2>1 DEF Broadcasts
  <2>3. Head(inbox).kind = "detached" /\ main'.dev = Head(inbox).dev
    BY <1>3 DEF ReceiveDetached
  <2> QED
    BY <2>1, <2>2, <2>3, GoneStays DEF PermissionInv, Allowed, Gone
<1>4. CASE MainCloses \/ MainForgets
  BY <1>0, <1>1, <1>2, <1>4
  DEF MainCloses, MainForgets, GoMain, Thread, AfterClose
<1>5. CASE DestroyRemoves
  <2>1. destroyed
    BY <1>5 DEF DestroyRemoves, DestroyInv
  <2>2. main'.at = "clear" \/ main'.dev \in Devices
    BY <1>0, <1>5 DEF DestroyRemoves, GoMain, Thread
  <2> QED
    BY <1>2, <1>d, <2>1, <2>2
<1>6. CASE DestroyMarks
  BY <1>0, <1>2, <1>6 DEF DestroyMarks, GoMain, Idle, Thread
<1>7. CASE Unregister
  BY <1>2, <1>7 DEF Unregister, Idle
<1>8. CASE main' = Idle
  BY <1>2, <1>8 DEF Idle
<1>9. \/ Unregister \/ ReceiveDetached \/ DestroyRemoves
      \/ MainCloses \/ MainForgets \/ DestroyMarks
      \/ main' = Idle \/ UNCHANGED main
  BY MainMoves
<1> QED
  BY <1>1, <1>3, <1>4, <1>5, <1>6, <1>7, <1>8, <1>9

\* Every step keeps the permissions right.
LEMMA PermissionStep ==
  ASSUME TypeOK, PermissionInv, DestroyInv, [Next]_vars PROVE PermissionInv'
<1>1. \A d \in granted' : usb'[d] = "in"
  BY WorldStep, GoneStays DEF WorldType
<1>2. \A r \in Range(queue') : r.kind = "connect" => Allowed(r.dev)'
  <2> SUFFICES ASSUME NEW r \in Range(queue'), r.kind = "connect"
               PROVE  Allowed(r.dev)'
    OBVIOUS
  <2>1. r \in Range(queue) \/ MayBePosted(r)
    BY QueueStep DEF QueueGrows
  <2>2. r.dev \in Devices /\ Allowed(r.dev)
    BY <2>1, Queued DEF TypeOK, PermissionInv, MayBePosted
  <2> QED
    BY <2>2, GoneStays
<1> QED
  BY <1>1, <1>2, InboxStep, HandPermission, ClientPermission, MainPermission
  DEF PermissionInv, Right

\* The main thread closes a block that exists.
LEMMA MainHasBlock ==
  ASSUME TypeOK, PermissionInv, HasBlock, [Next]_vars,
         main'.at \in {"close", "forget"}
  PROVE  main'.blk \in 1..Len(blocks')
<1>0. /\ main \in Thread(MainPoints) /\ BlockType
      /\ 1..Len(blocks) \subseteq 1..Len(blocks')
  BY BlocksStep, IndicesGrow DEF TypeOK, ThreadType
<1>1. CASE main'.blk = main.blk /\ main.at \in {"close", "forget"}
  BY <1>0, <1>1 DEF HasBlock
<1>2. CASE main'.at \in {"idle", "mark", "next", "clear", "detached"}
  BY <1>2
<1>3. CASE ReceiveDetached
  <2>1. Head(inbox) \in Broadcasts
    BY <1>3, Taken DEF ReceiveDetached, TypeOK, WorldType
  <2>2. Head(inbox).dev \in Devices
    BY <2>1 DEF Broadcasts
  <2>3. map[Head(inbox).dev] \in {0} \union 1..Len(blocks)
    BY <1>0, <2>2 DEF BlockType
  <2>4. main'.blk = map[Head(inbox).dev] /\ main'.at = RemovedIsClosed
    BY <1>3 DEF ReceiveDetached
  <2> QED
    BY <1>0, <1>2, <2>3, <2>4 DEF RemovedIsClosed
<1>4. CASE MainCloses \/ MainForgets \/ DestroyMarks
  BY <1>0, <1>1, <1>2, <1>4
  DEF MainCloses, MainForgets, DestroyMarks, GoMain, Thread, AfterClose, Idle
<1>5. CASE DestroyRemoves
  <2>1. CASE \E d \in Devices :
               main' = [at |-> "close", dev |-> d, blk |-> map[d]]
                                /\ map[d] # 0
    BY <1>0, <2>1 DEF BlockType
  <2>2. CASE main' = [main EXCEPT !.at = "clear"]
    BY <1>0, <1>2, <2>2 DEF Thread
  <2> QED
    BY <1>5, <2>1, <2>2 DEF DestroyRemoves, GoMain
<1>6. CASE Unregister
  BY <1>2, <1>6 DEF Unregister, Idle
<1>7. CASE main' = Idle
  BY <1>2, <1>7 DEF Idle
<1>8. \/ Unregister \/ ReceiveDetached \/ DestroyRemoves
      \/ MainCloses \/ MainForgets \/ DestroyMarks
      \/ main' = Idle \/ UNCHANGED main
  BY MainMoves
<1> QED
  BY <1>1, <1>3, <1>4, <1>5, <1>6, <1>7, <1>8

\* The handler thread is at work with a block that exists.
LEMMA HandHasBlock ==
  ASSUME TypeOK, PermissionInv, HasBlock, [Next]_vars
  PROVE  /\ hand'.at \in {"info", "put", "tell"} =>
               hand'.blk \in 1..Len(blocks')
         /\ hand'.at = "create" => hand'.blk = 0
<1>0. /\ hand \in Thread(HandlerPoints) /\ BlockType
      /\ 1..Len(blocks) \subseteq 1..Len(blocks')
  BY BlocksStep, IndicesGrow DEF TypeOK, ThreadType, HandlerPoints
<1>1. CASE UNCHANGED hand
  BY <1>0, <1>1 DEF HasBlock
<1>2. CASE hand'.at \in {"idle", "get"} \union CheckPoints
  BY <1>2 DEF CheckPoints
<1>3. CASE HandlerTakes \/ CheckBegins \/ CheckLists \/ CheckCompares \/ CheckCounts
  BY <1>0, <1>2, <1>3
  DEF HandlerTakes, CheckBegins, CheckLists, CheckCompares, CheckCounts,
      GoHandler, Thread, CheckPoints, Idle
<1>4. CASE ConnectGets
  <2>1. map[hand.dev] \in {0} \union 1..Len(blocks)
    BY <1>0, <1>4 DEF ConnectGets, PermissionInv, ConnectPoints, BlockType
  <2> QED
    BY <1>0, <1>4, <2>1 DEF ConnectGets, Thread
<1>5. CASE ConnectCreates
  <2>1. CASE hand.at = "create"
    <3>1. hand'.blk = Len(blocks) + 1 /\ hand'.at \in {"info", "put"}
      BY <1>0, <1>5, <2>1 DEF ConnectCreates, Constructed, Created, Thread
    <3>2. hand.dev \in Devices /\ Create(hand.dev, FALSE)
      BY <1>5, <2>1
      DEF ConnectCreates, Constructs, PermissionInv, ConnectPoints,
          CreatePoints
    <3>3. Len(blocks') = Len(blocks) + 1 /\ Len(blocks) \in Nat
      BY <1>0, <3>2, CreatedBlock DEF BlockType
    <3> QED
      BY <3>1, <3>3
  <2>2. CASE hand.at = "info"
    BY <1>0, <1>5, <2>2 DEF ConnectCreates, Constructed, Thread, HasBlock
  <2> QED
    BY <1>5, <2>1, <2>2 DEF ConnectCreates, Constructs
<1>6. CASE ConnectPuts
  BY <1>0, <1>6 DEF ConnectPuts, GoHandler, Thread, HasBlock
<1>7. CASE hand' = Idle
  BY <1>2, <1>7 DEF Idle
<1>8. \/ HandlerTakes \/ ConnectGets \/ ConnectCreates \/ ConnectPuts
      \/ CheckBegins \/ CheckLists \/ CheckCompares \/ CheckCounts
      \/ hand' = Idle \/ UNCHANGED hand
  BY HandMoves
<1> QED
  BY <1>1, <1>3, <1>4, <1>5, <1>6, <1>7, <1>8

\* So is the application's thread.
LEMMA ClientHasBlock ==
  ASSUME TypeOK, PermissionInv, HasBlock, [Next]_vars
  PROVE  /\ client'.at \in {"info", "put", "forget"} =>
               client'.blk \in 1..Len(blocks')
         /\ client'.at = "create" => client'.blk = 0
<1>0. /\ client \in Thread(ClientPoints) /\ BlockType
      /\ 1..Len(blocks) \subseteq 1..Len(blocks')
  BY BlocksStep, IndicesGrow DEF TypeOK, ThreadType
<1>1. CASE UNCHANGED client
  BY <1>0, <1>1 DEF HasBlock
<1>2. CASE \E b \in 1..Len(blocks) :
              client' = [at |-> "forget", dev |-> None, blk |-> b]
  BY <1>0, <1>2
<1>3. CASE \E d \in Devices : client' = [at |-> "create", dev |-> d, blk |-> 0]
  BY <1>3
<1>4. CASE ClientCreates
  <2>1. CASE client.at = "create"
    <3>1. client'.blk = Len(blocks) + 1 /\ client'.at \in {"info", "put"}
      BY <1>0, <1>4, <2>1 DEF ClientCreates, Constructed, Created, Thread
    <3>2. client.dev \in Devices /\ Create(client.dev, FALSE)
      BY <1>4, <2>1 DEF ClientCreates, Constructs, PermissionInv, CreatePoints
    <3>3. Len(blocks') = Len(blocks) + 1 /\ Len(blocks) \in Nat
      BY <1>0, <3>2, CreatedBlock DEF BlockType
    <3> QED
      BY <3>1, <3>3
  <2>2. CASE client.at = "info"
    BY <1>0, <1>4, <2>2 DEF ClientCreates, Constructed, Thread, HasBlock
  <2> QED
    BY <1>4, <2>1, <2>2 DEF ClientCreates, Constructs
<1>5. CASE client' = Idle
  BY <1>5 DEF Idle
<1>6. \/ ClientCreates \/ client' = Idle \/ UNCHANGED client
      \/ \E b \in 1..Len(blocks) :
            client' = [at |-> "forget", dev |-> None, blk |-> b]
      \/ \E d \in Devices :
            client' = [at |-> "create", dev |-> d, blk |-> 0]
  BY ClientMoves
<1> QED
  BY <1>1, <1>2, <1>3, <1>4, <1>5, <1>6

\* Every step leaves each thread with its block.
LEMMA HasBlockStep ==
  ASSUME TypeOK, PermissionInv, HasBlock, [Next]_vars PROVE HasBlock'
  BY MainHasBlock, HandHasBlock, ClientHasBlock DEF HasBlock

----------------------------------------------------------------------------
(***************************************************************************)
(* The end of the monitor, and its periodic check.                         *)
(***************************************************************************)
\* Only a destroyed monitor quits, and it is not registered.
LEMMA DestroyedStep ==
  ASSUME TypeOK, DestroyInv, [Next]_vars
  PROVE  /\ main'.at \in {"next", "clear"} \/ quit' => destroyed'
         /\ main'.at = "mark" \/ destroyed' => ~registered'
<1>0. /\ main \in Thread(MainPoints) /\ destroyed \in BOOLEAN
      /\ registered \in BOOLEAN /\ quit \in BOOLEAN
      /\ main.at \in {"next", "clear"} \/ quit => destroyed
      /\ main.at = "mark" \/ destroyed => ~registered
  BY DEF TypeOK, ThreadType, WorldType, DestroyInv
<1>1. CASE UNCHANGED <<destroyed, registered, quit>>
            /\ (main'.at \in {"mark", "next", "clear"} =>
                   main'.at = main.at \/ destroyed)
  BY <1>0, <1>1
<1>2. CASE Register \/ Unregister
  BY <1>0, <1>2 DEF Register, Unregister, Idle
<1>3. CASE DestroyMarks \/ DestroyClears
  BY <1>0, <1>3
  DEF DestroyMarks, DestroyClears, QuitLooper, Idle, GoMain, Thread,
      looperVars, contextVars
<1>4. CASE ReceiveDetached \/ MainCloses \/ MainForgets \/ DestroyRemoves
  <2>1. UNCHANGED <<destroyed, registered, quit>>
    BY <1>4
    DEF ReceiveDetached, MainCloses, MainForgets, DestroyRemoves, looperVars,
        contextVars
  <2>2. main'.at \in {"mark", "next", "clear"} => destroyed
    BY <1>0, <1>4
    DEF ReceiveDetached, MainCloses, MainForgets, DestroyRemoves,
        RemovedIsClosed, AfterClose, GoMain, Thread
  <2> QED
    BY <1>1, <2>1, <2>2
<1>5. CASE main' = Idle /\ UNCHANGED <<destroyed, registered, quit>>
  BY <1>1, <1>5 DEF Idle
<1>6. \/ Register \/ Unregister \/ DestroyMarks \/ DestroyClears
      \/ ReceiveDetached \/ MainCloses \/ MainForgets \/ DestroyRemoves
      \/ (main' = Idle \/ UNCHANGED main) /\ UNCHANGED <<destroyed, registered, quit>>
  BY DEF Next, System, MainRuns, HandlerRuns, ClientRuns, Application, vars,
         handlerKeeps, clientKeeps, looperVars, ReceivePermission,
         ProcessDettach, HandlerTakes, CheckBegins, ConnectGets,
         ConnectCreates, ConnectPuts, ConnectTells, CheckLists, CheckCompares,
         CheckCounts, CheckPosts, RequestPermission, OpenDevice, CameraOpens,
         ClientCloses, ClientForgets, ClientPuts, ClientCreates, HasPermission,
         ContextGone, contextVars
<1> QED
  BY <1>1, <1>2, <1>3, <1>4, <1>5, <1>6

\* After the looper has quit nothing is entered, but what was on its way.
LEMMA QuitStep ==
  ASSUME TypeOK, PermissionInv, DestroyInv, [Next]_vars,
         quit', "connect" \notin races'
  PROVE  /\ \A d \in Devices : map'[d] = 0
         /\ hand'.at \notin {"get"} \union CreatePoints
         /\ client'.at \notin CreatePoints
<1>0. /\ hand \in Thread(HandlerPoints) /\ client \in Thread(ClientPoints)
      /\ BlockType /\ "connect" \notin races
  BY RacesStep DEF TypeOK, ThreadType, HandlerPoints
<1>1. CASE DestroyClears
  <2>1. ~(\E t \in {hand, client} : t.at \in CreatePoints /\ t.dev \in Devices)
        /\ hand.at # "get"
    BY <1>1 DEF DestroyClears, Race, Creating
  <2>2. hand.at \notin CreatePoints /\ client.at \notin CreatePoints
    BY <2>1 DEF PermissionInv, ConnectPoints
  <2>3. UNCHANGED <<hand, client>> /\ map' = [d \in Devices |-> 0]
    BY <1>1 DEF DestroyClears, mainKeeps
  <2> QED
    BY <2>1, <2>2, <2>3
<1>2. ASSUME ~DestroyClears PROVE /\ \A d \in Devices : map'[d] = 0
         /\ hand'.at \notin {"get"} \union CreatePoints
         /\ client'.at \notin CreatePoints
  <2>1. quit
    BY <1>2
    DEF Next, System, MainRuns, HandlerRuns, ClientRuns, Application, vars,
        clientKeeps, looperVars, Register, Unregister, ReceivePermission,
        ReceiveDetached, MainCloses, MainForgets, ProcessDettach, DestroyMarks,
        DestroyRemoves, HandlerTakes, CheckBegins, ConnectGets, ConnectCreates,
        ConnectPuts, ConnectTells, CheckLists, CheckCompares, CheckCounts,
        CheckPosts, RequestPermission, OpenDevice, CameraOpens, ClientCloses,
        ClientForgets, ClientPuts, ClientCreates, HasPermission, ContextGone,
        contextVars
  <2>2. /\ \A d \in Devices : map[d] = 0
        /\ hand.at \notin {"get"} \union CreatePoints
        /\ client.at \notin CreatePoints /\ destroyed
    BY <1>0, <2>1 DEF DestroyInv
  <2>3. hand'.at \notin {"get"} \union CreatePoints
    <3>1. CASE HandlerTakes \/ ConnectGets \/ ConnectCreates \/ ConnectPuts
      BY <2>1, <2>2, <3>1
      DEF HandlerTakes, ConnectGets, ConnectCreates, ConnectPuts, Constructs,
          CreatePoints
    <3>2. CASE CheckBegins \/ CheckLists \/ CheckCompares \/ CheckCounts
      BY <1>0, <2>1, <3>2
      DEF CheckBegins, CheckLists, CheckCompares, CheckCounts, GoHandler,
          Thread, CreatePoints
    <3> QED
      BY <2>2, <3>1, <3>2, HandMoves DEF Idle, CreatePoints
  <2>4. client'.at \notin CreatePoints
    <3>1. ~ClientCreates /\ \A d \in Devices : ~OpenDevice(d)
      BY <2>2 DEF ClientCreates, Constructs, OpenDevice, CreatePoints
    <3> QED
      BY <2>2, <3>1, ClientMoves DEF Idle, CreatePoints
  <2>5. \/ UNCHANGED map \/ \E d \in Devices : map' = [map EXCEPT ![d] = 0]
        \/ \E b : RemoveEntry(b)
    <3>1. ~ConnectPuts /\ ~ClientPuts
      BY <2>2 DEF ConnectPuts, ClientPuts, CreatePoints
    <3>2. ReceiveDetached => \E d \in Devices : map' = [map EXCEPT ![d] = 0]
      <4>1. ReceiveDetached => Head(inbox) \in Broadcasts
        BY Taken DEF ReceiveDetached, TypeOK, WorldType
      <4> QED
        BY <4>1 DEF ReceiveDetached, Broadcasts
    <3>3. DestroyRemoves => \/ UNCHANGED map
                            \/ \E d \in Devices : map' = [map EXCEPT ![d] = 0]
      BY DEF DestroyRemoves
    <3> QED
      BY <1>2, <3>1, <3>2, <3>3
      DEF Next, System, MainRuns, HandlerRuns, ClientRuns, Application, vars,
          blockVars, entryVars, Register, Unregister, ReceivePermission,
          MainCloses, MainForgets, ProcessDettach, DestroyMarks, HandlerTakes,
          CheckBegins, ConnectGets, ConnectCreates, ConnectTells, CheckLists,
          CheckCompares, CheckCounts, CheckPosts, RequestPermission,
          OpenDevice, CameraOpens, ClientCloses, ClientForgets, ClientCreates,
          HasPermission, ContextGone, contextVars
  <2>6. \A d \in Devices : map'[d] = 0
    BY <1>0, <2>2, <2>5 DEF RemoveEntry, BlockType
  <2> QED
    BY <2>3, <2>4, <2>6
<1> QED
  BY <1>1, <1>2

\* Every step keeps what destroy promises.
LEMMA DestroyStep ==
  ASSUME TypeOK, PermissionInv, DestroyInv, [Next]_vars PROVE DestroyInv'
  BY DestroyedStep, QuitStep DEF DestroyInv

\* A step that adds a check registers the monitor or leaves the check to itself.
LEMMA OneCheckStep ==
  ASSUME TypeOK, DestroyInv, OneCheck, [Next]_vars PROVE OneCheck'
<1>0. /\ timers \in Nat /\ stray \in Nat
      /\ registered \in BOOLEAN /\ destroyed \in BOOLEAN
      /\ hand \in Thread(HandlerPoints)
  BY DEF TypeOK, ThreadType, WorldType, HandlerPoints
<1>1. CASE UNCHANGED <<timers, registered, stray>>
           /\ (hand'.at \in CheckPoints => hand.at \in CheckPoints)
  BY <1>0, <1>1 DEF OneCheck, Running
<1>2. CASE Register
  <2>1. UNCHANGED hand /\ ~registered /\ timers' = timers + 1
    BY <1>2 DEF Register, mainKeeps
  <2>2. \/ registered' /\ UNCHANGED stray
        \/ stray' = stray + 1 /\ UNCHANGED registered
    BY <1>2 DEF Register
  <2> QED
    BY <1>0, <2>1, <2>2 DEF OneCheck, Running
<1>3. CASE Unregister
  <2>1. UNCHANGED hand /\ ~registered'
    BY <1>3 DEF Unregister, mainKeeps
  <2>2. /\ timers' = IF destroyed THEN timers ELSE 0
        /\ stray' = IF destroyed THEN stray ELSE Running
    BY <1>3 DEF Unregister, RemoveCheck
  <2> QED
    BY <1>0, <2>1, <2>2 DEF OneCheck, Running, DestroyInv
<1>4. CASE DestroyClears
  <2>1. UNCHANGED <<hand, registered, stray>> /\ timers' = 0
    BY <1>4 DEF DestroyClears, mainKeeps, contextVars, QuitLooper
  <2> QED
    BY <1>0, <2>1 DEF OneCheck, Running
<1>5. CASE CheckBegins
  <2>1. /\ UNCHANGED <<registered, stray>>
        /\ timers > 0 /\ timers' = timers - 1 /\ hand.at = "idle"
    BY <1>5 DEF CheckBegins, handlerKeeps, contextVars
  <2> QED
    BY <1>0, <2>1 DEF OneCheck, Running, CheckPoints
<1>6. CASE CheckPosts
  <2>1. UNCHANGED <<registered, stray>> /\ hand.at = "announce"
    BY <1>6 DEF CheckPosts, handlerKeeps, contextVars
  <2>2. \/ UNCHANGED <<timers, hand>>
        \/ timers' \in {timers, timers + 1} /\ hand' = Idle
    BY <1>6 DEF CheckPosts
  <2> QED
    BY <1>0, <2>1, <2>2 DEF OneCheck, Running, CheckPoints, Idle
<1>7. CASE CheckLists \/ CheckCompares \/ CheckCounts
  <2>1. UNCHANGED <<timers, registered, stray>>
    BY <1>7
    DEF CheckLists, CheckCompares, CheckCounts, handlerKeeps, contextVars,
        looperVars
  <2>2. hand.at \in CheckPoints
    BY <1>7 DEF CheckLists, CheckCompares, CheckCounts, CheckPoints
  <2> QED
    BY <1>1, <2>1, <2>2
<1>8. CASE ConnectCreates \/ ConnectGets \/ ConnectPuts \/ HandlerTakes
  <2>1. UNCHANGED <<timers, registered, stray>>
    BY <1>8
    DEF ConnectCreates, ConnectGets, ConnectPuts, HandlerTakes, handlerKeeps,
        contextVars, looperVars
  <2>2. hand'.at \notin CheckPoints
    <3>1. CASE ConnectCreates
      BY <1>0, <3>1
      DEF ConnectCreates, Constructs, Constructed, Thread, CheckPoints
    <3>2. CASE ConnectGets \/ ConnectPuts
      BY <1>0, <3>2
      DEF ConnectGets, ConnectPuts, GoHandler, Thread, CheckPoints
    <3>3. CASE HandlerTakes
      BY <3>3 DEF HandlerTakes, CheckPoints, Idle
    <3> QED
      BY <1>8, <3>1, <3>2, <3>3
  <2> QED
    BY <1>1, <2>1, <2>2
<1>9. CASE hand' = Idle /\ UNCHANGED <<timers, registered, stray>>
  BY <1>1, <1>9 DEF Idle, CheckPoints
<1>10. \/ Register \/ Unregister \/ DestroyClears \/ CheckBegins \/ CheckPosts
       \/ CheckLists \/ CheckCompares \/ CheckCounts
       \/ ConnectCreates \/ ConnectGets \/ ConnectPuts \/ HandlerTakes
       \/ /\ hand' = Idle \/ UNCHANGED hand
          /\ UNCHANGED <<timers, registered, stray>>
  BY DEF Next, System, MainRuns, HandlerRuns, ClientRuns, Application, vars,
         mainKeeps, handlerKeeps, contextVars, clientKeeps, looperVars,
         ReceivePermission, ReceiveDetached, MainCloses, MainForgets, ProcessDettach,
         DestroyMarks, DestroyRemoves, ConnectTells, RequestPermission,
         OpenDevice, CameraOpens, ClientCloses, ClientForgets, ClientPuts,
         ClientCreates, HasPermission, ContextGone, contextVars
<1> QED
  BY <1>1, <1>2, <1>3, <1>4, <1>5, <1>6, <1>7, <1>8, <1>9, <1>10

----------------------------------------------------------------------------
(***************************************************************************)
(* The blocks.                                                             *)
(***************************************************************************)
\* The steps that make blocks and close them.
LEMMA BlockMoves ==
  ASSUME [Next]_vars
  PROVE  \/ MainCloses \/ ConnectCreates \/ ClientCreates
         \/ \E b \in 1..Len(blocks) : ClientCloses(b) \/ CameraOpens(b)
         \/ UNCHANGED blocks
  BY DEF Next, System, MainRuns, HandlerRuns, ClientRuns, Application, vars,
         blockVars, Register, Unregister, ReceivePermission, ReceiveDetached,
         MainForgets, ProcessDettach, DestroyMarks, DestroyRemoves,
         DestroyClears, HandlerTakes, CheckBegins, ConnectGets, ConnectPuts,
         ConnectTells, CheckLists, CheckCompares, CheckCounts, CheckPosts,
         RequestPermission, OpenDevice, ClientForgets, ClientPuts,
         HasPermission, ContextGone, contextVars

\* And those that change the map, or what the application got.
LEMMA EntryMoves ==
  ASSUME [Next]_vars
  PROVE  \/ MainForgets \/ ClientForgets
         \/ ReceiveDetached \/ DestroyRemoves \/ DestroyClears
         \/ ConnectPuts \/ ClientPuts
         \/ UNCHANGED <<map, dropped>>
  BY DEF Next, System, MainRuns, HandlerRuns, ClientRuns, Application, vars,
         blockVars, entryVars, Register, Unregister, ReceivePermission,
         MainCloses, ProcessDettach, DestroyMarks, HandlerTakes, CheckBegins,
         ConnectGets, ConnectTells, ConnectCreates, CheckLists, CheckCompares,
         CheckCounts, CheckPosts, RequestPermission, OpenDevice, CameraOpens,
         ClientCloses, ClientCreates, HasPermission, ContextGone, contextVars

\* These steps hand blocks to the application.
LEMMA HandedMoves ==
  ASSUME [Next]_vars
  PROVE  \/ ConnectTells \/ ClientPuts \/ \E d \in Devices : OpenDevice(d)
         \/ UNCHANGED handed
  BY DEF Next, System, MainRuns, HandlerRuns, ClientRuns, Application, vars,
         mainKeeps, Register, Unregister, ReceivePermission, ReceiveDetached,
         MainForgets, DestroyRemoves, DestroyClears, MainCloses,
         ProcessDettach, DestroyMarks, HandlerTakes, CheckBegins, ConnectGets,
         ConnectPuts, ConnectCreates, CheckLists, CheckCompares, CheckCounts,
         CheckPosts, RequestPermission, CameraOpens, ClientCloses,
         ClientForgets, ClientCreates, HasPermission, ContextGone, contextVars

\* And these change the camera's.
LEMMA CameraMoves ==
  ASSUME [Next]_vars
  PROVE  \/ \E b \in 1..Len(blocks) : CameraOpens(b) \/ ClientCloses(b)
         \/ UNCHANGED camera
  BY DEF Next, System, MainRuns, HandlerRuns, ClientRuns, Application, vars,
         mainKeeps, handlerKeeps, Register, Unregister, ReceivePermission,
         ReceiveDetached, MainForgets, DestroyRemoves, DestroyClears,
         MainCloses, ProcessDettach, DestroyMarks, HandlerTakes, CheckBegins,
         ConnectGets, ConnectPuts, ConnectTells, ConnectCreates, CheckLists,
         CheckCompares, CheckCounts, CheckPosts, RequestPermission, OpenDevice,
         ClientForgets, ClientCreates, ClientPuts, HasPermission, ContextGone,
         contextVars

\* A block is closed only by the thread that comes to close it.
LEMMA StaysOpen ==
  ASSUME TypeOK, HasBlock, [Next]_vars, NEW c \in 1..Len(blocks), blocks[c].open
  PROVE  \/ blocks'[c].open
         \/ MainCloses /\ c = main.blk /\ main'.at = "forget" /\ main'.blk = c
         \/ ClientCloses(c) /\ client'.at = "forget" /\ client'.blk = c
<1>0. /\ BlockType /\ blocks \in Seq(Block) /\ main \in Thread(MainPoints)
  BY DEF TypeOK, BlockType, ThreadType
<1>1. CASE UNCHANGED blocks
  BY <1>1
<1>2. ASSUME NEW d, NEW clone, Create(d, clone) PROVE blocks'[c].open
  BY <1>0, <1>2, LenProperties, AppendProperties DEF Create
<1>3. CASE MainCloses
  <2>1. CASE UNCHANGED blocks
    BY <1>1, <2>1
  <2>2. CASE Close(main.blk) /\ GoMain("forget")
    <3>1. main.blk \in 1..Len(blocks)
      BY <1>3 DEF MainCloses, HasBlock
    <3>2. blocks'[c].open \/ c = main.blk
      BY <1>0, <2>2, <3>1, ClosedBlock
    <3> QED
      BY <1>0, <1>3, <2>2, <3>2 DEF GoMain, Thread
  <2> QED
    BY <1>3, <2>1, <2>2 DEF MainCloses
<1>4. ASSUME NEW b \in 1..Len(blocks), ClientCloses(b)
      PROVE  \/ blocks'[c].open
             \/ ClientCloses(c) /\ client'.at = "forget" /\ client'.blk = c
  <2>1. CASE UNCHANGED blocks
    BY <1>1, <2>1
  <2>2. CASE Close(b) /\ client' = [at |-> "forget", dev |-> None, blk |-> b]
    BY <1>0, <1>4, <2>2, ClosedBlock
  <2> QED
    BY <1>4, <2>1, <2>2 DEF ClientCloses
<1>5. CASE ConnectCreates \/ ClientCreates
  BY <1>1, <1>2, <1>5 DEF ConnectCreates, ClientCreates, Constructs
<1>6. CASE \E b \in 1..Len(blocks) : CameraOpens(b)
  BY <1>2, <1>6 DEF CameraOpens
<1> QED
  BY <1>1, <1>3, <1>4, <1>5, <1>6, BlockMoves

\* A new block is the camera's clone, or in the hands of who made it.
MadeBy(t, b) ==
    /\ t.at = "create" /\ b = Len(blocks) + 1
    /\ t.dev \in Devices
    /\ blocks'[b].dev = t.dev /\ ~blocks'[b].clone
    /\ blocks'[b].open <=> t.dev \in granted

\* So it is with every block a step adds.
LEMMA NewBlock ==
  ASSUME TypeOK, PermissionInv, [Next]_vars, NEW c \in 1..Len(blocks'),
         c \notin 1..Len(blocks)
  PROVE  /\ UNCHANGED <<usb, granted>>
         /\ \/ blocks'[c].clone /\ (blocks'[c].open => blocks'[c].dev \in granted)
            \/ MadeBy(hand, c) /\ hand' = Constructed(hand)
            \/ MadeBy(client, c) /\ client' = Constructed(client)
<1>0. BlockType /\ blocks \in Seq(Block) /\ Len(blocks) \in Nat
  BY LenProperties DEF TypeOK, BlockType
<1>1. ASSUME NEW b \in 1..Len(blocks), Close(b) PROVE FALSE
  BY <1>0, <1>1, ClosedBlock
<1>2. ASSUME NEW d \in Devices, NEW clone \in BOOLEAN, Create(d, clone)
      PROVE  /\ c = Len(blocks) + 1
             /\ blocks'[c].dev = d /\ blocks'[c].clone = clone
             /\ blocks'[c].open <=> d \in granted
  BY <1>0, <1>2, CreatedBlock
<1>3. ~MainCloses \/ main.blk \notin 1..Len(blocks)
  BY <1>1 DEF MainCloses
<1>4. CASE MainCloses
  <2>1. blocks' = blocks \/ blocks' = [blocks EXCEPT ![main.blk].open = FALSE]
    BY <1>4 DEF MainCloses, Close
  <2>2. Len(blocks') = Len(blocks)
    BY <1>0, <2>1
  <2> QED
    BY <2>2
<1>5. CASE \E b \in 1..Len(blocks) : ClientCloses(b)
  BY <1>1, <1>5 DEF ClientCloses
<1>6. CASE \E b \in 1..Len(blocks) : CameraOpens(b)
  <2>1. PICK b \in 1..Len(blocks) : CameraOpens(b)
    BY <1>6
  <2>2. Create(blocks[b].dev, TRUE) /\ blocks[b].dev \in Devices
    BY <1>0, <2>1, BlockHasDevice DEF CameraOpens
  <2>3. UNCHANGED <<usb, granted>>
    BY <2>1 DEF CameraOpens, clientKeeps, worldVars
  <2>4. /\ blocks'[c].dev = blocks[b].dev /\ blocks'[c].clone
        /\ blocks'[c].open <=> blocks[b].dev \in granted
    BY <1>2, <2>2
  <2> QED
    BY <2>3, <2>4
<1>7. CASE ConnectCreates
  <2>1. UNCHANGED <<usb, granted>> /\ hand' = Constructed(hand)
    BY <1>7 DEF ConnectCreates, handlerKeeps, worldVars
  <2>2. hand.at = "create" /\ Create(hand.dev, FALSE)
    BY <1>7 DEF ConnectCreates, Constructs
  <2>3. hand.dev \in Devices
    BY <2>2 DEF PermissionInv, ConnectPoints, CreatePoints
  <2> QED
    BY <1>2, <2>1, <2>2, <2>3 DEF MadeBy
<1>8. CASE ClientCreates
  <2>1. UNCHANGED <<usb, granted>> /\ client' = Constructed(client)
    BY <1>8 DEF ClientCreates, clientKeeps, worldVars
  <2>2. client.at = "create" /\ Create(client.dev, FALSE)
    BY <1>8 DEF ClientCreates, Constructs
  <2>3. client.dev \in Devices
    BY <2>2 DEF PermissionInv, CreatePoints
  <2> QED
    BY <1>2, <2>1, <2>2, <2>3 DEF MadeBy
<1> QED
  BY <1>4, <1>5, <1>6, <1>7, <1>8, BlockMoves

\* A thread goes to remove an entry when it has closed the block.
LEMMA ClosedFirstStep ==
  ASSUME TypeOK, PermissionInv, HasBlock, ClosedFirst, [Next]_vars
  PROVE  ClosedFirst'
<1>0. /\ BlocksGrow /\ main \in Thread(MainPoints) /\ client \in Thread(ClientPoints)
      /\ BlockType
  BY BlocksStep DEF TypeOK, ThreadType
<1>1. ASSUME main'.at = "forget" PROVE ~blocks'[main'.blk].open
  <2>1. CASE UNCHANGED main
    BY <1>0, <1>1, <2>1 DEF ClosedFirst, HasBlock, BlocksGrow
  <2>2. CASE MainCloses
    <3>1. Close(main.blk) /\ main'.blk = main.blk /\ main.blk \in 1..Len(blocks)
      BY <1>0, <1>1, <2>2 DEF MainCloses, GoMain, AfterClose, HasBlock, Thread
    <3> QED
      BY <1>0, <3>1, ClosedBlock DEF BlockType
  <2>3. CASE MainForgets \/ DestroyMarks \/ DestroyRemoves
    BY <1>0, <1>1, <2>3
    DEF MainForgets, DestroyMarks, DestroyRemoves, GoMain, AfterClose, Thread,
        Idle
  <2>4. CASE Unregister \/ main' = Idle
    BY <1>1, <2>4 DEF Unregister, Idle
  <2>5. CASE ReceiveDetached
    BY <1>1, <2>5 DEF ReceiveDetached, RemovedIsClosed
  <2> QED
    BY <2>1, <2>2, <2>3, <2>4, <2>5, MainMoves
<1>2. ASSUME client'.at = "forget" PROVE ~blocks'[client'.blk].open
  <2>1. CASE UNCHANGED client
    BY <1>0, <1>2, <2>1 DEF ClosedFirst, HasBlock, BlocksGrow
  <2>2. ASSUME NEW b \in 1..Len(blocks), ClientCloses(b),
               client' = [at |-> "forget", dev |-> None, blk |-> b]
        PROVE  ~blocks'[client'.blk].open
    <3>1. CASE Close(b)
      BY <1>0, <2>2, <3>1, ClosedBlock DEF BlockType
    <3>2. CASE UNCHANGED client
      BY <2>1, <3>2
    <3> QED
      BY <2>2, <3>1, <3>2 DEF ClientCloses
  <2>3. CASE ClientCreates
    BY <1>0, <1>2, <2>3 DEF ClientCreates, Constructs, Constructed, Thread
  <2> QED
    BY <1>2, <2>1, <2>2, <2>3, ClientMoves DEF Idle
<1> QED
  BY <1>1, <1>2 DEF ClosedFirst

\* A block nobody else has is had by nobody else until it is entered.
LEMMA UnknownStays ==
  ASSUME TypeOK, PermissionInv, HasBlock, [Next]_vars,
         NEW b \in 1..Len(blocks), Unknown(b),
         ~(ConnectPuts /\ hand.blk = b), ~(ClientPuts /\ client.blk = b)
  PROVE  Unknown(b)'
<1>0. /\ BlockType /\ Len(blocks) \in Nat
      /\ main \in Thread(MainPoints) /\ hand \in Thread(HandlerPoints)
      /\ client \in Thread(ClientPoints)
  BY LenProperties DEF TypeOK, BlockType, ThreadType, HandlerPoints
<1>1. b \notin handed'
  <2>1. CASE ConnectTells
    BY <2>1 DEF ConnectTells, Unknown
  <2>2. CASE ClientPuts
    BY <2>2 DEF ClientPuts, Unknown
  <2>3. CASE \E d \in Devices : OpenDevice(d)
    BY <2>3 DEF OpenDevice, Unknown
  <2> QED
    BY <2>1, <2>2, <2>3, HandedMoves DEF Unknown
<1>2. b # camera'
  <2>1. CASE \E c \in 1..Len(blocks) : CameraOpens(c)
    BY <1>0, <2>1 DEF CameraOpens, Created
  <2>2. CASE \E c \in 1..Len(blocks) : ClientCloses(c)
    BY <1>0, <2>2 DEF ClientCloses, Unknown
  <2> QED
    BY <2>1, <2>2, CameraMoves DEF Unknown
<1>3. \A d \in Devices : map'[d] # b
  <2>1. \A d \in Devices : map[d] # b
    BY DEF Unknown
  <2>2. CASE MainForgets \/ ClientForgets
    BY <1>0, <2>1, <2>2 DEF MainForgets, ClientForgets, RemoveEntry, BlockType
  <2>3. CASE ReceiveDetached \/ DestroyRemoves \/ DestroyClears
    BY <1>0, <2>1, <2>3
    DEF ReceiveDetached, DestroyRemoves, DestroyClears, BlockType
  <2>4. CASE ConnectPuts \/ ClientPuts
    BY <1>0, <2>1, <2>4 DEF ConnectPuts, ClientPuts, Enter, BlockType
  <2> QED
    BY <2>1, <2>2, <2>3, <2>4, EntryMoves
<1>4. ~(main'.at \in {"close", "forget"} /\ main'.blk = b)
  <2>1. ~(main.at \in {"close", "forget"} /\ main.blk = b)
    BY DEF Unknown
  <2>2. CASE ReceiveDetached
    <3>1. Head(inbox) \in Broadcasts
      BY <2>2, Taken DEF ReceiveDetached, TypeOK, WorldType
    <3>2. Head(inbox).dev \in Devices
      BY <3>1 DEF Broadcasts
    <3> QED
      BY <2>2, <3>2 DEF ReceiveDetached, Unknown
  <2>3. CASE DestroyRemoves
    BY <1>0, <2>3 DEF DestroyRemoves, Unknown, GoMain, Thread
  <2>4. CASE MainCloses
    BY <1>0, <2>1, <2>4 DEF MainCloses, GoMain, AfterClose, Thread
  <2>5. CASE MainForgets \/ DestroyMarks \/ Unregister
    BY <1>0, <2>5
    DEF MainForgets, DestroyMarks, Unregister, GoMain, AfterClose, Thread,
        Idle
  <2> QED
    BY <2>1, <2>2, <2>3, <2>4, <2>5, MainMoves DEF Idle
<1>5. ~(hand'.at = "tell" /\ hand'.blk = b)
  <2>1. CASE ConnectPuts
    BY <1>0, <2>1 DEF ConnectPuts, GoHandler, Thread
  <2>2. CASE ConnectGets
    <3>1. hand.dev \in Devices
      BY <2>2 DEF ConnectGets, PermissionInv, ConnectPoints
    <3> QED
      BY <1>0, <2>2, <3>1 DEF ConnectGets, Thread, Unknown
  <2>3. CASE HandlerTakes \/ CheckBegins
    BY <2>3 DEF HandlerTakes, CheckBegins, Idle
  <2>4. CASE ConnectCreates \/ CheckLists \/ CheckCompares \/ CheckCounts
    BY <1>0, <2>4
    DEF ConnectCreates, Constructs, Constructed, CheckLists, CheckCompares,
        CheckCounts, GoHandler, Thread
  <2> QED
    BY <2>1, <2>2, <2>3, <2>4, HandMoves DEF Unknown, Idle
<1>6. ~(client'.at = "forget" /\ client'.blk = b)
  <2>1. CASE \E c \in 1..Len(blocks) :
               ClientCloses(c)
               /\ client' = [at |-> "forget", dev |-> None, blk |-> c]
    BY <2>1 DEF ClientCloses, Unknown
  <2>2. CASE ClientCreates
    BY <1>0, <2>2 DEF ClientCreates, Constructs, Constructed, Thread
  <2> QED
    BY <2>1, <2>2, ClientMoves DEF Unknown, Idle
<1> QED
  BY <1>1, <1>2, <1>3, <1>4, <1>5, <1>6 DEF Unknown

\* Where a thread is that makes a block, and how it came there.
LEMMA HandMakes ==
  ASSUME TypeOK, PermissionInv, [Next]_vars, hand'.at \in {"info", "put"}
  PROVE  \/ hand.at \in {"info", "put"} /\ hand'.blk = hand.blk
            /\ hand'.dev = hand.dev /\ ~ConnectPuts
         \/ ConnectCreates /\ hand'.blk = Len(blocks) + 1
            /\ MadeBy(hand, Len(blocks) + 1) /\ hand'.dev = hand.dev
            /\ UNCHANGED <<client, camera, handed, main, map, usb>>
            /\ Len(blocks') = Len(blocks) + 1
<1>0. /\ hand \in Thread(HandlerPoints) /\ blocks \in Seq(Block)
  BY DEF TypeOK, BlockType, ThreadType, HandlerPoints
<1>1. CASE UNCHANGED hand
  <2>1. ~ConnectPuts
    BY <1>0, <1>1 DEF ConnectPuts, GoHandler, Thread
  <2> QED
    BY <1>1, <2>1
<1>2. CASE ConnectCreates /\ hand.at = "info"
  BY <1>0, <1>2 DEF ConnectCreates, Constructed, Thread, ConnectPuts
<1>3. CASE ConnectCreates /\ hand.at = "create"
  <2>1. hand.dev \in Devices /\ Create(hand.dev, FALSE)
    BY <1>3
    DEF ConnectCreates, Constructs, PermissionInv, ConnectPoints, CreatePoints
  <2>2. MadeBy(hand, Len(blocks) + 1) /\ Len(blocks') = Len(blocks) + 1
    BY <1>0, <1>3, <2>1, CreatedBlock DEF MadeBy
  <2>3. hand'.blk = Len(blocks) + 1 /\ hand'.dev = hand.dev
    BY <1>0, <1>3 DEF ConnectCreates, Constructed, Created, Thread
  <2>4. UNCHANGED <<client, camera, handed, main, map, usb>>
    BY <1>3 DEF ConnectCreates, handlerKeeps, entryVars, worldVars
  <2> QED
    BY <1>3, <2>2, <2>3, <2>4
<1>4. CASE HandlerTakes \/ CheckBegins
  BY <1>4 DEF HandlerTakes, CheckBegins, Idle
<1>5. CASE ConnectGets \/ ConnectPuts \/ CheckLists \/ CheckCompares \/ CheckCounts
  BY <1>0, <1>5
  DEF ConnectGets, ConnectPuts, CheckLists, CheckCompares, CheckCounts,
      GoHandler, Thread
<1>6. ConnectCreates => hand.at \in {"create", "info"}
  BY DEF ConnectCreates, Constructs
<1>7. hand' # Idle
  BY DEF Idle
<1> QED
  BY <1>1, <1>2, <1>3, <1>4, <1>5, <1>6, <1>7, HandMoves

\* The same of the application's thread.
LEMMA ClientMakes ==
  ASSUME TypeOK, PermissionInv, [Next]_vars, client'.at \in {"info", "put"}
  PROVE  \/ client.at \in {"info", "put"} /\ client'.blk = client.blk
            /\ client'.dev = client.dev /\ ~ClientPuts
         \/ ClientCreates /\ client'.blk = Len(blocks) + 1
            /\ MadeBy(client, Len(blocks) + 1) /\ client'.dev = client.dev
            /\ UNCHANGED <<hand, camera, handed, main, map, usb>>
            /\ Len(blocks') = Len(blocks) + 1
<1>0. /\ client \in Thread(ClientPoints) /\ blocks \in Seq(Block)
  BY DEF TypeOK, BlockType, ThreadType
<1>1. CASE UNCHANGED client
  <2>1. ~ClientPuts
    BY <1>1 DEF ClientPuts, Idle
  <2> QED
    BY <1>1, <2>1
<1>2. CASE ClientCreates /\ client.at = "info"
  BY <1>0, <1>2 DEF ClientCreates, Constructed, Thread, ClientPuts
<1>3. CASE ClientCreates /\ client.at = "create"
  <2>1. client.dev \in Devices /\ Create(client.dev, FALSE)
    BY <1>3 DEF ClientCreates, Constructs, PermissionInv, CreatePoints
  <2>2. MadeBy(client, Len(blocks) + 1) /\ Len(blocks') = Len(blocks) + 1
    BY <1>0, <1>3, <2>1, CreatedBlock DEF MadeBy
  <2>3. client'.blk = Len(blocks) + 1 /\ client'.dev = client.dev
    BY <1>0, <1>3 DEF ClientCreates, Constructed, Created, Thread
  <2>4. UNCHANGED <<hand, camera, handed, main, map, usb>>
    BY <1>3 DEF ClientCreates, clientKeeps, entryVars, worldVars
  <2> QED
    BY <1>3, <2>2, <2>3, <2>4
<1>4. ClientCreates => client.at \in {"create", "info"}
  BY DEF ClientCreates, Constructs
<1>5. client' # Idle
  BY DEF Idle
<1> QED
  BY <1>1, <1>2, <1>3, <1>4, <1>5, ClientMoves

\* Every step leaves a new block to the thread that makes it.
LEMMA MakesAloneStep ==
  ASSUME TypeOK, PermissionInv, HasBlock, MakesAlone, [Next]_vars
  PROVE  MakesAlone'
<1>0. BlockType /\ Len(blocks) \in Nat
  BY LenProperties DEF TypeOK, BlockType
<1>1. ASSUME UNCHANGED <<camera, handed, main, map>>
      PROVE  LET b == Len(blocks) + 1
             IN  /\ b \notin handed' /\ b # camera'
                 /\ \A d \in Devices : map'[d] # b
                 /\ ~(main'.at \in {"close", "forget"} /\ main'.blk = b)
  BY <1>0, <1>1 DEF BlockType, HasBlock
<1>2. ASSUME hand'.at \in {"info", "put"} PROVE Unknown(hand.blk)'
  <2>1. CASE hand.at \in {"info", "put"} /\ hand'.blk = hand.blk /\ ~ConnectPuts
    <3>1. Unknown(hand.blk) /\ hand.blk \in 1..Len(blocks)
      BY <2>1 DEF MakesAlone, HasBlock
    <3>2. ~(ClientPuts /\ client.blk = hand.blk)
      BY <2>1 DEF ClientPuts, MakesAlone
    <3> QED
      BY <2>1, <3>1, <3>2, UnknownStays DEF Unknown
  <2>2. CASE hand'.blk = Len(blocks) + 1
             /\ UNCHANGED <<client, camera, handed, main, map, usb>>
    BY <1>0, <1>1, <1>2, <2>2 DEF Unknown, HasBlock
  <2> QED
    BY <1>2, <2>1, <2>2, HandMakes
<1>3. ASSUME client'.at \in {"info", "put"} PROVE Unknown(client.blk)'
  <2>1. CASE client.at \in {"info", "put"} /\ client'.blk = client.blk /\ ~ClientPuts
    <3>1. Unknown(client.blk) /\ client.blk \in 1..Len(blocks)
      BY <2>1 DEF MakesAlone, HasBlock
    <3>2. ~(ConnectPuts /\ hand.blk = client.blk)
      BY <2>1 DEF ConnectPuts, MakesAlone
    <3> QED
      BY <2>1, <3>1, <3>2, UnknownStays DEF Unknown
  <2>2. CASE client'.blk = Len(blocks) + 1
             /\ UNCHANGED <<hand, camera, handed, main, map, usb>>
    BY <1>0, <1>1, <1>3, <2>2 DEF Unknown, HasBlock
  <2> QED
    BY <1>3, <2>1, <2>2, ClientMakes
<1>4. ASSUME hand'.at \in {"info", "put"}, client'.at \in {"info", "put"}
      PROVE  hand'.blk # client'.blk
  <2>1. CASE ConnectCreates /\ hand'.blk = Len(blocks) + 1 /\ UNCHANGED client
    BY <1>0, <1>4, <2>1 DEF HasBlock
  <2>2. CASE ClientCreates /\ client'.blk = Len(blocks) + 1 /\ UNCHANGED hand
    BY <1>0, <1>4, <2>2 DEF HasBlock
  <2> QED
    BY <1>4, <2>1, <2>2, HandMakes, ClientMakes DEF MakesAlone
<1> QED
  BY <1>2, <1>3, <1>4 DEF MakesAlone

\* Nobody closes a block that is unknown, and it stays what it is.
LEMMA UnknownOpen ==
  ASSUME TypeOK, PermissionInv, HasBlock, [Next]_vars, NEW d \in Devices,
         NEW b \in 1..Len(blocks), Unknown(b), EntryOf(d, b),
         blocks[b].open \/ Gone(d)
  PROVE  EntryOf(d, b)' /\ (blocks'[b].open \/ Gone(d)')
<1>1. EntryOf(d, b)'
  BY BlocksStep DEF BlocksGrow, EntryOf
<1>2. ASSUME blocks[b].open PROVE blocks'[b].open
  BY <1>2, StaysOpen DEF MainCloses, ClientCloses, Unknown
<1> QED
  BY <1>1, <1>2, GoneStays

\* A new block stays open, or its device is gone.
LEMMA MadeOpenStep ==
  ASSUME TypeOK, PermissionInv, HasBlock, MakesAlone, MadeOpen, [Next]_vars
  PROVE  MadeOpen'
<1>1. ASSUME hand'.at \in {"info", "put"}
      PROVE  /\ EntryOf(hand.dev, hand.blk)'
             /\ blocks'[hand'.blk].open \/ Gone(hand.dev)'
  <2>1. CASE hand.at \in {"info", "put"}
             /\ hand'.blk = hand.blk /\ hand'.dev = hand.dev
    <3>1. /\ Unknown(hand.blk) /\ hand.blk \in 1..Len(blocks)
          /\ hand.dev \in Devices /\ EntryOf(hand.dev, hand.blk)
          /\ blocks[hand.blk].open \/ Gone(hand.dev)
      BY <2>1
      DEF MakesAlone, HasBlock, MadeOpen, PermissionInv, ConnectPoints,
          CreatePoints
    <3> QED
      BY <2>1, <3>1, UnknownOpen DEF EntryOf, Gone
  <2>2. CASE hand'.blk = Len(blocks) + 1 /\ MadeBy(hand, Len(blocks) + 1)
             /\ hand'.dev = hand.dev /\ UNCHANGED usb
    <3>1. Allowed(hand.dev)
      BY <2>2 DEF MadeBy, PermissionInv, ConnectPoints, CreatePoints
    <3> QED
      BY <2>2, <3>1 DEF MadeBy, EntryOf, Allowed, Gone
  <2> QED
    BY <1>1, <2>1, <2>2, HandMakes
<1>2. ASSUME client'.at \in {"info", "put"}
      PROVE  /\ EntryOf(client.dev, client.blk)'
             /\ blocks'[client'.blk].open \/ Gone(client.dev)'
  <2>1. CASE client.at \in {"info", "put"}
             /\ client'.blk = client.blk /\ client'.dev = client.dev
    <3>1. /\ Unknown(client.blk) /\ client.blk \in 1..Len(blocks)
          /\ client.dev \in Devices /\ EntryOf(client.dev, client.blk)
          /\ blocks[client.blk].open \/ Gone(client.dev)
      BY <2>1 DEF MakesAlone, HasBlock, MadeOpen, PermissionInv, CreatePoints
    <3> QED
      BY <2>1, <3>1, UnknownOpen DEF EntryOf, Gone
  <2>2. CASE client'.blk = Len(blocks) + 1 /\ MadeBy(client, Len(blocks) + 1)
             /\ client'.dev = client.dev /\ UNCHANGED usb
    <3>1. Allowed(client.dev)
      BY <2>2 DEF MadeBy, PermissionInv, CreatePoints
    <3> QED
      BY <2>2, <3>1 DEF MadeBy, EntryOf, Allowed, Gone
  <2> QED
    BY <1>2, <2>1, <2>2, ClientMakes
<1> QED
  BY <1>1, <1>2 DEF MadeOpen

\* What becomes of an entry.
LEMMA EntryStep ==
  ASSUME TypeOK, PermissionInv, HasBlock, [Next]_vars,
         NEW d \in Devices, map'[d] # map[d]
  PROVE  \/ map'[d] = 0
         \/ ConnectPuts /\ d = hand.dev /\ map'[d] = hand.blk
         \/ ClientPuts /\ d = client.dev /\ map'[d] = client.blk
<1>0. BlockType
  BY DEF TypeOK
<1>1. CASE MainForgets \/ ClientForgets
  BY <1>0, <1>1 DEF MainForgets, ClientForgets, RemoveEntry, BlockType
<1>2. CASE ReceiveDetached \/ DestroyRemoves \/ DestroyClears
  BY <1>0, <1>2 DEF ReceiveDetached, DestroyRemoves, DestroyClears, BlockType
<1>3. CASE ConnectPuts \/ ClientPuts
  BY <1>0, <1>3 DEF ConnectPuts, ClientPuts, Enter, BlockType
<1> QED
  BY <1>1, <1>2, <1>3, EntryMoves

\* The thread that closed a block takes its entry away before it goes on.
LEMMA ClosingEnds ==
  ASSUME TypeOK, PermissionInv, HasBlock, [Next]_vars,
         NEW d \in Devices, NEW b \in 1..Len(blocks), blocks[b].dev = d
  PROVE  /\ Closing(main, b) => Closing(main, b)' \/ map'[d] = 0
         /\ Closing(client, b) => Closing(client, b)' \/ map'[d] = 0
<1>0. BlockType /\ main \in Thread(MainPoints) /\ client \in Thread(ClientPoints)
  BY DEF TypeOK, ThreadType
<1>1. ASSUME RemoveEntry(b) PROVE map'[d] = 0
  BY <1>0, <1>1 DEF RemoveEntry, BlockType
<1>2. ASSUME Closing(main, b) PROVE Closing(main, b)' \/ map'[d] = 0
  <2>1. main.at = "forget" /\ main.blk = b
    BY <1>2 DEF Closing
  <2>2. MainForgets \/ UNCHANGED main
    BY <2>1
    DEF Next, System, MainRuns, HandlerRuns, ClientRuns, Application, vars,
        handlerKeeps, clientKeeps, Register, Unregister, ReceivePermission,
        ReceiveDetached, MainCloses, DestroyRemoves, DestroyMarks,
        ProcessDettach, DestroyClears, HandlerTakes, CheckBegins, ConnectGets,
        ConnectCreates, ConnectPuts, ConnectTells, CheckLists, CheckCompares,
        CheckCounts, CheckPosts, RequestPermission, OpenDevice, CameraOpens,
        ClientCloses, ClientForgets, ClientCreates, ClientPuts, HasPermission,
        ContextGone, contextVars
  <2> QED
    BY <1>1, <2>1, <2>2 DEF MainForgets, Closing
<1>3. ASSUME Closing(client, b) PROVE Closing(client, b)' \/ map'[d] = 0
  <2>1. client.at = "forget" /\ client.blk = b
    BY <1>3 DEF Closing
  <2>2. ClientForgets \/ UNCHANGED client
    BY <2>1
    DEF Next, System, MainRuns, HandlerRuns, ClientRuns, Application, vars,
        handlerKeeps, mainKeeps, Register, Unregister, ReceivePermission,
        ReceiveDetached, MainCloses, MainForgets, DestroyRemoves, DestroyMarks,
        ProcessDettach, DestroyClears, HandlerTakes, CheckBegins, ConnectGets,
        ConnectCreates, ConnectPuts, ConnectTells, CheckLists, CheckCompares,
        CheckCounts, CheckPosts, RequestPermission, OpenDevice, CameraOpens,
        ClientCloses, ClientCreates, Constructs, ClientPuts, HasPermission,
        ContextGone, contextVars
  <2> QED
    BY <1>1, <2>1, <2>2 DEF ClientForgets, Closing
<1> QED
  BY <1>2, <1>3

\* An entry stays open, or is about to be removed, or its device is gone.
LEMMA EntriesOpenStep ==
  ASSUME TypeOK, PermissionInv, BlockInv, [Next]_vars
  PROVE  EntriesOpen'
<1> SUFFICES ASSUME NEW d \in Devices, map'[d] # 0
             PROVE  /\ EntryOf(d, map[d])'
                    /\ \/ blocks'[map'[d]].open \/ Gone(d)'
                       \/ Closing(main, map[d])' \/ Closing(client, map[d])'
  BY BlockStep DEF EntriesOpen, BlockInv
<1>0. /\ HasBlock /\ MakesAlone /\ MadeOpen /\ EntriesOpen
      /\ BlockType /\ BlocksGrow /\ map[d] \in {0} \union 1..Len(blocks)
  BY BlocksStep DEF BlockInv, TypeOK, BlockType
<1>1. CASE map'[d] = map[d]
  <2> DEFINE b == map[d]
  <2>1. b \in 1..Len(blocks) /\ map'[d] = b
    BY <1>0, <1>1
  <2>2. EntryOf(d, b)
    BY <1>0, <1>1 DEF EntriesOpen
  <2>3. EntryOf(d, map[d])'
    BY <1>0, <2>1, <2>2 DEF EntryOf, BlocksGrow
  <2>4. CASE blocks[b].open
    BY <1>0, <2>1, <2>3, <2>4, StaysOpen DEF Closing
  <2>5. CASE Gone(d)
    BY <2>3, <2>5, GoneStays
  <2>6. CASE Closing(main, b) \/ Closing(client, b)
    BY <1>0, <2>1, <2>2, <2>3, <2>6, ClosingEnds DEF Closing, EntryOf
  <2> QED
    BY <1>0, <1>1, <2>3, <2>4, <2>5, <2>6 DEF EntriesOpen
<1>2. CASE ConnectPuts /\ d = hand.dev /\ map'[d] = hand.blk
  <2>1. /\ hand.blk \in 1..Len(blocks) /\ Unknown(hand.blk)
        /\ EntryOf(d, hand.blk)
        /\ blocks[hand.blk].open \/ Gone(d)
    BY <1>0, <1>2 DEF ConnectPuts, HasBlock, MakesAlone, MadeOpen
  <2> QED
    BY <1>0, <1>2, <2>1, UnknownOpen DEF EntryOf
<1>3. CASE ClientPuts /\ d = client.dev /\ map'[d] = client.blk
  <2>1. /\ client.blk \in 1..Len(blocks) /\ Unknown(client.blk)
        /\ EntryOf(d, client.blk)
        /\ blocks[client.blk].open \/ Gone(d)
    BY <1>0, <1>3 DEF ClientPuts, HasBlock, MakesAlone, MadeOpen
  <2> QED
    BY <1>0, <1>3, <2>1, UnknownOpen DEF EntryOf
<1> QED
  BY <1>0, <1>1, <1>2, <1>3, EntryStep

\* Every step keeps what is said of the blocks.
LEMMA BlockInvStep ==
  ASSUME TypeOK, PermissionInv, BlockInv, [Next]_vars PROVE BlockInv'
  BY HasBlockStep, ClosedFirstStep, MakesAloneStep, MadeOpenStep,
     EntriesOpenStep
  DEF BlockInv

----------------------------------------------------------------------------
(***************************************************************************)
(* Every open connection is known.                                         *)
(***************************************************************************)
\* What was displaced is remembered.
LEMMA DroppedGrows == ASSUME [Next]_vars PROVE dropped \subseteq dropped'
  BY EntryMoves
  DEF MainForgets, ClientForgets, RemoveEntry, ReceiveDetached,
      DestroyRemoves, DestroyClears, ConnectPuts, ClientPuts, Enter

\* A looper that has quit does not start again.
LEMMA QuitStays == ASSUME [Next]_vars, quit PROVE quit'
  BY DEF Next, System, MainRuns, HandlerRuns, ClientRuns, Application, vars,
         clientKeeps, looperVars, Register, Unregister, QuitLooper,
         ReceivePermission, ReceiveDetached, MainCloses, MainForgets,
         ProcessDettach, DestroyMarks, DestroyRemoves, DestroyClears,
         HandlerTakes, CheckBegins, ConnectGets, ConnectCreates, ConnectPuts,
         ConnectTells, CheckLists, CheckCompares, CheckCounts, CheckPosts,
         RequestPermission, OpenDevice, CameraOpens, ClientCloses,
         ClientForgets, ClientPuts, ClientCreates, HasPermission, ContextGone,
         contextVars

Known(b) ==
    \/ map[blocks[b].dev] = b \/ InHands(b)
    \/ b \in dropped \/ (quit /\ "connect" \in races)

\* An entry that goes away is in the hands of the thread that closes it, or
\* is remembered.
LEMMA EntryKnown ==
  ASSUME TypeOK, PermissionInv, BlockInv, [Next]_vars,
         NEW b \in 1..Len(blocks), map[blocks[b].dev] = b, blocks[b].open
  PROVE  Known(b)'
<1> DEFINE d == blocks[b].dev
<1>a. BlockType /\ BlocksGrow
  BY BlocksStep DEF TypeOK, BlockInv
<1>b. d \in Devices /\ b # 0
  BY <1>a, BlockHasDevice
<1>0. /\ d \in Devices /\ map \in [Devices -> 0..Len(blocks)]
      /\ BlocksGrow /\ blocks'[b].dev = d /\ b # 0
  BY <1>a, <1>b DEF BlockType, BlocksGrow
<1>1. CASE map'[d] = b
  BY <1>0, <1>1 DEF Known
<1>2. ASSUME NEW c \in 1..Len(blocks), RemoveEntry(c), ~blocks[c].open
      PROVE  Known(b)'
  <2>1. c # b
    BY <1>2
  <2>2. CASE blocks[c].dev = d
    BY <1>0, <1>2, <2>1, <2>2 DEF RemoveEntry, Known
  <2>3. CASE blocks[c].dev # d
    BY <1>0, <1>1, <1>2, <2>3 DEF RemoveEntry
  <2> QED
    BY <2>2, <2>3
<1>3. CASE MainForgets
  BY <1>2, <1>3 DEF MainForgets, BlockInv, HasBlock, ClosedFirst
<1>4. CASE ClientForgets
  BY <1>2, <1>4 DEF ClientForgets, BlockInv, HasBlock, ClosedFirst
<1>5. ASSUME NEW e, NEW c, Enter(e, c) PROVE Known(b)'
  <2>1. CASE e = d /\ c # b
    BY <1>0, <1>5, <2>1 DEF Enter, Known
  <2>2. CASE e # d \/ c = b
    BY <1>0, <1>1, <1>5, <2>2 DEF Enter
  <2> QED
    BY <2>1, <2>2
<1>6. CASE ConnectPuts \/ ClientPuts
  BY <1>5, <1>6 DEF ConnectPuts, ClientPuts
<1>7. CASE ReceiveDetached
  <2>1. CASE Head(inbox).dev = d
    <3>1. main' = [at |-> "close", dev |-> d, blk |-> b]
      BY <1>0, <1>7, <2>1 DEF ReceiveDetached, RemovedIsClosed
    <3> QED
      BY <3>1 DEF Known, InHands
  <2>2. CASE Head(inbox).dev # d
    BY <1>0, <1>1, <1>7, <2>2 DEF ReceiveDetached
  <2> QED
    BY <2>1, <2>2
<1>8. CASE DestroyRemoves
  <2>1. PICK e \in Devices :
            /\ main' = [at |-> "close", dev |-> e, blk |-> map[e]]
            /\ map' = [map EXCEPT ![e] = 0]
    BY <1>0, <1>8 DEF DestroyRemoves
  <2>2. CASE e = d
    BY <1>0, <2>1, <2>2 DEF Known, InHands
  <2>3. CASE e # d
    BY <1>0, <1>1, <2>1, <2>3
  <2> QED
    BY <2>2, <2>3
<1>9. CASE DestroyClears
  <2>1. quit' /\ "connect" \in races'
    BY <1>0, <1>9 DEF DestroyClears, QuitLooper, Race
  <2> QED
    BY <2>1 DEF Known
<1> QED
  BY <1>0, <1>1, <1>3, <1>4, <1>6, <1>7, <1>8, <1>9, EntryMoves

\* A block that a thread is making or closing is entered or closed by it.
LEMMA HandsKnown ==
  ASSUME TypeOK, PermissionInv, BlockInv, [Next]_vars,
         NEW b \in 1..Len(blocks), InHands(b), blocks'[b].open
  PROVE  Known(b)'
<1>a. BlockType /\ BlocksGrow
  BY BlocksStep DEF TypeOK, BlockInv
<1>b. blocks[b].dev \in Devices /\ b # 0
  BY <1>a, BlockHasDevice
<1>c. /\ main \in Thread(MainPoints) /\ hand \in Thread(HandlerPoints)
      /\ client \in Thread(ClientPoints)
  BY DEF TypeOK, ThreadType, HandlerPoints
<1>0. /\ BlockType /\ BlocksGrow /\ blocks'[b].dev = blocks[b].dev /\ b # 0
      /\ HasBlock /\ MadeOpen
      /\ main \in Thread(MainPoints) /\ hand \in Thread(HandlerPoints)
      /\ client \in Thread(ClientPoints) /\ blocks[b].dev \in Devices
  BY <1>a, <1>b, <1>c DEF BlocksGrow, BlockInv
<1>1. CASE main.at = "close" /\ main.blk = b
  <2>1. CASE UNCHANGED main
    BY <1>1, <2>1 DEF Known, InHands
  <2>2. CASE MainCloses
    <3>1. blocks[b].open
      BY <1>0 DEF BlocksGrow
    <3>2. Close(b)
      BY <1>1, <2>2, <3>1 DEF MainCloses
    <3> QED
      BY <1>0, <3>2, ClosedBlock DEF BlockType
  <2>3. UNCHANGED main \/ MainCloses
    BY <1>1
    DEF Next, System, MainRuns, HandlerRuns, ClientRuns, Application, vars,
        handlerKeeps, clientKeeps, Register, Unregister, ReceivePermission,
        ReceiveDetached, MainForgets, DestroyRemoves, DestroyMarks,
        ProcessDettach, DestroyClears, HandlerTakes, CheckBegins, ConnectGets,
        ConnectCreates, ConnectPuts, ConnectTells, CheckLists, CheckCompares,
        CheckCounts, CheckPosts, RequestPermission, OpenDevice, CameraOpens,
        ClientCloses, ClientForgets, ClientCreates, ClientPuts, HasPermission,
        ContextGone, contextVars
  <2> QED
    BY <2>1, <2>2, <2>3
<1>2. CASE hand.at \in CreatePoints /\ hand.blk = b
  <2>1. hand.at \in {"info", "put"}
    BY <1>0, <1>2 DEF HasBlock, CreatePoints
  <2>2. CASE hand'.at \in {"info", "put"} /\ hand'.blk = b
    BY <2>2 DEF Known, InHands, CreatePoints
  <2>3. CASE ConnectCreates
    BY <1>0, <1>2, <2>1, <2>2, <2>3
    DEF ConnectCreates, Constructs, Constructed, Thread
  <2>4. CASE ConnectPuts
    <3>1. hand.dev = blocks[b].dev
      BY <1>0, <1>2, <2>1 DEF MadeOpen, EntryOf
    <3>2. map'[blocks[b].dev] = b
      BY <1>0, <1>2, <2>4, <3>1 DEF ConnectPuts, Enter, BlockType
    <3> QED
      BY <1>0, <3>2 DEF Known
  <2>5. UNCHANGED hand \/ ConnectCreates \/ ConnectPuts
    BY <2>1
    DEF Next, System, MainRuns, HandlerRuns, ClientRuns, Application, vars,
        mainKeeps, clientKeeps, Register, Unregister, ReceivePermission,
        ReceiveDetached, MainCloses, MainForgets, DestroyRemoves, DestroyMarks,
        ProcessDettach, DestroyClears, HandlerTakes, CheckBegins, ConnectGets,
        ConnectTells, CheckLists, CheckCompares, CheckCounts, CheckPosts,
        RequestPermission, OpenDevice, CameraOpens, ClientCloses,
        ClientForgets, ClientCreates, ClientPuts, HasPermission, ContextGone,
        contextVars
  <2> QED
    BY <1>2, <2>1, <2>2, <2>3, <2>4, <2>5
<1>3. CASE client.at \in CreatePoints /\ client.blk = b
  <2>1. client.at \in {"info", "put"}
    BY <1>0, <1>3 DEF HasBlock, CreatePoints
  <2>2. CASE client'.at \in {"info", "put"} /\ client'.blk = b
    BY <2>2 DEF Known, InHands, CreatePoints
  <2>3. CASE ClientCreates
    BY <1>0, <1>3, <2>1, <2>2, <2>3
    DEF ClientCreates, Constructs, Constructed, Thread
  <2>4. CASE ClientPuts
    <3>1. client.dev = blocks[b].dev
      BY <1>0, <1>3, <2>1 DEF MadeOpen, EntryOf
    <3>2. map'[blocks[b].dev] = b
      BY <1>0, <1>3, <2>4, <3>1 DEF ClientPuts, Enter, BlockType
    <3> QED
      BY <1>0, <3>2 DEF Known
  <2>5. UNCHANGED client \/ ClientCreates \/ ClientPuts
    BY <2>1
    DEF Next, System, MainRuns, HandlerRuns, ClientRuns, Application, vars,
        mainKeeps, handlerKeeps, Register, Unregister, ReceivePermission,
        ReceiveDetached, MainCloses, MainForgets, DestroyRemoves, DestroyMarks,
        ProcessDettach, DestroyClears, HandlerTakes, CheckBegins, ConnectGets,
        ConnectCreates, ConnectPuts, ConnectTells, CheckLists, CheckCompares,
        CheckCounts, CheckPosts, RequestPermission, OpenDevice, CameraOpens,
        ClientCloses, ClientForgets, HasPermission, ContextGone, contextVars
  <2> QED
    BY <1>3, <2>1, <2>2, <2>3, <2>4, <2>5
<1> QED
  BY <1>1, <1>2, <1>3 DEF InHands

\* Every step leaves every open connection known.
LEMMA OpenIsKnownStep ==
  ASSUME TypeOK, PermissionInv, BlockInv, OpenIsKnown, [Next]_vars
  PROVE  OpenIsKnown'
<1> SUFFICES ASSUME NEW b \in 1..Len(blocks'), blocks'[b].open, ~blocks'[b].clone
             PROVE  Known(b)'
  BY DEF OpenIsKnown, Known
<1>0. BlocksGrow
  BY BlocksStep DEF BlockInv
<1>1. CASE b \notin 1..Len(blocks)
  <2>1. \/ MadeBy(hand, b) /\ hand' = Constructed(hand)
        \/ MadeBy(client, b) /\ client' = Constructed(client)
    BY <1>1, NewBlock
  <2>2. hand \in Thread(HandlerPoints) /\ client \in Thread(ClientPoints)
    BY DEF TypeOK, ThreadType, HandlerPoints
  <2>3. \/ hand'.at \in {"info", "put"} /\ hand'.blk = b
        \/ client'.at \in {"info", "put"} /\ client'.blk = b
    BY <2>1, <2>2 DEF MadeBy, Constructed, Created, Thread
  <2> QED
    BY <2>3 DEF Known, InHands, CreatePoints
<1>2. CASE b \in 1..Len(blocks)
  <2>1. blocks[b].open /\ ~blocks[b].clone
    BY <1>0, <1>2 DEF BlocksGrow
  <2>2. Known(b)
    BY <1>2, <2>1 DEF OpenIsKnown, Known
  <2>3. CASE map[blocks[b].dev] = b
    BY <1>2, <2>1, <2>3, EntryKnown
  <2>4. CASE InHands(b)
    BY <1>2, <2>4, HandsKnown
  <2>5. CASE b \in dropped
    BY <2>5, DroppedGrows DEF Known
  <2>6. CASE quit /\ "connect" \in races
    BY <2>6, QuitStays, RacesStep DEF Known
  <2> QED
    BY <2>2, <2>3, <2>4, <2>5, <2>6 DEF Known
<1> QED
  BY <1>1, <1>2

----------------------------------------------------------------------------
(***************************************************************************)
(* What a detached device leaves.                                          *)
(***************************************************************************)
\* Nobody connects to a device that is gone.
LEMMA StaysDisconnected ==
  ASSUME TypeOK, PermissionInv, HasBlock, [Next]_vars, NEW d \in Devices, NEW b,
         Gone(d), Disconnected(d, b)
  PROVE  Disconnected(d, b)'
<1> SUFFICES ASSUME NEW c \in 1..Len(blocks') \ {b},
                    blocks'[c].dev = d, blocks'[c].open
             PROVE  blocks'[c].clone \/ c \in dropped' \/ "connect" \in races'
  BY DEF Disconnected
<1>1. CASE c \in 1..Len(blocks)
  BY <1>1, BlocksStep, DroppedGrows, RacesStep DEF BlocksGrow, Disconnected
<1>2. CASE c \notin 1..Len(blocks)
  <2>1. d \notin granted
    BY DEF PermissionInv, Gone
  <2> QED
    BY <1>2, <2>1, NewBlock DEF MadeBy
<1> QED
  BY <1>1, <1>2

\* When the receiver has taken the entry away, only its block is left.
LEMMA DetachedAlone ==
  ASSUME TypeOK, PermissionInv, BlockInv, OpenIsKnown, ReceiveDetached
  PROVE  Disconnected(main.dev, main.blk)'
<1>0. /\ UNCHANGED <<blocks, dropped, hand, client>> /\ main.at = "idle"
      /\ main' = [at |-> RemovedIsClosed, dev |-> Head(inbox).dev,
                  blk |-> map[Head(inbox).dev]]
      /\ races' = races \union Creating({Head(inbox).dev})
  BY DEF ReceiveDetached, mainKeeps, Race
<1> SUFFICES ASSUME NEW c \in 1..Len(blocks), c # map[Head(inbox).dev],
                    blocks[c].dev = Head(inbox).dev, blocks[c].open,
                    ~blocks[c].clone, c \notin dropped
             PROVE  "connect" \in races'
  BY <1>0 DEF Disconnected
<1>1. Known(c)
  BY DEF OpenIsKnown, Known
<1>2. InHands(c) \/ "connect" \in races
  BY <1>1 DEF Known
<1>3. CASE hand.at \in CreatePoints /\ hand.blk = c
  <2>1. hand.dev = Head(inbox).dev
    BY <1>3 DEF BlockInv, HasBlock, MadeOpen, EntryOf, CreatePoints
  <2> QED
    BY <1>0, <1>3, <2>1 DEF Creating
<1>4. CASE client.at \in CreatePoints /\ client.blk = c
  <2>1. client.dev = Head(inbox).dev
    BY <1>4 DEF BlockInv, HasBlock, MadeOpen, EntryOf, CreatePoints
  <2> QED
    BY <1>0, <1>4, <2>1 DEF Creating
<1> QED
  BY <1>0, <1>2, <1>3, <1>4 DEF InHands

\* The main thread goes from closing to onDettach when nothing is left open.
LEMMA MainDettach ==
  ASSUME TypeOK, PermissionInv, BlockInv, OpenIsKnown, DettachInv, DestroyInv,
         [Next]_vars
  PROVE  /\ main'.at \in {"close", "forget"} =>
               destroyed' \/ Disconnected(main.dev, main.blk)'
         /\ main'.at = "detached" => ~destroyed' /\ Disconnected(main.dev, 0)'
<1>0. /\ main \in Thread(MainPoints) /\ destroyed \in BOOLEAN
      /\ BlockType /\ HasBlock /\ ClosedFirst
  BY DEF TypeOK, ThreadType, WorldType, BlockInv
<1>1. CASE UNCHANGED main
  <2>1. main.at \in {"close", "forget", "detached"} => UNCHANGED destroyed
    BY <1>0
    DEF Next, System, MainRuns, HandlerRuns, ClientRuns, Application, vars,
        handlerKeeps, clientKeeps, Register, Unregister, ReceivePermission,
        ReceiveDetached, MainCloses, MainForgets, DestroyRemoves, DestroyMarks,
        ProcessDettach, DestroyClears, HandlerTakes, CheckBegins, ConnectGets,
        ConnectCreates, ConnectPuts, ConnectTells, CheckLists, CheckCompares,
        CheckCounts, CheckPosts, RequestPermission, OpenDevice, CameraOpens,
        ClientCloses, ClientForgets, ClientCreates, ClientPuts, HasPermission,
        ContextGone, contextVars
  <2>2. main.at \in {"close", "forget", "detached"} =>
            main.dev \in Devices /\ (destroyed \/ Gone(main.dev))
    BY DEF PermissionInv
  <2>3. ASSUME NEW b, main.at \in {"close", "forget", "detached"}, ~destroyed,
               Disconnected(main.dev, b)
        PROVE  Disconnected(main.dev, b)'
    BY <1>0, <1>1, <2>2, <2>3, StaysDisconnected DEF Disconnected
  <2>4. ASSUME main.at \in {"close", "forget"}
        PROVE  destroyed' \/ Disconnected(main.dev, main.blk)'
    <3>1. destroyed \/ Disconnected(main.dev, main.blk)'
      BY <1>0, <1>1, <2>2, <2>4, StaysDisconnected
      DEF DettachInv, Disconnected
    <3> QED
      BY <2>1, <2>4, <3>1
  <2>5. ASSUME main.at = "detached"
        PROVE  ~destroyed' /\ Disconnected(main.dev, 0)'
    BY <1>0, <2>1, <2>3, <2>5 DEF DettachInv
  <2> QED
    BY <1>1, <2>4, <2>5
<1>2. CASE ReceiveDetached
  <2>1. Disconnected(main.dev, main.blk)' /\ ~destroyed'
    BY <1>2, DetachedAlone DEF ReceiveDetached, mainKeeps
  <2>2. main'.at = "detached" => main'.blk = 0
    BY <1>2 DEF ReceiveDetached, RemovedIsClosed
  <2> QED
    BY <2>1, <2>2 DEF Disconnected
<1>3. CASE MainCloses
  <2>1. UNCHANGED <<destroyed, dropped, races>> /\ main.at = "close"
    BY <1>3 DEF MainCloses, entryVars
  <2>2. /\ main'.dev = main.dev /\ main'.blk = main.blk
        /\ \/ main'.at = "forget"
           \/ main'.at = AfterClose /\ ~blocks[main.blk].open /\ UNCHANGED blocks
    BY <1>0, <1>3 DEF MainCloses, GoMain, Thread
  <2>3. BlocksGrow
    BY BlocksStep, <1>0
  <2>4. \/ destroyed
        \/ /\ main.dev \in Devices /\ Gone(main.dev)
           /\ Disconnected(main.dev, main.blk)
    BY <2>1 DEF DettachInv, PermissionInv
  <2>5. destroyed \/ Disconnected(main.dev, main.blk)'
    BY <1>0, <2>2, <2>4, StaysDisconnected DEF Disconnected
  <2>6. main'.at = "detached" => ~destroyed /\ Disconnected(main.dev, 0)'
    BY <2>2, <2>5 DEF AfterClose, Disconnected
  <2> QED
    BY <2>1, <2>5, <2>6
<1>4. CASE MainForgets
  <2>1. UNCHANGED <<destroyed, blocks, races>> /\ main.at = "forget"
    BY <1>4 DEF MainForgets
  <2>2. main'.dev = main.dev /\ main'.at = AfterClose
    BY <1>0, <1>4 DEF MainForgets, GoMain, Thread
  <2>3. destroyed \/ Disconnected(main.dev, main.blk)
    BY <2>1 DEF DettachInv
  <2>4. ~blocks[main.blk].open
    BY <1>0, <2>1 DEF ClosedFirst
  <2>5. destroyed \/ Disconnected(main.dev, 0)'
    BY <2>1, <2>2, <2>3, <2>4, DroppedGrows DEF Disconnected
  <2> QED
    BY <2>1, <2>2, <2>5 DEF AfterClose
<1>5. CASE DestroyRemoves
  <2>1. destroyed'
    BY <1>5 DEF DestroyRemoves, DestroyInv
  <2>2. main'.at # "detached"
    BY <1>0, <1>5 DEF DestroyRemoves, GoMain, Thread
  <2> QED
    BY <2>1, <2>2
<1>6. CASE Unregister \/ DestroyMarks \/ main' = Idle
  BY <1>0, <1>6 DEF Unregister, DestroyMarks, GoMain, Thread, Idle
<1> QED
  BY <1>1, <1>2, <1>3, <1>4, <1>5, <1>6, MainMoves

\* Every step keeps what onDettach promises.
LEMMA DettachStep ==
  ASSUME TypeOK, PermissionInv, BlockInv, OpenIsKnown, DettachInv, DestroyInv,
         [Next]_vars
  PROVE  DettachInv'
<1>1. ASSUME NEW r \in Range(queue'), r.kind = "detach"
      PROVE  Gone(r.dev)' /\ Disconnected(r.dev, 0)'
  <2>1. CASE r \in Range(queue)
    <3>1. r.dev \in Devices /\ Gone(r.dev) /\ Disconnected(r.dev, 0)
      BY <1>1, <2>1, Queued DEF TypeOK, DettachInv
    <3> QED
      BY <3>1, GoneStays, StaysDisconnected DEF BlockInv
  <2>2. CASE ProcessDettach /\ r.dev = main.dev
    <3>1. /\ main.dev \in Devices /\ Gone(main.dev) /\ Disconnected(main.dev, 0)
      BY <2>2 DEF ProcessDettach, PermissionInv, DettachInv
    <3> QED
      BY <2>2, <3>1, GoneStays, StaysDisconnected DEF BlockInv
  <2> QED
    BY <1>1, <2>1, <2>2, QueueStep DEF QueueGrows, MayBePosted
<1> QED
  BY <1>1, MainDettach DEF DettachInv

----------------------------------------------------------------------------
(***************************************************************************)
(* The invariant and what follows from it.                                 *)
(***************************************************************************)
\* The initial state satisfies the invariant.
LEMMA InitInv == ASSUME Init PROVE IInv
<1>1. Range(<<>>) = {} /\ Len(<<>>) = 0
  BY Emptied, EmptySeq
<1>2. /\ <<>> \in Seq(Broadcasts) /\ <<>> \in Seq(Block) /\ <<>> \in Seq(Runnables)
  BY Emptied
<1>3. TypeOK
  <2>1. Idle \in Thread(MainPoints) /\ Idle \in Thread(ClientPoints)
        /\ Idle \in Thread(HandlerPoints)
    BY DEF Idle, Thread, MainPoints, ClientPoints, HandlerPoints
  <2>2. WorldType
    BY <1>2 DEF Init, WorldType
  <2>3. BlockType
    BY <1>1, <1>2 DEF Init, BlockType
  <2>4. ThreadType
    BY <1>2, <2>1 DEF Init, ThreadType, HandlerPoints
  <2> QED
    BY <2>2, <2>3, <2>4 DEF TypeOK
<1>4. PermissionInv
  BY <1>1 DEF Init, PermissionInv, Idle, ConnectPoints, CreatePoints
<1>5. BlockInv
  BY <1>1
  DEF Init, BlockInv, HasBlock, ClosedFirst, MakesAlone, MadeOpen,
      EntriesOpen, Idle
<1>6. OpenIsKnown /\ DettachInv
  BY <1>1 DEF Init, OpenIsKnown, DettachInv, Idle
<1>7. DestroyInv /\ OneCheck
  BY DEF Init, DestroyInv, OneCheck, Running, Idle, CheckPoints
<1> QED
  BY <1>3, <1>4, <1>5, <1>6, <1>7 DEF IInv

\* Every step keeps it.
LEMMA NextInv == ASSUME IInv, [Next]_vars PROVE IInv'
<1>1. TypeOK /\ PermissionInv /\ BlockInv /\ HasBlock /\ OpenIsKnown /\ DettachInv
      /\ DestroyInv /\ OneCheck
  BY DEF IInv, BlockInv
<1> QED
  BY <1>1, TypeStep, PermissionStep, BlockInvStep, OpenIsKnownStep,
     DettachStep, DestroyStep, OneCheckStep
  DEF IInv

\* The inductive invariant holds of every behaviour.
THEOREM Invariant == Spec => []IInv
  BY InitInv, NextInv, PTL DEF Spec

\* Every variable keeps its type.
THEOREM TypeCorrect == Spec => []TypeOK
<1>1. IInv => TypeOK
  BY DEF IInv
<1> QED
  BY <1>1, Invariant, PTL

\* An entry of mCtrlBlocks has a connection, or is being removed, or its device
\* is gone.
THEOREM EntriesAreOpen == Spec => []MapHoldsOpen
<1>1. IInv => MapHoldsOpen
  <2> SUFFICES ASSUME IInv, NEW d \in Devices, map[d] # 0
               PROVE  \/ Open(map[d])
                      \/ Closing(main, map[d]) \/ Closing(client, map[d])
                      \/ d \notin granted
    BY DEF MapHoldsOpen
  <2>1. map[d] \in 1..Len(blocks)
    BY LenProperties DEF IInv, TypeOK, BlockType
  <2>2. Gone(d) => d \notin granted
    BY DEF IInv, PermissionInv, Gone
  <2> QED
    BY <2>1, <2>2 DEF IInv, BlockInv, EntriesOpen, Open
<1> QED
  BY <1>1, Invariant, PTL

\* A connection that is open can be found and closed, or was displaced.
THEOREM ConnectionsAreKnown == Spec => []OpenIsKnown
<1>1. IInv => OpenIsKnown
  BY DEF IInv
<1> QED
  BY <1>1, Invariant, PTL

\* onDettach is posted when the connections to the device are closed.
THEOREM DettachComesLast == Spec => []DettachAfterDisconnect
<1>1. IInv => DettachAfterDisconnect
  BY LenProperties
  DEF IInv, DettachInv, Disconnected, DettachAfterDisconnect, TypeOK,
      BlockType
<1> QED
  BY <1>1, Invariant, PTL

\* destroy leaves no entry, and no connection but displaced ones.
THEOREM DestroyedIsEmpty == Spec => []DestroyReleases
<1>1. IInv => DestroyReleases
  <2> SUFFICES ASSUME IInv, quit, "connect" \notin races
               PROVE  /\ \A d \in Devices : map[d] = 0
                      /\ \A b \in 1..Len(blocks) :
                            blocks[b].open =>
                                blocks[b].clone \/ b \in dropped \/ InHands(b)
    BY DEF DestroyReleases
  <2>1. \A d \in Devices : map[d] = 0
    BY DEF IInv, DestroyInv
  <2>2. \A b \in 1..Len(blocks) : blocks[b].dev \in Devices
    BY BlockHasDevice DEF IInv, TypeOK
  <2> QED
    BY <2>1, <2>2 DEF IInv, OpenIsKnown
<1> QED
  BY <1>1, Invariant, PTL

\* There is one periodic check while registered, and none while not, besides
\* those that unregister met running and those posted without a context.
THEOREM CheckIsAlone == Spec => []OneCheck
<1>1. IInv => OneCheck
  BY DEF IInv
<1> QED
  BY <1>1, Invariant, PTL

=============================================================================
