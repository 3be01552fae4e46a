----------------------------- MODULE UsbMonitor -----------------------------
(***************************************************************************)
(* USBMonitor.java: which USB devices there are, the permission to use     *)
(* them, and the connections (UsbControlBlock) opened to them.             *)
(*                                                                         *)
(* Three threads: the main thread (register, unregister, destroy and the   *)
(* broadcast receiver), the handler thread (what is posted to              *)
(* mAsyncHandler, and the periodic check) and the application's own thread *)
(* (UVCCamera's clone and close, UsbControlBlock.close, openDevice).       *)
(* requestPermission is one step of any thread.  Steps are the sections    *)
(* under one lock, or between two uses of a shared field.                  *)
(*                                                                         *)
(* Android's UsbManager is modelled by what it tells the monitor: a device *)
(* is plugged in at most once (a second time it has another name), and its *)
(* permission ends with it.                                                *)
(***************************************************************************)
EXTENDS Integers, Sequences, FiniteSets, Functions

CONSTANTS
    Devices,
    MaxBlocks,   \* bound: control blocks created, or asked for
    MaxQueue,    \* bound: runnables waiting when requestPermission is called,
                 \* or when a check begins
    MaxChecks,   \* bound: checks pending before register is called again
    MaxAttached, \* bound: devices plugged in at the same time
    ContextEnds  \* bound: whether the context may be collected

None == "none"

ASSUME MonitorConstants ==
    /\ IsFiniteSet(Devices) /\ None \notin Devices
    /\ {MaxBlocks, MaxQueue, MaxChecks, MaxAttached} \subseteq Nat
    /\ ContextEnds \in BOOLEAN

VARIABLES
    usb,         \* each device: "new", "in" or "out"
    granted,     \* devices the user allowed
    asked,       \* devices the user is being asked about
    inbox,       \* broadcasts on their way to mUsbReceiver
    context,     \* mWeakContext has not been cleared
    registered,  \* mPermissionIntent is set
    listening,   \* Android has the receiver
    destroyed,   \* destroyed
    counts,      \* mDeviceCounts
    hasPerm,     \* mHasPermissions
    blocks,      \* every UsbControlBlock: its device, mConnection, clone or not
    map,         \* mCtrlBlocks, 0 for no entry
    handed,      \* blocks the application got
    queue,       \* runnables posted to mAsyncHandler
    timers,      \* delayed mDeviceCheckRunnable; one runs when its time comes
    quit,        \* the looper has quit
    main, hand, client,  \* the three threads: where, which device and block
    seen,        \* the check's device list
    camera,      \* UVCCamera.mCtrlBlock
    crashed,     \* an exception ended the process
    announced,   \* ghost: devices onAttach was called with
    dropped,     \* ghost: blocks that lost their entry without being closed
    stray,       \* ghost: checks that nothing will remove
    races        \* ghost: what overlapped, see Race

worldVars == <<usb, granted, asked>>
contextVars == <<context, registered, listening, stray>>
looperVars == <<queue, timers, quit>>
entryVars == <<map, dropped>>
blockVars == <<blocks, entryVars>>
mainKeeps == <<worldVars, handed, hand, client, seen, announced, camera,
               crashed>>
handlerKeeps == <<worldVars, inbox, contextVars, destroyed, main, client, camera,
                  races>>
clientKeeps == <<worldVars, inbox, contextVars, destroyed, counts, looperVars,
                 main, hand, seen, announced, races>>
vars == <<worldVars, inbox, contextVars, destroyed, counts, hasPerm, blockVars,
          handed, looperVars, main, hand, client, seen, camera, crashed,
          announced, races>>

----------------------------------------------------------------------------
Block == [dev : Devices, open : BOOLEAN, clone : BOOLEAN]

MainPoints == {"idle", "close", "forget", "detached", "mark", "next", "clear"}
CheckPoints == {"list", "permit", "count", "announce"}
CreatePoints == {"create", "info", "put"}
ConnectPoints == {"get", "tell"} \union CreatePoints
ClientPoints == {"idle", "forget"} \union CreatePoints

Thread(points) == [at : points, dev : Devices \union {None}, blk : Nat]
Idle == [at |-> "idle", dev |-> None, blk |-> 0]

Broadcasts == [kind : {"granted", "denied", "detached"}, dev : Devices]
Runnables ==
    [kind : {"connect", "cancel", "attach", "detach"}, dev : Devices]

WorldType ==
    /\ usb \in [Devices -> {"new", "in", "out"}]
    /\ granted \subseteq Devices /\ asked \subseteq Devices
    /\ inbox \in Seq(Broadcasts)
    /\ {context, registered, listening, destroyed} \subseteq BOOLEAN
    /\ stray \in Nat
    /\ counts \in Nat /\ hasPerm \subseteq Devices

BlockType ==
    /\ blocks \in Seq(Block)
    /\ map \in [Devices -> 0..Len(blocks)]
    /\ handed \subseteq 1..Len(blocks) /\ dropped \subseteq 1..Len(blocks)
    /\ camera \in 0..Len(blocks)

ThreadType ==
    /\ queue \in Seq(Runnables) /\ timers \in Nat /\ quit \in BOOLEAN
    /\ main \in Thread(MainPoints)
    /\ hand \in Thread({"idle"} \union CheckPoints \union ConnectPoints)
    /\ client \in Thread(ClientPoints)
    /\ seen \subseteq Devices /\ announced \subseteq Devices
    /\ crashed \in BOOLEAN
    /\ races \subseteq {"count", "connect"}

TypeOK == WorldType /\ BlockType /\ ThreadType

Init ==
    /\ usb = [d \in Devices |-> "new"] /\ granted = {} /\ asked = {}
    /\ inbox = <<>>
    /\ context = TRUE /\ registered = FALSE /\ listening = FALSE /\ stray = 0
    /\ destroyed = FALSE /\ counts = 0 /\ hasPerm = {}
    /\ blocks = <<>> /\ map = [d \in Devices |-> 0] /\ handed = {}
    /\ queue = <<>> /\ timers = 0 /\ quit = FALSE
    /\ main = Idle /\ hand = Idle /\ client = Idle
    /\ seen = {} /\ camera = 0
    /\ crashed = FALSE
    /\ announced = {} /\ dropped = {} /\ races = {}

MainAt(point) == main.at = point /\ ~crashed
HandlerAt(point) == hand.at = point /\ ~crashed
ClientAt(point) == client.at = point /\ ~crashed

----------------------------------------------------------------------------
(***************************************************************************)
(* The system: devices come and go, the user answers.                      *)
(***************************************************************************)
Attached == {d \in Devices : usb[d] = "in"}

\* Only a registered receiver gets a broadcast.
Broadcast(kind, d) ==
    inbox' = IF listening THEN Append(inbox, [kind |-> kind, dev |-> d])
                          ELSE inbox

Plug(d) ==
    /\ usb[d] = "new" /\ Cardinality(Attached) < MaxAttached
    /\ usb' = [usb EXCEPT ![d] = "in"]
    /\ UNCHANGED <<granted, asked, inbox>>

Unplug(d) ==
    /\ usb[d] = "in"
    /\ usb' = [usb EXCEPT ![d] = "out"]
    /\ granted' = granted \ {d}
    /\ Broadcast("detached", d)
    /\ UNCHANGED asked

UserAnswers(d) ==
    /\ d \in asked
    /\ asked' = asked \ {d}
    /\ \/ usb[d] = "in" /\ granted' = granted \union {d}
          /\ Broadcast("granted", d)
       \/ UNCHANGED granted /\ Broadcast("denied", d)
    /\ UNCHANGED usb

\* The context is destroyed and collected.  Android then takes back what was
\* registered through it, unless that was done for another context that this
\* one wraps.
ContextGone ==
    /\ ContextEnds /\ context /\ context' = FALSE
    /\ \/ UNCHANGED <<listening, inbox>>
       \/ listening' = FALSE /\ inbox' = <<>>
    /\ UNCHANGED worldVars

System ==
    /\ ~crashed
    /\ \/ /\ \E d \in Devices : Plug(d) \/ Unplug(d) \/ UserAnswers(d)
          /\ UNCHANGED <<context, listening>>
       \/ ContextGone
    /\ UNCHANGED <<looperVars, blockVars, registered, stray, destroyed, counts,
                   hasPerm, handed, main, hand, client, seen, camera, crashed,
                   announced, races>>

----------------------------------------------------------------------------
(***************************************************************************)
(* What several of the methods do.                                         *)
(***************************************************************************)
\* mAsyncHandler.post: a looper that has quit drops the runnable.
Post(kind, d) ==
    queue' = IF quit THEN queue ELSE Append(queue, [kind |-> kind, dev |-> d])

UpdatePermission(d) ==
    hasPerm' = IF d \in granted THEN hasPerm \union {d} ELSE hasPerm \ {d}

ProcessConnect(d) ==
    IF destroyed THEN UNCHANGED <<hasPerm, queue>>
    ELSE hasPerm' = hasPerm \union {d} /\ Post("connect", d)

ProcessCancel(d) ==
    IF destroyed THEN UNCHANGED <<hasPerm, queue>>
    ELSE hasPerm' = hasPerm \ {d} /\ Post("cancel", d)

\* What the main thread's step overlaps: a check that will write the count of an
\* older list, or a thread that has opened a connection to d and not entered it
\* in the map.
Race(what) == races' = races \union what

Counting ==
    IF hand.at \in {"permit", "count"} THEN {"count"} ELSE {}
Creating(D) ==
    IF \E t \in {hand, client} : t.at \in CreatePoints /\ t.dev \in D
    THEN {"connect"} ELSE {}

\* A new UsbControlBlock: UsbManager.openDevice gives no connection to a device
\* that is gone.
Create(d, clone) ==
    blocks' = Append(blocks, [dev |-> d, open |-> d \in granted,
                              clone |-> clone])

Created == Len(blocks) + 1

\* The bound, on what the application may still ask for.
Connects == {i \in 1..Len(queue) : queue[i].kind = "connect"}
Grants == {i \in 1..Len(inbox) : inbox[i].kind = "granted"}
MayCreate == {t \in {hand, client} : t.at \in {"get", "create"}}
CanCreate ==
    Len(blocks) + Cardinality(Connects) + Cardinality(Grants)
        + Cardinality(asked) + Cardinality(MayCreate) < MaxBlocks

\* Mutant: the block is handed out without being entered.
NotEntered(d, b) == UNCHANGED entryVars

\* mCtrlBlocks.put: what was there is no longer known.
Enter(d, b) ==
    /\ dropped' = IF map[d] \in {0, b} THEN dropped ELSE dropped \union {map[d]}
    /\ map' = [map EXCEPT ![d] = b]

\* UsbControlBlock.close is synchronized; onDisconnect is called by the thread
\* that finds the connection, before it removes the device from the map.
CanLock(b) == \A t \in {main, client} : ~(t.at = "forget" /\ t.blk = b)

\* Mutant: the connection stays open.
KeepConnection(b) == UNCHANGED blocks

Close(b) == blocks' = [blocks EXCEPT ![b].open = FALSE]

\* Mutant: close leaves the entry.
LeaveEntry(b) == UNCHANGED entryVars

\* monitor.mCtrlBlocks.remove(getDevice()), whichever block is there.
RemoveEntry(b) ==
    LET d == blocks[b].dev
    IN  /\ map' = [map EXCEPT ![d] = 0]
        /\ dropped' = IF map[d] \in {0, b} THEN dropped
                                           ELSE dropped \union {map[d]}

----------------------------------------------------------------------------
(***************************************************************************)
(* The main thread.                                                        *)
(***************************************************************************)
GoMain(point) == main' = [main EXCEPT !.at = point]

\* register: without a context mPermissionIntent stays null, but the check is
\* posted all the same, and again by the next call.
Register ==
    /\ MainAt("idle") /\ ~destroyed /\ ~registered /\ timers < MaxChecks
    /\ IF context
       THEN registered' = TRUE /\ listening' = TRUE /\ UNCHANGED stray
       ELSE stray' = stray + 1 /\ UNCHANGED <<registered, listening>>
    /\ counts' = 0
    /\ timers' = timers + 1
    /\ Race(Counting)
    /\ UNCHANGED <<mainKeeps, blockVars, inbox, context, destroyed, hasPerm,
                   queue, quit, main>>

\* Mutant: the check is left to find out for itself.
LeaveCheck == UNCHANGED timers

\* mAsyncHandler.removeCallbacks(mDeviceCheckRunnable)
RemoveCheck == timers' = IF destroyed THEN timers ELSE 0

\* The check that runs is not among the callbacks, and posts itself again.
Running == IF hand.at \in CheckPoints THEN 1 ELSE 0

\* unregister, also the first thing destroy does.  Without the context the
\* receiver stays where it is.
Unregister ==
    /\ MainAt("idle")
    /\ counts' = 0
    /\ RemoveCheck
    /\ registered' = FALSE
    /\ IF registered /\ context
       THEN listening' = FALSE /\ inbox' = <<>>
       ELSE UNCHANGED <<listening, inbox>>
    /\ stray' = IF destroyed THEN stray ELSE Running
    /\ Race(Counting)
    /\ main' \in {Idle, [Idle EXCEPT !.at = "mark"]}
    /\ UNCHANGED <<mainKeeps, blockVars, context, destroyed, hasPerm, queue,
                   quit>>

\* onReceive, ACTION_USB_PERMISSION.
ReceivePermission ==
    /\ MainAt("idle") /\ ~destroyed /\ inbox # <<>>
    /\ Head(inbox).kind # "detached"
    /\ inbox' = Tail(inbox)
    /\ IF Head(inbox).kind = "granted" THEN ProcessConnect(Head(inbox).dev)
                                       ELSE ProcessCancel(Head(inbox).dev)
    /\ UNCHANGED <<mainKeeps, blockVars, contextVars, destroyed, counts, timers,
                   quit, main, races>>

\* Mutant: the block is only removed.
RemovedIsForgotten == "detached"

RemovedIsClosed == IF map[Head(inbox).dev] = 0 THEN "detached" ELSE "close"

\* onReceive, ACTION_USB_DEVICE_DETACHED: the block is removed from the map,
\* then closed.
ReceiveDetached ==
    /\ MainAt("idle") /\ ~destroyed /\ inbox # <<>>
    /\ Head(inbox).kind = "detached"
    /\ inbox' = Tail(inbox)
    /\ LET d == Head(inbox).dev
       IN  /\ main' = [at |-> RemovedIsClosed, dev |-> d, blk |-> map[d]]
           /\ map' = [map EXCEPT ![d] = 0]
           /\ Race(Creating({d}))
    /\ UNCHANGED <<mainKeeps, looperVars, contextVars, destroyed, counts,
                   hasPerm, blocks, dropped>>

\* destroy closes one block after the other, the receiver only one.
AfterClose == IF destroyed THEN "next" ELSE "detached"

MainCloses ==
    /\ MainAt("close") /\ CanLock(main.blk)
    /\ IF blocks[main.blk].open THEN Close(main.blk) /\ GoMain("forget")
                                ELSE GoMain(AfterClose) /\ UNCHANGED blocks
    /\ UNCHANGED <<mainKeeps, looperVars, entryVars, inbox, contextVars,
                   destroyed, counts, hasPerm, races>>

MainForgets ==
    /\ MainAt("forget")
    /\ RemoveEntry(main.blk)
    /\ GoMain(AfterClose)
    /\ UNCHANGED <<mainKeeps, looperVars, inbox, contextVars, destroyed, counts,
                   hasPerm, blocks, races>>

\* Mutants: the number of devices is kept; it is one less, for the device that
\* has gone.
KeepCount == UNCHANGED counts
CountDown == counts' = counts - 1
ResetCount == counts' = 0

ProcessDettach ==
    /\ MainAt("detached")
    /\ ResetCount
    /\ Race(Counting)
    /\ Post("detach", main.dev)
    /\ main' = Idle
    /\ UNCHANGED <<mainKeeps, blockVars, inbox, contextVars, destroyed, hasPerm,
                   timers, quit>>

\* destroy, after unregister.  Nothing more is done the second time.  An entry
\* made while the loop runs is visited; one that it misses is cleared after it.
DestroyMarks ==
    /\ MainAt("mark")
    /\ destroyed' = TRUE
    /\ IF destroyed THEN main' = Idle ELSE GoMain("next")
    /\ UNCHANGED <<mainKeeps, looperVars, blockVars, inbox, contextVars, counts,
                   hasPerm, races>>

DestroyRemoves ==
    /\ MainAt("next")
    /\ \/ \E d \in Devices :
             /\ map[d] # 0
             /\ main' = [at |-> "close", dev |-> d, blk |-> map[d]]
             /\ map' = [map EXCEPT ![d] = 0]
       \/ /\ \A d \in Devices : map[d] = 0
          /\ GoMain("clear")
          /\ UNCHANGED map
    /\ Race(Creating(Devices))
    /\ UNCHANGED <<mainKeeps, looperVars, inbox, contextVars, destroyed, counts,
                   hasPerm, blocks, dropped>>

QuitLooper == quit' = TRUE /\ queue' = <<>> /\ timers' = 0

\* mCtrlBlocks.clear, with what was entered since, and the end of the looper.
DestroyClears ==
    /\ MainAt("clear")
    /\ map' = [d \in Devices |-> 0]
    /\ Race(IF hand.at = "get" \/ \E d \in Devices : map[d] # 0
            THEN {"connect"} ELSE Creating(Devices))
    /\ QuitLooper
    /\ main' = Idle
    /\ UNCHANGED <<mainKeeps, inbox, contextVars, destroyed, counts, hasPerm,
                   blocks, dropped>>

----------------------------------------------------------------------------
(***************************************************************************)
(* The handler thread: the runnable of processConnect, the other callbacks *)
(* of the listener, and mDeviceCheckRunnable.                              *)
(***************************************************************************)
GoHandler(point) == hand' = [hand EXCEPT !.at = point]

HandlerTakes ==
    /\ HandlerAt("idle") /\ ~quit /\ queue # <<>>
    /\ queue' = Tail(queue)
    /\ LET r == Head(queue)
       IN  /\ hand' = IF r.kind = "connect"
                      THEN [at |-> "get", dev |-> r.dev, blk |-> 0] ELSE Idle
           /\ announced' = IF r.kind = "attach" THEN announced \union {r.dev}
                                               ELSE announced
    /\ UNCHANGED <<handlerKeeps, blockVars, counts, hasPerm, handed, timers,
                   quit, seen, crashed>>

\* The time of a delayed check has come, perhaps before that of runnables posted
\* while the thread was busy.
CheckBegins ==
    /\ HandlerAt("idle") /\ ~quit /\ timers > 0 /\ Len(queue) <= MaxQueue
    /\ timers' = timers - 1
    /\ hand' = IF destroyed THEN Idle ELSE [Idle EXCEPT !.at = "list"]
    /\ UNCHANGED <<handlerKeeps, blockVars, counts, hasPerm, handed, queue, quit,
                   seen, crashed, announced>>

ConnectGets ==
    /\ HandlerAt("get")
    /\ hand' = [hand EXCEPT !.at = IF map[hand.dev] = 0 THEN "create" ELSE "tell",
                            !.blk = map[hand.dev]]
    /\ UNCHANGED <<handlerKeeps, looperVars, blockVars, counts, hasPerm, handed,
                   seen, crashed, announced>>

ConnectTells ==
    /\ HandlerAt("tell")
    /\ handed' = handed \union {hand.blk}
    /\ hand' = Idle
    /\ UNCHANGED <<handlerKeeps, looperVars, blockVars, counts, hasPerm, seen,
                   crashed, announced>>

\* The constructor: it opens the connection; updateDeviceInfo opens a second one
\* if the device has permission, and does not expect that to fail.
Constructs(t) ==
    /\ t.at \in {"create", "info"}
    /\ IF t.at = "create" THEN Create(t.dev, FALSE) ELSE UNCHANGED blocks
    /\ crashed' = (t.at = "info" /\ t.dev \notin granted)

Constructed(t) ==
    IF t.at = "create"
    THEN [t EXCEPT !.at = IF t.dev \in granted THEN "info" ELSE "put",
                   !.blk = Created]
    ELSE [t EXCEPT !.at = "put"]

ConnectCreates ==
    /\ ~crashed
    /\ Constructs(hand) /\ hand' = Constructed(hand)
    /\ UNCHANGED <<handlerKeeps, looperVars, entryVars, counts, hasPerm, handed,
                   seen, announced>>

ConnectPuts ==
    /\ HandlerAt("put")
    /\ Enter(hand.dev, hand.blk)
    /\ GoHandler("tell")
    /\ UNCHANGED <<handlerKeeps, looperVars, counts, hasPerm, blocks, handed,
                   seen, crashed, announced>>

\* getDeviceList and hasPermission throw when the monitor has been destroyed.
CheckLists ==
    /\ HandlerAt("list")
    /\ crashed' = destroyed
    /\ seen' = Attached
    /\ GoHandler("permit")
    /\ UNCHANGED <<handlerKeeps, looperVars, blockVars, counts, hasPerm, handed,
                   announced>>

MoreDevices == Cardinality(seen) > counts

MorePermissions == Cardinality(seen \cap granted) > Cardinality(hasPerm)

CheckCompares ==
    /\ HandlerAt("permit")
    /\ crashed' = (destroyed /\ seen # {})
    /\ hasPerm' = seen \cap granted
    /\ IF MoreDevices \/ MorePermissions
       THEN GoHandler("count") /\ UNCHANGED seen
       ELSE GoHandler("announce") /\ seen' = {}
    /\ UNCHANGED <<handlerKeeps, looperVars, blockVars, counts, handed,
                   announced>>

CheckCounts ==
    /\ HandlerAt("count")
    /\ counts' = Cardinality(seen)
    /\ GoHandler("announce")
    /\ UNCHANGED <<handlerKeeps, looperVars, blockVars, hasPerm, handed, seen,
                   crashed, announced>>

\* onAttach is posted for every device of the list, then the check itself.
CheckPosts ==
    /\ HandlerAt("announce")
    /\ \/ \E d \in seen : Post("attach", d) /\ seen' = seen \ {d}
          /\ UNCHANGED <<timers, hand>>
       \/ seen = {} /\ timers' = (IF quit THEN timers ELSE timers + 1)
          /\ hand' = Idle /\ UNCHANGED <<queue, seen>>
    /\ UNCHANGED <<handlerKeeps, blockVars, counts, hasPerm, handed, quit,
                   crashed, announced>>

----------------------------------------------------------------------------
(***************************************************************************)
(* The application: requestPermission from any thread, and its own thread. *)
(***************************************************************************)
\* UsbManager.requestPermission asks the user, or throws.
RequestPermission(d) ==
    /\ ~crashed /\ usb[d] # "new" /\ Len(queue) + Len(inbox) < MaxQueue /\ CanCreate
    /\ IF ~registered \/ destroyed
       THEN ProcessCancel(d) /\ UNCHANGED asked
       ELSE IF d \in granted
            THEN ProcessConnect(d) /\ UNCHANGED asked
            ELSE \/ asked' = asked \union {d} /\ UNCHANGED <<hasPerm, queue>>
                 \/ ProcessCancel(d) /\ UNCHANGED asked
    /\ UNCHANGED <<blockVars, usb, granted, inbox, contextVars, destroyed,
                   counts, handed, timers, quit, main, hand, client, seen,
                   camera, crashed, announced, races>>

GoClient(point) == client' = [client EXCEPT !.at = point]

\* UVCCamera.open: a clone has a connection of its own, or there is none; the
\* clone of an earlier open is overwritten.  (What can fail after that leaves
\* mCtrlBlock set, and is left out, as the clone's updateDeviceInfo.)
CameraOpens(b) ==
    /\ ClientAt("idle") /\ b \in handed /\ CanCreate
    /\ blocks[b].dev \in granted
    /\ Create(blocks[b].dev, TRUE)
    /\ camera' = Created
    /\ UNCHANGED <<clientKeeps, entryVars, hasPerm, handed, client, crashed>>

\* UVCCamera.close closes the clone; the application may also close a block it
\* was handed.
ClientCloses(b) ==
    /\ ClientAt("idle") /\ b # 0 /\ b \in handed \union {camera} /\ CanLock(b)
    /\ IF blocks[b].open
       THEN /\ Close(b)
            /\ client' = [at |-> "forget", dev |-> None, blk |-> b]
       ELSE UNCHANGED <<blocks, client>>
    /\ camera' = IF b = camera THEN 0 ELSE camera
    /\ UNCHANGED <<clientKeeps, entryVars, hasPerm, handed, crashed>>

ClientForgets ==
    /\ ClientAt("forget")
    /\ RemoveEntry(client.blk)
    /\ client' = Idle
    /\ UNCHANGED <<clientKeeps, hasPerm, blocks, handed, camera, crashed>>

\* hasPermission, from any thread.
HasPermission(d) ==
    /\ ~crashed /\ ~destroyed /\ usb[d] # "new"
    /\ UpdatePermission(d)
    /\ UNCHANGED <<clientKeeps, blockVars, handed, client, camera, crashed>>

\* openDevice: the same look-up and construction without the handler thread, or
\* a SecurityException.
OpenDevice(d) ==
    /\ ClientAt("idle") /\ ~destroyed /\ usb[d] # "new"
    /\ UpdatePermission(d)
    /\ \/ /\ d \in granted /\ map[d] = 0 /\ CanCreate
          /\ client' = [at |-> "create", dev |-> d, blk |-> 0]
          /\ UNCHANGED handed
       \/ /\ d \in granted /\ map[d] # 0
          /\ handed' = handed \union {map[d]} /\ UNCHANGED client
       \/ d \notin granted /\ UNCHANGED <<handed, client>>
    /\ UNCHANGED <<clientKeeps, blockVars, camera, crashed>>

ClientCreates ==
    /\ ~crashed
    /\ Constructs(client) /\ client' = Constructed(client)
    /\ UNCHANGED <<clientKeeps, entryVars, hasPerm, handed, camera>>

ClientPuts ==
    /\ ClientAt("put")
    /\ Enter(client.dev, client.blk)
    /\ handed' = handed \union {client.blk}
    /\ client' = Idle
    /\ UNCHANGED <<clientKeeps, hasPerm, blocks, camera, crashed>>

----------------------------------------------------------------------------
MainRuns ==
    \/ ReceivePermission \/ ReceiveDetached \/ MainCloses \/ MainForgets
    \/ ProcessDettach \/ DestroyMarks \/ DestroyRemoves \/ DestroyClears

HandlerRuns ==
    \/ HandlerTakes \/ CheckBegins
    \/ ConnectGets \/ ConnectCreates \/ ConnectPuts \/ ConnectTells
    \/ CheckLists \/ CheckCompares \/ CheckCounts \/ CheckPosts

ClientRuns == ClientForgets \/ ClientCreates \/ ClientPuts

Application ==
    \/ Register \/ Unregister
    \/ \E d \in Devices :
          RequestPermission(d) \/ HasPermission(d) \/ OpenDevice(d)
    \/ \E b \in 1..Len(blocks) : CameraOpens(b) \/ ClientCloses(b)

Next ==
    \/ System \/ MainRuns \/ HandlerRuns \/ ClientRuns
    \/ Application

Spec == Init /\ [][Next]_vars

----------------------------------------------------------------------------
(***************************************************************************)
(* Safety.                                                                 *)
(***************************************************************************)
Open(b) == b \in 1..Len(blocks) /\ blocks[b].open
Closing(t, b) == t.at = "forget" /\ t.blk = b

\* "UsbControlBlocks that are open": an entry of mCtrlBlocks has a connection,
\* or is about to be removed by the thread that closed it, or was made when the
\* device had already gone.
MapHoldsOpen ==
    \A d \in Devices :
        map[d] # 0 =>
            \/ Open(map[d])
            \/ Closing(main, map[d]) \/ Closing(client, map[d])
            \/ d \notin granted

InHands(b) ==
    \/ main.at = "close" /\ main.blk = b
    \/ \E t \in {hand, client} : t.at \in CreatePoints /\ t.blk = b

\* A connection that the monitor has opened can still be found and closed:
\* unless its entry was removed by closing, or replaced by entering, another
\* block of the device, or it was entered while the device was detached or the
\* monitor destroyed.
OpenIsKnown ==
    \A b \in 1..Len(blocks) :
        blocks[b].open /\ ~blocks[b].clone =>
            \/ map[blocks[b].dev] = b \/ InHands(b)
            \/ b \in dropped \/ (quit /\ "connect" \in races)

\* onDettach is "called when device dettach(after onDisconnect)": once it is
\* posted no connection of the monitor to the device is left, but those that
\* were dropped or opened at the same time.
DettachAfterDisconnect ==
    \A r \in Range(queue) :
        r.kind = "detach" =>
            \A b \in 1..Len(blocks) :
                blocks[b].dev = r.dev /\ blocks[b].open =>
                    blocks[b].clone \/ b \in dropped \/ "connect" \in races

\* "Release all related resources": after destroy nothing is in the map and no
\* connection of the monitor is open, with the same exceptions.
DestroyReleases ==
    quit => \/ "connect" \in races
            \/ /\ \A d \in Devices : map[d] = 0
               /\ \A b \in 1..Len(blocks) :
                     blocks[b].open =>
                         blocks[b].clone \/ b \in dropped \/ InHands(b)

\* Devices are checked by one periodic check while the monitor is registered,
\* and by none while it is not, besides the checks that are known to be left to
\* themselves: the one that ran when unregister came, and posts itself again,
\* and one for each call of register since then that found no context.
OneCheck == timers + Running <= (IF registered THEN 1 ELSE 0) + stray

----------------------------------------------------------------------------
(***************************************************************************)
(* The inductive invariant.                                                *)
(***************************************************************************)
\* A device that is gone does not come back under its name, and only one that
\* the user allowed gets a control block.
Gone(d) == usb[d] = "out"
Allowed(d) == d \in granted \/ Gone(d)

PermissionInv ==
    /\ \A d \in granted : usb[d] = "in"
    /\ \A m \in Range(inbox) : IF m.kind = "detached" THEN Gone(m.dev)
                               ELSE m.kind = "granted" => Allowed(m.dev)
    /\ \A r \in Range(queue) : r.kind = "connect" => Allowed(r.dev)
    /\ hand.at \in ConnectPoints => hand.dev \in Devices /\ Allowed(hand.dev)
    /\ client.at \in CreatePoints => client.dev \in Devices /\ Allowed(client.dev)
    /\ main.at \in {"close", "forget", "detached"} =>
          main.dev \in Devices /\ (destroyed \/ Gone(main.dev))

\* Every thread is where it is with a block that exists.
HasBlock ==
    /\ main.at \in {"close", "forget"} => main.blk \in 1..Len(blocks)
    /\ hand.at \in {"info", "put", "tell"} => hand.blk \in 1..Len(blocks)
    /\ client.at \in {"info", "put", "forget"} => client.blk \in 1..Len(blocks)
    /\ \A t \in {hand, client} : t.at = "create" => t.blk = 0

\* A block is closed before its entry is removed.
ClosedFirst ==
    /\ main.at = "forget" => ~blocks[main.blk].open
    /\ client.at = "forget" => ~blocks[client.blk].open

\* A thread that makes a block is the only one to have it.
Unknown(b) ==
    /\ b \notin handed /\ b # camera
    /\ \A d \in Devices : map[d] # b
    /\ ~(main.at \in {"close", "forget"} /\ main.blk = b)
    /\ ~(hand.at = "tell" /\ hand.blk = b)
    /\ ~(client.at = "forget" /\ client.blk = b)

MakesAlone ==
    /\ hand.at \in {"info", "put"} => Unknown(hand.blk)
    /\ client.at \in {"info", "put"} => Unknown(client.blk)
    /\ hand.at \in {"info", "put"} /\ client.at \in {"info", "put"} =>
          hand.blk # client.blk

\* An entry, and a block about to be one, is no clone and is open.
EntryOf(d, b) == blocks[b].dev = d /\ ~blocks[b].clone

MadeOpen ==
    /\ hand.at \in {"info", "put"} =>
          /\ EntryOf(hand.dev, hand.blk)
          /\ blocks[hand.blk].open \/ Gone(hand.dev)
    /\ client.at \in {"info", "put"} =>
          /\ EntryOf(client.dev, client.blk)
          /\ blocks[client.blk].open \/ Gone(client.dev)

EntriesOpen ==
    \A d \in Devices :
        map[d] # 0 =>
            /\ EntryOf(d, map[d])
            /\ \/ blocks[map[d]].open \/ Gone(d)
               \/ Closing(main, map[d]) \/ Closing(client, map[d])

BlockInv == HasBlock /\ ClosedFirst /\ MakesAlone /\ MadeOpen /\ EntriesOpen

\* Nobody is connected to the device, but for block b.
Disconnected(d, b) ==
    \A c \in 1..Len(blocks) \ {b} :
        blocks[c].dev = d /\ blocks[c].open =>
            blocks[c].clone \/ c \in dropped \/ "connect" \in races

DettachInv ==
    /\ \A r \in Range(queue) :
          r.kind = "detach" => Gone(r.dev) /\ Disconnected(r.dev, 0)
    /\ main.at \in {"close", "forget"} =>
          destroyed \/ Disconnected(main.dev, main.blk)
    /\ main.at = "detached" => ~destroyed /\ Disconnected(main.dev, 0)

DestroyInv ==
    /\ main.at \in {"next", "clear"} \/ quit => destroyed
    /\ main.at = "mark" \/ destroyed => ~registered
    /\ quit /\ "connect" \notin races =>
          /\ \A d \in Devices : map[d] = 0
          /\ hand.at \notin {"get"} \union CreatePoints
          /\ client.at \notin CreatePoints

IInv ==
    /\ TypeOK /\ PermissionInv /\ BlockInv /\ OpenIsKnown /\ DettachInv
    /\ DestroyInv /\ OneCheck

----------------------------------------------------------------------------
(***************************************************************************)
(* Liveness.                                                               *)
(***************************************************************************)
\* The two loopers go on, and the application's thread finishes what it began.
Fairness ==
    /\ WF_vars(MainRuns)
    /\ WF_vars(HandlerRuns)
    /\ WF_vars(ClientRuns)

FairSpec == Spec /\ Fairness

Over == destroyed \/ crashed \/ ~registered \/ ~listening

\* "periodically check connected devices and if it changed, call onAttach":
\* while registered a device that is there is announced; unless the count was
\* reset between a check's reading the devices and writing their number, or the
\* receiver that hears of detached devices went with its context.
AttachAnnounced ==
    \A d \in Devices :
        usb[d] = "in" /\ registered
            ~> d \in announced \/ usb[d] = "out" \/ Over \/ "count" \in races

=============================================================================
