---------------------------- MODULE LibusbEvents ----------------------------
(***************************************************************************)
(* The event handling of libusb (io.c, sync.c, core.c) as its threads see  *)
(* it: one thread at a time polls and reaps finished transfers, the others *)
(* wait for it; a thread that changes the set of descriptors interrupts    *)
(* them all.                                                               *)
(*                                                                         *)
(* A thread of Callers makes synchronous control transfers, one at a time; *)
(* its transfer carries its name.  The thread "event" only handles events. *)
(* "status" and "stream" are the asynchronous transfers of libuvc, whose   *)
(* callbacks are UvcDevice's.  Who extends this module says what a thread  *)
(* does before, between and after.                                         *)
(*                                                                         *)
(* unlock_events clears event_handler_active, unlocks and broadcasts in    *)
(* one step: a waiter holds event_waiters_lock from its last look at the   *)
(* flags until it sleeps, so the broadcast never comes between the two.    *)
(* open_devs_lock is only taken by who has events_lock.                    *)
(***************************************************************************)
EXTENDS Naturals, Sequences, FiniteSets

CONSTANT Callers

ASSUME CallersAreThreads ==
    IsFiniteSet(Callers) /\ Callers \intersect {"event", "status", "stream", "none"} = {}

VARIABLES
    at,       \* where each thread is
    holder,   \* the owner of events_lock
    active,   \* event_handler_active
    modify,   \* pollfd_modify
    pipe,     \* bytes in ctrl_pipe
    waiting,  \* threads asleep on event_waiters_cond
    flying,   \* transfers in flight, the finished ones included
    ready,    \* finished transfers, in the order the kernel gives them
    done      \* synchronous transfers whose completed flag is set

lockVars == <<holder, active, waiting>>
pollVars == <<modify, pipe>>
xferVars == <<flying, ready, done>>
eventVars == <<at, lockVars, pollVars, xferVars>>

None == "none"
Threads == Callers \union {"event"}
Async == {"status", "stream"}
Transfers == Callers \union Async

HandlePoints ==
    {"try", "take", "waiter", "wait", "poll", "reap", "callback", "notify",
     "resubmit", "unlock"}
\* Where a thread that handles events has events_lock.
HandlerPoints == {"poll", "reap", "callback", "notify", "resubmit", "unlock"}

EventsType(points) ==
    /\ at \in [Threads -> points]
    /\ holder \in Threads \union {None}
    /\ active \in BOOLEAN
    /\ modify \in Nat /\ pipe \in Nat
    /\ waiting \subseteq Threads
    /\ flying \subseteq Transfers
    /\ ready \in Seq(Transfers)
    /\ done \subseteq Callers

EventsInit ==
    /\ at = [t \in Threads |-> IF t = "event" THEN "ended" ELSE "idle"]
    /\ holder = None /\ active = FALSE
    /\ modify = 0 /\ pipe = 0
    /\ waiting = {}
    /\ flying = {} /\ ready = <<>> /\ done = {}

Go(t, point) == at' = [at EXCEPT ![t] = point]

\* The caller's transfer is completed; handle_events has nobody to ask.
Completed(t) == t \in done

\* libusb_handle_events returns to the loop that called it.
Return(t) == Go(t, IF t = "event" THEN "check" ELSE "loop")

Finished == {ready[i] : i \in 1..Len(ready)}

----------------------------------------------------------------------------
\* libusb_control_transfer: the transfer is submitted, then events are handled
\* until it is completed.
SubmitSync(t) ==
    /\ flying' = flying \union {t}
    /\ Go(t, "loop")
    /\ UNCHANGED <<lockVars, pollVars, ready, done>>

SyncLoop(t) ==
    /\ at[t] = "loop"
    /\ IF Completed(t) THEN done' = done \ {t} /\ Go(t, "idle")
                       ELSE UNCHANGED done /\ Go(t, "try")
    /\ UNCHANGED <<lockVars, pollVars, flying, ready>>

----------------------------------------------------------------------------
\* try_lock_events: who modifies the descriptors goes first, but not when the
\* flag was read before.
ReadModify(t) ==
    /\ at[t] = "try"
    /\ Go(t, IF modify = 0 THEN "take" ELSE "waiter")
    /\ UNCHANGED <<lockVars, pollVars, xferVars>>

\* The completed flag is looked at again once the lock is taken.
TryLock(t) ==
    /\ at[t] = "take"
    /\ IF holder = None
       THEN /\ holder' = t /\ active' = TRUE
            /\ Go(t, IF Completed(t) THEN "unlock" ELSE "poll")
       ELSE UNCHANGED <<holder, active>> /\ Go(t, "waiter")
    /\ UNCHANGED <<waiting, pollVars, xferVars>>

HandlerActive == modify > 0 \/ active

\* Under event_waiters_lock: another look, then to sleep.
BecomeWaiter(t) ==
    /\ at[t] = "waiter"
    /\ IF Completed(t) THEN Return(t) /\ UNCHANGED waiting
       ELSE IF HandlerActive THEN Go(t, "wait") /\ waiting' = waiting \union {t}
       ELSE Go(t, "try") /\ UNCHANGED waiting
    /\ UNCHANGED <<holder, active, pollVars, xferVars>>

Woken(t) ==
    /\ at[t] = "wait" /\ t \notin waiting
    /\ Return(t)
    /\ UNCHANGED <<lockVars, pollVars, xferVars>>

WaitTimesOut(t) ==
    /\ at[t] = "wait" /\ t \in waiting
    /\ waiting' = waiting \ {t}
    /\ UNCHANGED <<at, holder, active, pollVars, xferVars>>

\* Mutant: the handler empties the pipe itself.
PollEmptiesPipe(t) ==
    /\ at[t] = "poll" /\ (pipe > 0 \/ ready # <<>>)
    /\ pipe' = 0
    /\ Go(t, IF ready # <<>> THEN "reap" ELSE "unlock")
    /\ UNCHANGED <<lockVars, modify, xferVars>>

\* poll returns for a finished transfer, or for the byte in the pipe, which it
\* leaves there.
PollReturns(t) ==
    /\ at[t] = "poll" /\ (pipe > 0 \/ ready # <<>>)
    /\ Go(t, IF ready # <<>> THEN "reap" ELSE "unlock")
    /\ UNCHANGED <<lockVars, pollVars, xferVars>>

\* After 60 s, or when a transfer times out, which then completes.
PollTimesOut(t) ==
    /\ at[t] = "poll" /\ pipe = 0 /\ ready = <<>>
    /\ Go(t, "unlock")
    /\ UNCHANGED <<lockVars, pollVars, xferVars>>

\* reap_for_handle: the transfer leaves the list, its callback is called; so it
\* does in usbi_handle_disconnect, for every transfer of a device that is gone.
Reap(t, x) ==
    /\ at[t] = "reap" /\ ready # <<>> /\ x = Head(ready)
    /\ ready' = Tail(ready)
    /\ flying' = flying \ {x}

\* Mutant: the waiters of other transfers are not woken.
WakeNobody == UNCHANGED waiting
WakeWaiters == waiting' = {}

\* Mutant: who finds the transfer of another thread does not complete it.
MarkOwn(t, x) == done \union ({x} \intersect {t})

\* sync_transfer_cb
Mark(t, x) == done \union {x}

ReapSync(t, x) ==
    /\ x \in Callers /\ Reap(t, x)
    /\ done' = Mark(t, x)
    /\ WakeWaiters
    /\ UNCHANGED <<at, holder, active, pollVars>>

ReapEnds(t) ==
    /\ at[t] = "reap" /\ ready = <<>>
    /\ Go(t, "unlock")
    /\ UNCHANGED <<lockVars, pollVars, xferVars>>

UnlockEvents(t) ==
    /\ holder = t
    /\ holder' = None /\ active' = FALSE
    /\ WakeWaiters

HandlerUnlocks(t) ==
    /\ at[t] = "unlock"
    /\ UnlockEvents(t)
    /\ Return(t)
    /\ UNCHANGED <<pollVars, xferVars>>

HandleEvents(t) ==
    \/ ReadModify(t) \/ TryLock(t) \/ BecomeWaiter(t) \/ Woken(t)
    \/ PollReturns(t) \/ ReapEnds(t) \/ HandlerUnlocks(t)
    \/ \E x \in Callers : ReapSync(t, x)

TimesOut(t) == WaitTimesOut(t) \/ PollTimesOut(t)

\* The kernel finishes a transfer.
Complete(x) ==
    /\ x \in flying \ Finished
    /\ ready' = Append(ready, x)
    /\ UNCHANGED <<at, lockVars, pollVars, flying, done>>

----------------------------------------------------------------------------
(***************************************************************************)
(* libusb_close, by a thread that is at "modify".                          *)
(***************************************************************************)
ModifyPollfds(t) ==
    /\ at[t] = "modify"
    /\ modify' = modify + 1
    /\ Go(t, "poke")
    /\ UNCHANGED <<lockVars, pipe, xferVars>>

Poke(t) ==
    /\ at[t] = "poke"
    /\ pipe' = pipe + 1
    /\ Go(t, "lock")
    /\ UNCHANGED <<lockVars, modify, xferVars>>

\* Mutant: the closing thread does not wait for the handler.
NoLock == TRUE
LockFree == holder = None

CloserLocks(t) ==
    /\ at[t] = "lock" /\ LockFree
    /\ holder' = t /\ active' = TRUE
    /\ Go(t, "drop")
    /\ UNCHANGED <<waiting, pollVars, xferVars>>

\* The byte is read; do_close takes the recursive lock again, drops what is in
\* flight, and gives it back: the flag is cleared and the waiters are woken.
CloserDrops(t) ==
    /\ at[t] = "drop"
    /\ pipe' = pipe - 1
    /\ flying' = {} /\ ready' = <<>>
    /\ active' = FALSE /\ WakeWaiters
    /\ Go(t, "modified")
    /\ UNCHANGED <<holder, modify, done>>

CloserModified(t) ==
    /\ at[t] = "modified"
    /\ modify' = modify - 1
    /\ Go(t, "release")
    /\ UNCHANGED <<lockVars, pipe, xferVars>>

CloserUnlocks(t) ==
    /\ at[t] = "release"
    /\ UnlockEvents(t)
    /\ Go(t, "closed")
    /\ UNCHANGED <<pollVars, xferVars>>

LibusbClose(t) ==
    \/ ModifyPollfds(t) \/ Poke(t) \/ CloserLocks(t)
    \/ CloserDrops(t) \/ CloserModified(t) \/ CloserUnlocks(t)

ClosePoints == {"modify", "poke", "lock", "drop", "modified", "release", "closed"}

=============================================================================
