--------------------------- MODULE TransferService ---------------------------
(***************************************************************************)
(* What libusb promises to the code that submits transfers on an open      *)
(* device, and asks of it: the contract between libusb's event handling    *)
(* (LibusbEvents, as UvcDevice uses it) and the callbacks of libuvc        *)
(* (UvcStream for those of a stream).                                      *)
(*                                                                         *)
(* A transfer is nobody's but its user's until it is submitted.  It is     *)
(* called back once for each submission, one transfer at a time, and is    *)
(* submitted again by its callback or later, never in between.  It leaves  *)
(* the list of those in flight only for its callback, or when the device   *)
(* is closed; nothing is called back then, and no callback is running.     *)
(***************************************************************************)
CONSTANT Transfers

VARIABLES
    usable,     \* the device is open
    inFlight,   \* transfers submitted and not called back
    called      \* the transfer whose callback runs, as a set

tvars == <<usable, inFlight, called>>

ServiceInit ==
    /\ usable \in BOOLEAN
    /\ inFlight = {}
    /\ called = {}

\* A device may be opened with transfers already submitted.
OpenDevice ==
    /\ ~usable
    /\ usable' = TRUE
    /\ inFlight' \in SUBSET Transfers
    /\ UNCHANGED called

Submit(x) ==
    /\ usable
    /\ x \notin inFlight \union called
    /\ inFlight' = inFlight \union {x}
    /\ UNCHANGED <<usable, called>>

CallBack(x) ==
    /\ usable
    /\ x \in inFlight /\ called = {}
    /\ inFlight' = inFlight \ {x}
    /\ called' = {x}
    /\ UNCHANGED usable

\* The callback may have submitted the transfer again.
CallbackReturns ==
    /\ called # {}
    /\ inFlight' \in {inFlight, inFlight \union called}
    /\ called' = {}
    /\ UNCHANGED usable

\* A callback that does nothing but note the result.
CallBackAtOnce(x) ==
    /\ usable
    /\ x \in inFlight /\ called = {}
    /\ inFlight' = inFlight \ {x}
    /\ UNCHANGED <<usable, called>>

CloseDevice ==
    /\ usable /\ called = {}
    /\ usable' = FALSE
    /\ inFlight' = {}
    /\ UNCHANGED called

ServiceNext ==
    \/ OpenDevice \/ CallbackReturns \/ CloseDevice
    \/ \E x \in Transfers : Submit(x) \/ CallBack(x) \/ CallBackAtOnce(x)

Service == ServiceInit /\ [][ServiceNext]_tvars

=============================================================================
