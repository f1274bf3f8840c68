------------------------------- MODULE Events -------------------------------
(***************************************************************************)
(* The single-subscriber slot of packages/daemon/src/ws/events.ts and the  *)
(* subscriber set of the event bus, which are two registries of the same   *)
(* fact.  A WebSocket of the daemon is                                     *)
(*   "new"      not upgraded yet,                                          *)
(*   "open"     accepted as the subscriber,                                *)
(*   "closing"  accepted, and ws.close(code) called by the daemon; frames  *)
(*              sent from now on are lost, frames received still arrive,   *)
(*   "gone"     its 'close' event has been handled,                        *)
(*   "refused"  closed with 4409; it has no 'close' handler.               *)
(***************************************************************************)
EXTENDS Naturals, FiniteSets

CONSTANTS
    Conns,      \* WebSocket connections that pass the gates of handleUpgrade
    NoConn      \* the null of the slot

ASSUME NoConnIsNoConn == NoConn \notin Conns

VARIABLES
    conn,       \* [Conns -> ConnState]
    subscriber, \* the slot of attachEvents
    bus         \* EventBus.subscribers

ConnState == {"new", "open", "closing", "gone", "refused"}

slotVars == <<conn, subscriber, bus>>

SlotTypeOK ==
    /\ conn \in [Conns -> ConnState]
    /\ subscriber \in Conns \cup {NoConn}
    /\ bus \subseteq Conns

SlotInit ==
    /\ conn = [c \in Conns |-> "new"]
    /\ subscriber = NoConn
    /\ bus = {}

\* Mutant: the slot is not looked at.
AcceptUnchecked(c) ==
    /\ conn[c] = "new"
    /\ conn' = [conn EXCEPT ![c] = "open"]
    /\ subscriber' = c
    /\ bus' = bus \cup {c}

\* The accepting branch of the handleUpgrade callback.
Accept(c) ==
    /\ conn[c] = "new"
    /\ subscriber = NoConn
    /\ conn' = [conn EXCEPT ![c] = "open"]
    /\ subscriber' = c
    /\ bus' = bus \cup {c}

\* A second subscriber is upgraded and closed at once with 4409.
Refuse(c) ==
    /\ conn[c] = "new"
    /\ subscriber # NoConn
    /\ conn' = [conn EXCEPT ![c] = "refused"]
    /\ UNCHANGED <<subscriber, bus>>

\* ws.close(code) on every connection of C; a no-op on one that is closing already.
AfterClose(C) ==
    [c \in Conns |-> IF c \in C /\ conn[c] = "open" THEN "closing" ELSE conn[c]]

\* Mutant: ws.close() of the pong timeout also frees the slot.
StartCloseFreesSlot(C) ==
    /\ conn' = AfterClose(C)
    /\ subscriber' = IF subscriber \in C THEN NoConn ELSE subscriber
    /\ UNCHANGED bus

\* The daemon closes: pong timeout (4408), backpressure (4429), send error (1011),
\* shutdown (1012).  The slot stays taken until the 'close' event.
StartClose(C) ==
    /\ conn' = AfterClose(C)
    /\ UNCHANGED <<subscriber, bus>>

\* The two 'close' listeners of an accepted connection: the bus's and the slot's.
Closed(c) ==
    /\ conn[c] \in {"open", "closing"}
    /\ conn' = [conn EXCEPT ![c] = "gone"]
    /\ bus' = bus \ {c}
    /\ subscriber' = IF subscriber = c THEN NoConn ELSE subscriber

\* The slot and the bus name the same live connections, at most one: a broadcast
\* reaches the subscriber of the slot and nobody else, and the slot is free
\* exactly when nobody listens (events.ts keeps both by hand, eventBus.ts
\* removes its entry in a listener of its own).
SlotMatchesBus ==
    /\ bus = {c \in Conns : conn[c] \in {"open", "closing"}}
    /\ bus = IF subscriber = NoConn THEN {} ELSE {subscriber}
=============================================================================
