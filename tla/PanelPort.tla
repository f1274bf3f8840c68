-------------------------------- MODULE PanelPort --------------------------------
(***************************************************************************)
(* The side panel's store and the service worker's snapshot cache for one  *)
(* (windowId, tabId), and the ports between them:                          *)
(* packages/ext/src/panel/hooks/usePanelPort.ts, sw/panelPort.ts.          *)
(*                                                                         *)
(* A port is known by the order in which the panel opened it.  What the    *)
(* panel does on its ports (hello, disconnect) reaches the worker in the   *)
(* order in which it did it, also over two ports; a port that a side has   *)
(* disconnected delivers nothing more to that side.  When the worker is    *)
(* stopped its memory and its ports go, and the panel is told; the next    *)
(* event starts it with an empty memory.                                   *)
(*                                                                         *)
(* Bounds: MaxPorts ports, MaxSubs subscriptions at a time (a StrictMode   *)
(* mount subscribes, unsubscribes and subscribes again).                   *)
(***************************************************************************)
EXTENDS Naturals, Sequences

CONSTANTS MaxPorts, MaxSubs

ASSUME PanelBounds == MaxPorts \in Nat /\ MaxSubs \in Nat

VARIABLES
    subs, port, shown,      \* panel: entry.refCount, entry.port (0 for null), entry.snapshot
    opened,                 \* ports opened so far
    toWorker, toPanel,      \* what is under way on the ports
    ports, greeted, cache   \* worker: the port of the key (0 for none), the ports whose closure
                            \* knows its key, the cached snapshot

panelVars == <<subs, port, shown, opened>>
wires == <<toWorker, toPanel>>
workerVars == <<ports, greeted, cache>>
portVars == <<panelVars, wires, workerVars>>

Default == [status |-> "hydrating", selection |-> 0]

PanelInit ==
    /\ subs = 0 /\ port = 0 /\ shown = Default /\ opened = 0
    /\ toWorker = <<>> /\ toPanel = <<>>
    /\ ports = 0 /\ greeted = {} /\ cache = Default
-----------------------------------------------------------------------------
(***************************************************************************)
(* The panel                                                               *)
(***************************************************************************)
\* openPort(): connect, and say which window and tab the port is for.
OpenPort ==
    /\ opened < MaxPorts
    /\ opened' = opened + 1
    /\ port' = opened'
    /\ toWorker' = Append(toWorker, [event |-> "hello", port |-> opened'])

Subscribe ==
    /\ subs < MaxSubs /\ subs' = subs + 1
    /\ IF port = 0 THEN OpenPort ELSE UNCHANGED <<opened, port, toWorker>>
    /\ UNCHANGED <<shown, toPanel, workerVars>>

\* The last one out disconnects.
Unsubscribe ==
    /\ subs > 0 /\ subs' = subs - 1
    /\ IF subs' = 0 /\ port # 0
       THEN /\ toWorker' = Append(toWorker, [event |-> "bye", port |-> port])
            /\ port' = 0
       ELSE UNCHANGED <<port, toWorker>>
    /\ UNCHANGED <<shown, opened, toPanel, workerVars>>

ReceiveSnapshot ==
    /\ toPanel # <<>> /\ Head(toPanel).event = "snapshot"
    /\ shown' = IF Head(toPanel).port = port THEN Head(toPanel).snapshot ELSE shown
    /\ toPanel' = Tail(toPanel)
    /\ UNCHANGED <<subs, port, opened, toWorker, workerVars>>

\* Mutant of PortLost: the panel waits for the next subscription to open a port.
PortLostWaits ==
    /\ toPanel # <<>> /\ Head(toPanel).event = "lost"
    /\ toPanel' = Tail(toPanel)
    /\ IF Head(toPanel).port # port
       THEN UNCHANGED <<port, shown>>
       ELSE port' = 0 /\ shown' = [shown EXCEPT !.status = "resync"]
    /\ UNCHANGED <<subs, opened, toWorker, workerVars>>

\* onDisconnect of the panel, and the microtask that opens the next port.
PortLost ==
    /\ toPanel # <<>> /\ Head(toPanel).event = "lost"
    /\ toPanel' = Tail(toPanel)
    /\ \/ /\ Head(toPanel).port # port
          /\ UNCHANGED <<panelVars, toWorker>>
       \/ /\ Head(toPanel).port = port
          /\ shown' = [shown EXCEPT !.status = "resync"]
          /\ IF subs > 0
             THEN OpenPort
             ELSE port' = 0 /\ UNCHANGED <<opened, toWorker>>
          /\ UNCHANGED subs
    /\ UNCHANGED workerVars
-----------------------------------------------------------------------------
(***************************************************************************)
(* The worker                                                              *)
(***************************************************************************)
\* push(): the cache and, if p is a port of the key, the panel get the new snapshot.
PushTo(p, snapshot) ==
    /\ cache' = snapshot
    /\ toPanel' = IF p = 0 THEN toPanel
                  ELSE Append(toPanel, [event |-> "snapshot", port |-> p, snapshot |-> snapshot])

\* Mutant of Hello: the port is noted after the push.
HelloPushesFirst ==
    /\ toWorker # <<>> /\ Head(toWorker).event = "hello"
    /\ toWorker' = Tail(toWorker)
    /\ PushTo(ports, [cache EXCEPT !.status = "connected"])
    /\ ports' = Head(toWorker).port
    /\ greeted' = greeted \cup {Head(toWorker).port}
    /\ UNCHANGED panelVars

Hello ==
    /\ toWorker # <<>> /\ Head(toWorker).event = "hello"
    /\ toWorker' = Tail(toWorker)
    /\ ports' = Head(toWorker).port
    /\ greeted' = greeted \cup {Head(toWorker).port}
    /\ PushTo(ports', [cache EXCEPT !.status = "connected"])
    /\ UNCHANGED panelVars

\* onDisconnect of the worker: the key's port is forgotten, whichever it is.
Bye ==
    /\ toWorker # <<>> /\ Head(toWorker).event = "bye"
    /\ toWorker' = Tail(toWorker)
    /\ IF Head(toWorker).port \in greeted
       THEN ports' = 0 /\ PushTo(0, [cache EXCEPT !.status = "disconnected"])
       ELSE UNCHANGED <<ports, cache, toPanel>>
    /\ UNCHANGED <<panelVars, greeted>>

\* The worker is stopped.
PortsSleep ==
    /\ ports' = 0 /\ greeted' = {} /\ cache' = Default
    /\ toWorker' = <<>>
    /\ toPanel' = IF port = 0 THEN toPanel ELSE Append(toPanel, [event |-> "lost", port |-> port])
    /\ UNCHANGED panelVars

Delivered == ReceiveSnapshot \/ PortLost
Panel == Subscribe \/ Unsubscribe \/ Delivered
Worker == Hello \/ Bye
-----------------------------------------------------------------------------
Quiet == toWorker = <<>> /\ toPanel = <<>>

\* When nothing is under way, a panel that is watched has one port, the worker pushes to
\* that one, and the panel shows what the worker has cached; one that is not has none, and
\* the worker pushes to nobody.  A disconnect of an old port must not take a new one away.
QuietMirrors ==
    Quiet => /\ ports = port
             /\ (port # 0) = (subs > 0)
             /\ subs > 0 => shown = cache

\* A panel that dimmed when it lost its port comes back by itself while it is watched.
ResyncEnds == (shown.status = "resync" /\ subs > 0) ~> (shown.status = "connected" \/ subs = 0)
=============================================================================
