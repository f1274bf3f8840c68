-------------------------- MODULE ServiceWorkerProofs --------------------------
(***************************************************************************)
(* Proofs about the service worker and the panel's port (ServiceWorker     *)
(* with PanelPort), for any number of ports, subscriptions, picks, daemons *)
(* and stops of the worker, and about the picker in the page (Picker), for *)
(* every page.                                                             *)
(*                                                                         *)
(* QuietMirrors speaks of the moments when nothing is under way, and what  *)
(* makes it true is what is under way at the others: the panel greets and  *)
(* leaves in turn, the last message it sent tells which port it has, the   *)
(* first one the worker has not read tells which port it still pushes to,  *)
(* a panel whose port the worker has lost is going to be told, and the     *)
(* last snapshot on its way on a live port is the one that is cached.      *)
(***************************************************************************)
EXTENDS ServiceWorker, Picker, WellFoundedInduction, TLAPS

WorkerMessages == [event : {"hello", "bye"}, port : 1..MaxPorts]

PortTyped ==
    /\ subs \in 0..MaxSubs /\ port \in 0..MaxPorts /\ opened \in 0..MaxPorts
    /\ ports \in 0..MaxPorts /\ greeted \subseteq 1..MaxPorts
    /\ shown \in Snapshots /\ cache \in Snapshots
    /\ toWorker \in Seq(WorkerMessages) /\ toPanel \in Seq(PanelMessages)

PickRecords ==
    [tab : Tabs, at : InWorker \cup {"idle", "extract", "done"},
     handshake : 0..Daemons, session : SessionRecords]

RouterTyped ==
    /\ daemon \in 1..Daemons /\ sleeps \in 0..Sleeps
    /\ active \in SessionRecords /\ tabSessions \in [Tabs -> SessionRecords]
    /\ tabHandshakes \in [Tabs -> 0..Daemons]
    /\ picks \in [1..Picks -> PickRecords]

PortsAreOld ==
    /\ port <= opened /\ ports <= opened
    /\ \A i \in 1..Len(toWorker) : toWorker[i].port <= opened
    /\ \A i \in 1..Len(toPanel) : toPanel[i].port <= opened

Watched == (port # 0 => subs > 0) /\ (subs > 0 => port # 0)

\* A hello is followed by the bye of its port, a bye by the hello of another one.
Alternates ==
    \A i \in 1..Len(toWorker) : i + 1 \in 1..Len(toWorker) =>
        IF toWorker[i].event = "hello"
        THEN toWorker[i + 1].event = "bye" /\ toWorker[i + 1].port = toWorker[i].port
        ELSE toWorker[i + 1].event = "hello"

LastIsPort ==
    \A i \in 1..Len(toWorker) : i = Len(toWorker) =>
        port = IF toWorker[i].event = "hello" THEN toWorker[i].port ELSE 0

Lost(m) == m.event = "lost" /\ m.port = port
LostComes == \E i \in 1..Len(toPanel) : Lost(toPanel[i])

WorkerFollows ==
    /\ ports # 0 => ports \in greeted
    /\ toWorker = <<>> => ports = port \/ LostComes
    /\ toWorker # <<>> =>
         ports = 0 \/ (toWorker[1].event = "bye" /\ toWorker[1].port = ports)
    /\ port # 0 /\ LostComes => toWorker = <<>> /\ ports = 0

\* What the panel shows once it has received what is on its way is what the worker has
\* cached, if they have the same port.
IsFor(m) == m.event = "snapshot" /\ m.port = port
Mirrors ==
    ports = port /\ port # 0 =>
      \/ shown = cache /\ \A i \in 1..Len(toPanel) : ~IsFor(toPanel[i])
      \/ \E i \in 1..Len(toPanel) :
           /\ IsFor(toPanel[i]) /\ toPanel[i].snapshot = cache
           /\ \A j \in 1..Len(toPanel) : j > i => ~IsFor(toPanel[j])

PortIInv ==
    /\ PortTyped /\ PortsAreOld /\ Watched
    /\ Alternates /\ LastIsPort /\ WorkerFollows /\ Mirrors

-----------------------------------------------------------------------------
(***************************************************************************)
(* Queues                                                                  *)
(***************************************************************************)
LEMMA TailOf ==
    ASSUME NEW S, NEW q \in Seq(S), q # <<>>
    PROVE  /\ Tail(q) \in Seq(S) /\ Len(Tail(q)) = Len(q) - 1
           /\ Len(q) \in Nat \ {0} /\ Head(q) = q[1] /\ q[1] \in S
           /\ \A i \in 1..Len(Tail(q)) : i + 1 \in 1..Len(q) /\ Tail(q)[i] = q[i + 1]
           /\ Tail(q) = <<>> <=> Len(q) = 1
<1>1. Len(q) \in Nat \ {0} /\ Head(q) = q[1] /\ q[1] \in S
  OBVIOUS
<1>2. Tail(q) \in Seq(S) /\ Len(Tail(q)) = Len(q) - 1
  OBVIOUS
<1>3. \A i \in 1..Len(Tail(q)) : i + 1 \in 1..Len(q) /\ Tail(q)[i] = q[i + 1]
  BY <1>1, <1>2
<1>4. \A t \in Seq(S) : t = <<>> <=> Len(t) = 0
  OBVIOUS
<1>5. Len(q) - 1 = 0 <=> Len(q) = 1
  BY <1>1
<1>6. Tail(q) = <<>> <=> Len(q) = 1
  BY <1>2, <1>4, <1>5
<1> QED BY <1>1, <1>2, <1>3, <1>6

LEMMA AppendOf ==
    ASSUME NEW S, NEW q \in Seq(S), NEW m \in S
    PROVE  /\ Append(q, m) \in Seq(S) /\ Len(Append(q, m)) = Len(q) + 1
           /\ Len(q) \in Nat /\ Append(q, m) # <<>>
           /\ Append(q, m)[Len(q) + 1] = m
           /\ \A i \in 1..Len(q) : Append(q, m)[i] = q[i]
           /\ q = <<>> <=> Len(q) = 0
OBVIOUS

LEMMA MessageTyped ==
    /\ \A m \in PanelMessages :
         /\ m.event \in {"snapshot", "lost"} /\ m.port \in 1..MaxPorts
         /\ m.event = "snapshot" => m.snapshot \in Snapshots
    /\ \A p \in 1..MaxPorts, s \in Snapshots :
         [event |-> "snapshot", port |-> p, snapshot |-> s] \in PanelMessages
    /\ \A p \in 1..MaxPorts : [event |-> "lost", port |-> p] \in PanelMessages
    /\ \A m \in WorkerMessages : m.event \in {"hello", "bye"} /\ m.port \in 1..MaxPorts
    /\ \A p \in 1..MaxPorts, e \in {"hello", "bye"} : [event |-> e, port |-> p] \in WorkerMessages
BY DEF PanelMessages, WorkerMessages

LEMMA SnapshotTyped ==
    /\ \A s \in Snapshots, k \in 1..Picks : [s EXCEPT !.selection = k] \in Snapshots
    /\ \A s \in Snapshots, st \in {"connected", "resync", "disconnected"} :
         [s EXCEPT !.status = st] \in Snapshots
    /\ Default \in Snapshots
<1>1. Picks \in Nat
  BY WorkerBounds
<1> QED BY <1>1 DEF Snapshots, Default

-----------------------------------------------------------------------------
(***************************************************************************)
(* The panel                                                               *)
(***************************************************************************)
LEMMA OpenHolds ==
    ASSUME PortIInv, OpenPort,
           port = 0 \/ (toWorker = <<>> /\ ports = 0),
           subs' \in 1..MaxSubs, shown' \in Snapshots,
           toPanel' \in Seq(PanelMessages),
           \A i \in 1..Len(toPanel') : \E j \in 1..Len(toPanel) : toPanel'[i] = toPanel[j],
           UNCHANGED workerVars
    PROVE  PortIInv'
<1> DEFINE m == [event |-> "hello", port |-> opened + 1]
<1>0. MaxPorts \in Nat /\ MaxSubs \in Nat
  BY PanelBounds
<1>1. /\ opened < MaxPorts /\ opened' = opened + 1 /\ port' = opened + 1
      /\ toWorker' = Append(toWorker, m)
      /\ ports' = ports /\ greeted' = greeted /\ cache' = cache
  BY DEF OpenPort, workerVars
<1>2. /\ port \in Nat /\ opened \in Nat /\ ports \in Nat /\ port <= opened /\ ports <= opened
      /\ opened + 1 \in 1..MaxPorts
  BY <1>0, <1>1 DEF PortIInv, PortTyped, PortsAreOld
<1>3. m \in WorkerMessages /\ m.event = "hello" /\ m.port = opened + 1
  BY <1>2, MessageTyped
<1> HIDE DEF m
<1>4. /\ toWorker' \in Seq(WorkerMessages) /\ Len(toWorker') = Len(toWorker) + 1
      /\ Len(toWorker) \in Nat /\ toWorker' # <<>> /\ toWorker'[Len(toWorker) + 1] = m
      /\ \A i \in 1..Len(toWorker) : toWorker'[i] = toWorker[i]
      /\ toWorker = <<>> <=> Len(toWorker) = 0
  BY <1>1, <1>3, AppendOf DEF PortIInv, PortTyped
<1>5. PortTyped'
  BY <1>0, <1>1, <1>2, <1>4 DEF PortIInv, PortTyped
<1>6. PortsAreOld'
  <2>1. \A i \in 1..Len(toPanel) : toPanel[i].port \in Nat /\ toPanel[i].port <= opened
    BY MessageTyped DEF PortIInv, PortTyped, PortsAreOld
  <2>2. \A i \in 1..Len(toPanel') : toPanel'[i].port <= opened'
    BY <1>1, <1>2, <2>1
  <2>3. \A i \in 1..Len(toWorker) : toWorker[i].port \in Nat /\ toWorker[i].port <= opened
    BY MessageTyped DEF PortIInv, PortTyped, PortsAreOld
  <2>4. \A i \in 1..Len(toWorker') : toWorker'[i].port <= opened'
    BY <1>1, <1>2, <1>3, <1>4, <2>3
  <2>5. port' <= opened' /\ ports' <= opened'
    BY <1>1, <1>2
  <2> QED BY <2>2, <2>4, <2>5 DEF PortsAreOld
<1>7. Watched'
  <2>1. port' # 0 /\ subs' > 0
    BY <1>0, <1>1, <1>2
  <2> QED BY <2>1 DEF Watched
<1>8. Alternates'
  <2>1. toWorker # <<>> => toWorker[Len(toWorker)].event = "bye"
    <3>1. \A i \in 1..Len(toWorker) : toWorker[i].event \in {"hello", "bye"} /\ toWorker[i].port # 0
      BY <1>0, MessageTyped DEF PortIInv, PortTyped
    <3> QED BY <1>4, <3>1 DEF PortIInv, LastIsPort
  <2>2. \A i \in 1..Len(toWorker') : i + 1 \in 1..Len(toWorker') =>
          \/ i + 1 \in 1..Len(toWorker) /\ i \in 1..Len(toWorker)
          \/ i = Len(toWorker) /\ i \in 1..Len(toWorker)
    BY <1>4
  <2>3. Len(toWorker) # 0 => toWorker # <<>>
    BY <1>4
  <2>4. ASSUME NEW i \in 1..Len(toWorker'), i + 1 \in 1..Len(toWorker')
        PROVE  IF toWorker'[i].event = "hello"
               THEN toWorker'[i + 1].event = "bye" /\ toWorker'[i + 1].port = toWorker'[i].port
               ELSE toWorker'[i + 1].event = "hello"
    <3>1. CASE i + 1 \in 1..Len(toWorker) /\ i \in 1..Len(toWorker)
      <4>1. toWorker'[i] = toWorker[i] /\ toWorker'[i + 1] = toWorker[i + 1]
        BY <1>4, <3>1
      <4> QED BY <3>1, <4>1 DEF PortIInv, Alternates
    <3>2. CASE i = Len(toWorker) /\ i \in 1..Len(toWorker)
      <4>1. toWorker'[i].event = "bye" /\ toWorker'[i + 1].event = "hello"
        BY <1>3, <1>4, <2>1, <2>3, <3>2
      <4> QED BY <4>1
    <3> QED BY <2>2, <2>4, <3>1, <3>2
  <2> QED BY <2>4 DEF Alternates
<1>9. LastIsPort'
  BY <1>1, <1>3, <1>4 DEF LastIsPort
<1>10. ~LostComes'
  <2>1. \A i \in 1..Len(toPanel) : toPanel[i].port \in Nat /\ toPanel[i].port <= opened
    BY MessageTyped DEF PortIInv, PortTyped, PortsAreOld
  <2> QED BY <1>1, <1>2, <2>1 DEF LostComes, Lost
<1>11. WorkerFollows'
  <2>1. toWorker = <<>> => ports = 0
    <3>1. \A i \in 1..Len(toPanel) : toPanel[i].port # 0
      BY <1>0, MessageTyped DEF PortIInv, PortTyped
    <3> QED BY <3>1 DEF PortIInv, WorkerFollows, LostComes, Lost
  <2>2. toWorker # <<>> => toWorker'[1] = toWorker[1]
    BY <1>4
  <2> QED BY <1>1, <1>4, <1>10, <2>1, <2>2 DEF PortIInv, WorkerFollows
<1>12. Mirrors'
  BY <1>1, <1>2 DEF Mirrors
<1> QED BY <1>5, <1>6, <1>7, <1>8, <1>9, <1>11, <1>12 DEF PortIInv

LEMMA LeaveHolds ==
    ASSUME PortIInv, port # 0, subs' = 0, port' = 0,
           toWorker' = Append(toWorker, [event |-> "bye", port |-> port]),
           UNCHANGED <<shown, opened, toPanel, workerVars>>
    PROVE  PortIInv'
<1> DEFINE m == [event |-> "bye", port |-> port]
<1>0. MaxPorts \in Nat /\ MaxSubs \in Nat
  BY PanelBounds
<1>1. /\ toWorker' = Append(toWorker, m) /\ shown' = shown /\ opened' = opened
      /\ toPanel' = toPanel /\ ports' = ports /\ greeted' = greeted /\ cache' = cache
  BY DEF workerVars
<1>2. port \in 1..MaxPorts /\ opened \in Nat /\ ports \in Nat /\ port <= opened
  BY <1>0 DEF PortIInv, PortTyped, PortsAreOld
<1>3. m \in WorkerMessages /\ m.event = "bye" /\ m.port = port
  BY <1>2, MessageTyped
<1> HIDE DEF m
<1>4. /\ toWorker' \in Seq(WorkerMessages) /\ Len(toWorker') = Len(toWorker) + 1
      /\ Len(toWorker) \in Nat /\ toWorker' # <<>> /\ toWorker'[Len(toWorker) + 1] = m
      /\ \A i \in 1..Len(toWorker) : toWorker'[i] = toWorker[i]
      /\ toWorker = <<>> <=> Len(toWorker) = 0
  BY <1>1, <1>3, AppendOf DEF PortIInv, PortTyped
<1>5. PortTyped'
  BY <1>0, <1>1, <1>4 DEF PortIInv, PortTyped
<1>6. PortsAreOld'
  <2>1. \A i \in 1..Len(toWorker') : toWorker'[i].port <= opened
    BY <1>2, <1>3, <1>4 DEF PortIInv, PortsAreOld
  <2>2. port' <= opened' /\ ports' <= opened'
    BY <1>1, <1>2 DEF PortIInv, PortsAreOld
  <2>3. \A i \in 1..Len(toPanel') : toPanel'[i].port <= opened'
    BY <1>1 DEF PortIInv, PortsAreOld
  <2> QED BY <1>1, <2>1, <2>2, <2>3 DEF PortsAreOld
<1>7. Watched'
  BY DEF Watched
<1>8. Alternates'
  <2>1. toWorker # <<>> =>
          /\ toWorker[Len(toWorker)].event = "hello"
          /\ toWorker[Len(toWorker)].port = port
    BY <1>2, <1>4 DEF PortIInv, LastIsPort
  <2>2. \A i \in 1..Len(toWorker') : i + 1 \in 1..Len(toWorker') =>
          \/ i + 1 \in 1..Len(toWorker) /\ i \in 1..Len(toWorker)
          \/ i = Len(toWorker) /\ i \in 1..Len(toWorker)
    BY <1>4
  <2> QED BY <1>3, <1>4, <2>1, <2>2 DEF PortIInv, Alternates
<1>9. LastIsPort'
  BY <1>3, <1>4 DEF LastIsPort
<1>10. WorkerFollows'
  <2>1. toWorker = <<>> => ports = port \/ ports = 0
    BY <1>2 DEF PortIInv, WorkerFollows
  <2>2. toWorker # <<>> => toWorker'[1] = toWorker[1]
    BY <1>4
  <2>3. toWorker = <<>> => toWorker'[1] = m
    BY <1>4
  <2> QED BY <1>1, <1>3, <1>4, <2>1, <2>2, <2>3 DEF PortIInv, WorkerFollows
<1>11. Mirrors'
  BY DEF Mirrors
<1> QED BY <1>5, <1>6, <1>7, <1>8, <1>9, <1>10, <1>11 DEF PortIInv

\* A message for the panel is received or ignored.
LEMMA ReadHolds ==
    ASSUME PortIInv, toPanel # <<>>, ~Lost(Head(toPanel)),
           shown' = IF IsFor(Head(toPanel)) THEN Head(toPanel).snapshot ELSE shown,
           toPanel' = Tail(toPanel),
           UNCHANGED <<subs, port, opened, toWorker, workerVars>>
    PROVE  PortIInv'
<1> DEFINE first == Head(toPanel)
<1>1. /\ subs' = subs /\ port' = port /\ opened' = opened /\ toWorker' = toWorker
      /\ ports' = ports /\ greeted' = greeted /\ cache' = cache
  BY DEF workerVars
<1>2. /\ toPanel' \in Seq(PanelMessages) /\ Len(toPanel') = Len(toPanel) - 1
      /\ Len(toPanel) \in Nat \ {0} /\ first = toPanel[1] /\ first \in PanelMessages
      /\ \A i \in 1..Len(toPanel') : i + 1 \in 1..Len(toPanel) /\ toPanel'[i] = toPanel[i + 1]
  BY TailOf DEF PortIInv, PortTyped
<1> HIDE DEF first
<1>3. shown' = IF IsFor(first) THEN first.snapshot ELSE shown
  BY DEF first
<1>4. PortTyped'
  <2>1. IsFor(first) => first.snapshot \in Snapshots
    BY <1>2, MessageTyped DEF IsFor
  <2>2. shown' \in Snapshots
    BY <1>3, <2>1 DEF PortIInv, PortTyped
  <2> QED BY <1>1, <1>2, <2>2 DEF PortIInv, PortTyped
<1>5. PortsAreOld'
  BY <1>1, <1>2 DEF PortIInv, PortsAreOld
<1>6. LostComes' <=> LostComes
  <2>1. LostComes' => LostComes
    BY <1>1, <1>2 DEF LostComes, Lost
  <2>2. \A i \in 1..Len(toPanel) :
          i # 1 => i - 1 \in 1..Len(toPanel') /\ toPanel'[i - 1] = toPanel[i]
    BY <1>2
  <2>3. ~Lost(toPanel[1])
    BY <1>2 DEF first
  <2>4. LostComes => LostComes'
    BY <1>1, <2>2, <2>3 DEF LostComes, Lost
  <2> QED BY <2>1, <2>4
<1>7. Watched' /\ Alternates' /\ LastIsPort'
  BY <1>1 DEF PortIInv, Watched, Alternates, LastIsPort
<1>8. WorkerFollows'
  BY <1>1, <1>6 DEF PortIInv, WorkerFollows
<1>9. Mirrors'
  <2> SUFFICES ASSUME ports = port, port # 0 PROVE Mirrors'
    BY <1>1 DEF Mirrors
  <2>0. \A i \in 1..Len(toPanel) :
          i # 1 => i - 1 \in 1..Len(toPanel') /\ toPanel'[i - 1] = toPanel[i]
    BY <1>2
  <2>1. CASE shown = cache /\ \A i \in 1..Len(toPanel) : ~IsFor(toPanel[i])
    <3>1. ~IsFor(first)
      BY <1>2, <2>1
    <3>2. \A i \in 1..Len(toPanel') : ~IsFor(toPanel'[i])
      BY <1>2, <2>1
    <3> QED BY <1>1, <1>3, <2>1, <3>1, <3>2 DEF Mirrors, IsFor
  <2>2. ASSUME NEW i \in 1..Len(toPanel),
               IsFor(toPanel[i]), toPanel[i].snapshot = cache,
               \A j \in 1..Len(toPanel) : j > i => ~IsFor(toPanel[j])
        PROVE  Mirrors'
    <3>1. CASE i = 1
      <4>1. shown' = cache
        BY <1>2, <1>3, <2>2, <3>1
      <4>2. \A j \in 1..Len(toPanel') : ~IsFor(toPanel'[j])
        BY <1>2, <2>2, <3>1
      <4> QED BY <1>1, <4>1, <4>2 DEF Mirrors, IsFor
    <3>2. CASE i # 1
      <4>1. i - 1 \in 1..Len(toPanel') /\ toPanel'[i - 1] = toPanel[i]
        BY <2>0, <3>2
      <4>2. \A j \in 1..Len(toPanel') : j > i - 1 => ~IsFor(toPanel'[j])
        BY <1>2, <2>2
      <4>3. IsFor(toPanel'[i - 1]) /\ toPanel'[i - 1].snapshot = cache
        BY <2>2, <4>1
      <4> DEFINE k == i - 1
      <4>4. /\ k \in 1..Len(toPanel') /\ IsFor(toPanel[k])' /\ toPanel'[k].snapshot = cache'
            /\ \A j \in 1..Len(toPanel') : j > k => ~IsFor(toPanel[j])'
        BY <1>1, <4>1, <4>2, <4>3 DEF IsFor
      <4> HIDE DEF k
      <4> QED BY <4>4 DEF Mirrors
    <3> QED BY <3>1, <3>2
  <2> QED BY <2>1, <2>2 DEF PortIInv, Mirrors
<1> QED BY <1>4, <1>5, <1>7, <1>8, <1>9 DEF PortIInv

LEMMA LostIsDue ==
    ASSUME PortIInv, toPanel # <<>>, Lost(Head(toPanel))
    PROVE  port # 0 /\ LostComes /\ toWorker = <<>> /\ ports = 0 /\ subs > 0
<1>1. Len(toPanel) \in Nat \ {0} /\ Head(toPanel) = toPanel[1] /\ toPanel[1] \in PanelMessages
  BY TailOf DEF PortIInv, PortTyped
<1>2. toPanel[1].port # 0
  BY <1>1, MessageTyped, PanelBounds
<1>3. port # 0 /\ LostComes
  BY <1>1, <1>2 DEF Lost, LostComes
<1> QED BY <1>3 DEF PortIInv, WorkerFollows, Watched

LEMMA PanelHolds == ASSUME PortIInv, Panel PROVE PortIInv'
<1>0. MaxPorts \in Nat /\ MaxSubs \in Nat
  BY PanelBounds
<1>1. CASE Subscribe
  <2>1. subs' = subs + 1 /\ subs' \in 1..MaxSubs /\ subs \in Nat
    BY <1>0, <1>1 DEF Subscribe, PortIInv, PortTyped
  <2>2. UNCHANGED <<shown, toPanel, workerVars>>
    BY <1>1 DEF Subscribe
  <2>3. CASE port = 0
    <3>1. OpenPort
      BY <1>1, <2>3 DEF Subscribe
    <3>2. shown' \in Snapshots /\ toPanel' = toPanel /\ toPanel' \in Seq(PanelMessages)
      BY <2>2 DEF PortIInv, PortTyped
    <3>3. UNCHANGED workerVars
      BY <2>2
    <3> QED BY <2>1, <2>3, <3>1, <3>2, <3>3, OpenHolds
  <2>4. CASE port # 0
    <3>1. /\ opened' = opened /\ port' = port /\ toWorker' = toWorker /\ shown' = shown
          /\ toPanel' = toPanel /\ ports' = ports /\ greeted' = greeted /\ cache' = cache
      BY <1>1, <2>2, <2>4 DEF Subscribe, workerVars
    <3>2. PortTyped'
      BY <2>1, <3>1 DEF PortIInv, PortTyped
    <3>3. Watched'
      BY <2>1, <2>4, <3>1 DEF Watched
    <3>4. PortsAreOld' /\ Alternates' /\ LastIsPort'
      BY <3>1 DEF PortIInv, PortsAreOld, Alternates, LastIsPort
    <3>5. WorkerFollows' /\ Mirrors'
      BY <3>1 DEF PortIInv, WorkerFollows, LostComes, Lost, Mirrors, IsFor
    <3> QED BY <3>2, <3>3, <3>4, <3>5 DEF PortIInv
  <2> QED BY <2>3, <2>4
<1>2. CASE Unsubscribe
  <2>1. subs \in 1..MaxSubs /\ subs' = subs - 1 /\ port # 0
    BY <1>0, <1>2 DEF Unsubscribe, PortIInv, PortTyped, Watched
  <2>2. CASE subs' = 0
    BY <1>2, <2>1, <2>2, LeaveHolds DEF Unsubscribe
  <2>3. CASE subs' # 0
    <3>1. /\ opened' = opened /\ port' = port /\ toWorker' = toWorker /\ shown' = shown
          /\ toPanel' = toPanel /\ ports' = ports /\ greeted' = greeted /\ cache' = cache
      BY <1>2, <2>3 DEF Unsubscribe, workerVars
    <3>2. subs' \in 1..MaxSubs
      BY <1>0, <2>1, <2>3
    <3>3. PortTyped'
      BY <3>1, <3>2 DEF PortIInv, PortTyped
    <3>4. Watched'
      BY <2>1, <3>1, <3>2 DEF Watched
    <3>5. PortsAreOld' /\ Alternates' /\ LastIsPort'
      BY <3>1 DEF PortIInv, PortsAreOld, Alternates, LastIsPort
    <3>6. WorkerFollows' /\ Mirrors'
      BY <3>1 DEF PortIInv, WorkerFollows, LostComes, Lost, Mirrors, IsFor
    <3> QED BY <3>3, <3>4, <3>5, <3>6 DEF PortIInv
  <2> QED BY <2>2, <2>3
<1>3. CASE ReceiveSnapshot
  <2>1. toPanel # <<>> /\ Head(toPanel).event = "snapshot"
    BY <1>3 DEF ReceiveSnapshot
  <2>2. ~Lost(Head(toPanel)) /\ (IsFor(Head(toPanel)) <=> Head(toPanel).port = port)
    BY <2>1 DEF Lost, IsFor
  <2>3. shown' = IF IsFor(Head(toPanel)) THEN Head(toPanel).snapshot ELSE shown
    BY <1>3, <2>2 DEF ReceiveSnapshot
  <2> QED BY <1>3, <2>1, <2>2, <2>3, ReadHolds DEF ReceiveSnapshot
<1>4. CASE PortLost
  <2>1. /\ toPanel # <<>> /\ Head(toPanel).event = "lost"
        /\ toPanel' = Tail(toPanel) /\ UNCHANGED workerVars
    BY <1>4 DEF PortLost
  <2>2. CASE Head(toPanel).port # port
    <3>1. UNCHANGED <<panelVars, toWorker>>
      BY <1>4, <2>2 DEF PortLost
    <3>2. ~Lost(Head(toPanel)) /\ ~IsFor(Head(toPanel))
      BY <2>1, <2>2 DEF Lost, IsFor
    <3>3. UNCHANGED <<subs, port, opened, toWorker, workerVars>> /\ shown' = shown
      BY <2>1, <3>1 DEF panelVars
    <3> QED BY <2>1, <3>2, <3>3, ReadHolds
  <2>3. CASE Head(toPanel).port = port
    <3>1. port # 0 /\ LostComes /\ toWorker = <<>> /\ ports = 0 /\ subs > 0
      BY <2>1, <2>3, LostIsDue DEF Lost
    <3>2. OpenPort /\ subs' = subs /\ shown' = [shown EXCEPT !.status = "resync"]
      BY <1>4, <2>3, <3>1 DEF PortLost
    <3>3. subs' \in 1..MaxSubs /\ shown' \in Snapshots
      <4>1. shown \in Snapshots /\ subs \in 0..MaxSubs
        BY DEF PortIInv, PortTyped
      <4>2. shown' \in Snapshots
        BY <3>2, <4>1, SnapshotTyped
      <4> QED BY <1>0, <3>1, <3>2, <4>1, <4>2
    <3>4. /\ toPanel' \in Seq(PanelMessages)
          /\ \A i \in 1..Len(toPanel') : \E j \in 1..Len(toPanel) : toPanel'[i] = toPanel[j]
      BY <2>1, TailOf DEF PortIInv, PortTyped
    <3> QED BY <2>1, <3>1, <3>2, <3>3, <3>4, OpenHolds
  <2> QED BY <2>2, <2>3
<1> QED BY <1>1, <1>2, <1>3, <1>4 DEF Panel, Delivered

-----------------------------------------------------------------------------
(***************************************************************************)
(* The worker                                                              *)
(***************************************************************************)
LEMMA PushSends ==
    ASSUME PortIInv, NEW p \in 0..MaxPorts, p <= opened, NEW s \in Snapshots,
           PushTo(p, s), UNCHANGED panelVars
    PROVE  /\ cache' = s /\ toPanel' \in Seq(PanelMessages)
           /\ \A i \in 1..Len(toPanel') : toPanel'[i].port <= opened
           /\ LostComes' <=> LostComes
           /\ p = port /\ port # 0 =>
                \E i \in 1..Len(toPanel') :
                  /\ toPanel'[i].event = "snapshot" /\ toPanel'[i].port = port
                  /\ toPanel'[i].snapshot = s
                  /\ \A j \in 1..Len(toPanel') : ~(j > i)
<1>0. MaxPorts \in Nat
  BY PanelBounds
<1>1. port' = port /\ cache' = s
  BY DEF PushTo, panelVars
<1>2. CASE p = 0
  <2>1. toPanel' = toPanel
    BY <1>2 DEF PushTo
  <2> QED BY <1>1, <1>2, <2>1 DEF PortIInv, PortTyped, PortsAreOld, LostComes, Lost
<1>3. CASE p # 0
  <2> DEFINE m == [event |-> "snapshot", port |-> p, snapshot |-> s]
  <2>1. m \in PanelMessages /\ m.event = "snapshot" /\ m.port = p /\ m.snapshot = s
    BY <1>0, <1>3, MessageTyped
  <2>2. toPanel' = Append(toPanel, m)
    BY <1>3 DEF PushTo
  <2> HIDE DEF m
  <2>3. /\ toPanel' \in Seq(PanelMessages) /\ Len(toPanel') = Len(toPanel) + 1
        /\ Len(toPanel) \in Nat /\ toPanel'[Len(toPanel) + 1] = m
        /\ \A i \in 1..Len(toPanel) : toPanel'[i] = toPanel[i]
    BY <2>1, <2>2, AppendOf DEF PortIInv, PortTyped
  <2>4. \A i \in 1..Len(toPanel') : toPanel'[i].port <= opened
    BY <2>1, <2>3 DEF PortIInv, PortsAreOld
  <2>5. LostComes' <=> LostComes
    BY <1>1, <2>1, <2>3 DEF LostComes, Lost
  <2>6. ASSUME p = port
        PROVE  LET i == Len(toPanel) + 1 IN
               /\ i \in 1..Len(toPanel') /\ toPanel'[i].event = "snapshot"
               /\ toPanel'[i].port = port' /\ toPanel'[i].snapshot = s
               /\ \A j \in 1..Len(toPanel') : ~(j > i)
    BY <1>1, <2>1, <2>3, <2>6
  <2> QED BY <1>1, <2>3, <2>4, <2>5, <2>6
<1> QED BY <1>2, <1>3

\* A push to the port of the key: of a handshake or of a selection.
LEMMA PushHolds ==
    ASSUME PortIInv, NEW s \in Snapshots,
           PushTo(ports, s), UNCHANGED <<panelVars, toWorker, ports, greeted>>
    PROVE  PortIInv'
<1>1. /\ subs' = subs /\ port' = port /\ opened' = opened /\ shown' = shown
      /\ toWorker' = toWorker /\ ports' = ports /\ greeted' = greeted
  BY DEF panelVars
<1>2. ports \in 0..MaxPorts /\ ports <= opened
  BY DEF PortIInv, PortTyped, PortsAreOld
<1>3. UNCHANGED panelVars
  BY <1>1 DEF panelVars
<1>4. /\ cache' = s /\ toPanel' \in Seq(PanelMessages)
      /\ \A i \in 1..Len(toPanel') : toPanel'[i].port <= opened
      /\ LostComes' <=> LostComes
      /\ ports = port /\ port # 0 =>
           \E i \in 1..Len(toPanel') :
             /\ toPanel'[i].event = "snapshot" /\ toPanel'[i].port = port
             /\ toPanel'[i].snapshot = s
             /\ \A j \in 1..Len(toPanel') : ~(j > i)
  BY <1>2, <1>3, PushSends
<1>5. PortTyped' /\ PortsAreOld'
  BY <1>1, <1>4 DEF PortIInv, PortTyped, PortsAreOld
<1>6. Watched' /\ Alternates' /\ LastIsPort' /\ WorkerFollows'
  BY <1>1, <1>4 DEF PortIInv, Watched, Alternates, LastIsPort, WorkerFollows
<1>7. Mirrors'
  BY <1>1, <1>4 DEF Mirrors, IsFor
<1> QED BY <1>5, <1>6, <1>7 DEF PortIInv

\* The worker takes a message: what is left still alternates and still ends with the port.
LEMMA WorkerTakes ==
    ASSUME PortIInv, toWorker # <<>>, toWorker' = Tail(toWorker), port' = port, opened' = opened
    PROVE  /\ toWorker' \in Seq(WorkerMessages) /\ toWorker[1] \in WorkerMessages
           /\ Head(toWorker) = toWorker[1] /\ toWorker[1].port <= opened
           /\ \A i \in 1..Len(toWorker') : toWorker'[i].port <= opened
           /\ Alternates' /\ LastIsPort'
           /\ toWorker' = <<>> =>
                port = IF toWorker[1].event = "hello" THEN toWorker[1].port ELSE 0
           /\ toWorker' # <<>> =>
                IF toWorker[1].event = "hello"
                THEN toWorker'[1].event = "bye" /\ toWorker'[1].port = toWorker[1].port
                ELSE toWorker'[1].event = "hello"
<1>1. /\ toWorker' \in Seq(WorkerMessages) /\ Len(toWorker') = Len(toWorker) - 1
      /\ Len(toWorker) \in Nat \ {0} /\ Head(toWorker) = toWorker[1]
      /\ toWorker[1] \in WorkerMessages
      /\ \A i \in 1..Len(toWorker') :
           i + 1 \in 1..Len(toWorker) /\ toWorker'[i] = toWorker[i + 1]
      /\ toWorker' = <<>> <=> Len(toWorker) = 1
  BY TailOf DEF PortIInv, PortTyped
<1>2. /\ toWorker[1].port <= opened
      /\ \A i \in 1..Len(toWorker') : toWorker'[i].port <= opened
  BY <1>1 DEF PortIInv, PortsAreOld
<1>3. Alternates'
  <2> SUFFICES ASSUME NEW i \in 1..Len(toWorker'), i + 1 \in 1..Len(toWorker')
               PROVE  IF toWorker'[i].event = "hello"
                      THEN /\ toWorker'[i + 1].event = "bye"
                           /\ toWorker'[i + 1].port = toWorker'[i].port
                      ELSE toWorker'[i + 1].event = "hello"
    BY DEF Alternates
  <2>1. /\ i + 1 \in 1..Len(toWorker) /\ (i + 1) + 1 \in 1..Len(toWorker)
        /\ toWorker'[i] = toWorker[i + 1] /\ toWorker'[i + 1] = toWorker[(i + 1) + 1]
    BY <1>1
  <2> QED BY <2>1 DEF PortIInv, Alternates
<1>4. LastIsPort'
  <2> SUFFICES ASSUME NEW i \in 1..Len(toWorker'), i = Len(toWorker')
               PROVE  port = IF toWorker'[i].event = "hello" THEN toWorker'[i].port ELSE 0
    BY DEF LastIsPort
  <2>1. i + 1 = Len(toWorker) /\ i + 1 \in 1..Len(toWorker) /\ toWorker'[i] = toWorker[i + 1]
    BY <1>1
  <2> QED BY <2>1 DEF PortIInv, LastIsPort
<1>5. toWorker' = <<>> =>
        port = IF toWorker[1].event = "hello" THEN toWorker[1].port ELSE 0
  <2>1. toWorker' = <<>> => 1 = Len(toWorker) /\ 1 \in 1..Len(toWorker)
    BY <1>1
  <2> QED BY <2>1 DEF PortIInv, LastIsPort
<1>6. ASSUME toWorker' # <<>>
      PROVE  IF toWorker[1].event = "hello"
             THEN toWorker'[1].event = "bye" /\ toWorker'[1].port = toWorker[1].port
             ELSE toWorker'[1].event = "hello"
  <2>1. /\ 1 \in 1..Len(toWorker) /\ 1 + 1 \in 1..Len(toWorker)
        /\ toWorker'[1] = toWorker[1 + 1]
    BY <1>1, <1>6
  <2> QED BY <2>1 DEF PortIInv, Alternates
<1> QED BY <1>1, <1>2, <1>3, <1>4, <1>5, <1>6

LEMMA HelloHolds == ASSUME PortIInv, Hello PROVE PortIInv'
<1> DEFINE p == toWorker[1].port
           s == [cache EXCEPT !.status = "connected"]
<1>0. MaxPorts \in Nat
  BY PanelBounds
<1>1. /\ toWorker # <<>> /\ Head(toWorker).event = "hello" /\ toWorker' = Tail(toWorker)
      /\ UNCHANGED panelVars
  BY DEF Hello
<1>2. subs' = subs /\ port' = port /\ opened' = opened /\ shown' = shown
  BY <1>1 DEF panelVars
<1>3. /\ toWorker' \in Seq(WorkerMessages) /\ toWorker[1] \in WorkerMessages
      /\ Head(toWorker) = toWorker[1] /\ p <= opened
      /\ \A i \in 1..Len(toWorker') : toWorker'[i].port <= opened
      /\ Alternates' /\ LastIsPort'
      /\ toWorker' = <<>> => port = IF toWorker[1].event = "hello" THEN p ELSE 0
      /\ toWorker' # <<>> =>
           IF toWorker[1].event = "hello"
           THEN toWorker'[1].event = "bye" /\ toWorker'[1].port = p
           ELSE toWorker'[1].event = "hello"
  BY <1>1, <1>2, WorkerTakes
<1>4. p \in 1..MaxPorts /\ toWorker[1].event = "hello"
  BY <1>1, <1>3, MessageTyped
<1>5. ports' = p /\ greeted' = greeted \cup {p} /\ PushTo(p, s)
  BY <1>3 DEF Hello
<1>6. s \in Snapshots
  BY SnapshotTyped DEF PortIInv, PortTyped
<1> HIDE DEF p, s
<1>7. /\ cache' = s /\ toPanel' \in Seq(PanelMessages)
      /\ \A i \in 1..Len(toPanel') : toPanel'[i].port <= opened
      /\ LostComes' <=> LostComes
      /\ p = port /\ port # 0 =>
           \E i \in 1..Len(toPanel') :
             /\ toPanel'[i].event = "snapshot" /\ toPanel'[i].port = port
             /\ toPanel'[i].snapshot = s
             /\ \A j \in 1..Len(toPanel') : ~(j > i)
  BY <1>0, <1>1, <1>3, <1>4, <1>5, <1>6, PushSends
<1>8. PortTyped'
  BY <1>0, <1>2, <1>3, <1>4, <1>5, <1>6, <1>7 DEF PortIInv, PortTyped
<1>9. PortsAreOld'
  BY <1>2, <1>3, <1>5, <1>7 DEF PortIInv, PortsAreOld
<1>10. Watched'
  BY <1>2 DEF PortIInv, Watched
<1>11. port = 0 \/ ~LostComes
  BY <1>1 DEF PortIInv, WorkerFollows
<1>12. WorkerFollows'
  BY <1>2, <1>3, <1>4, <1>5, <1>7, <1>11 DEF WorkerFollows
<1>13. Mirrors'
  BY <1>2, <1>5, <1>7 DEF Mirrors, IsFor
<1> QED BY <1>3, <1>8, <1>9, <1>10, <1>12, <1>13 DEF PortIInv

LEMMA ByeHolds == ASSUME PortIInv, Bye PROVE PortIInv'
<1> DEFINE p == toWorker[1].port
<1>0. MaxPorts \in Nat
  BY PanelBounds
<1>1. /\ toWorker # <<>> /\ Head(toWorker).event = "bye" /\ toWorker' = Tail(toWorker)
      /\ UNCHANGED panelVars /\ greeted' = greeted
  BY DEF Bye
<1>2. subs' = subs /\ port' = port /\ opened' = opened /\ shown' = shown
  BY <1>1 DEF panelVars
<1>3. /\ toWorker' \in Seq(WorkerMessages) /\ toWorker[1] \in WorkerMessages
      /\ Head(toWorker) = toWorker[1]
      /\ \A i \in 1..Len(toWorker') : toWorker'[i].port <= opened
      /\ Alternates' /\ LastIsPort'
      /\ toWorker' = <<>> => port = IF toWorker[1].event = "hello" THEN p ELSE 0
  BY <1>1, <1>2, WorkerTakes
<1>4. /\ toWorker[1].event = "bye"
      /\ ports = 0 \/ (p = ports /\ p \in greeted)
  BY <1>1, <1>3 DEF PortIInv, WorkerFollows
<1>5. ports' = 0
  BY <1>3, <1>4 DEF Bye
<1>6. cache' \in Snapshots /\ toPanel' = toPanel
  <2>1. [cache EXCEPT !.status = "disconnected"] \in Snapshots /\ cache \in Snapshots
    BY SnapshotTyped DEF PortIInv, PortTyped
  <2> QED BY <2>1 DEF Bye, PushTo
<1> HIDE DEF p
<1>7. PortTyped' /\ PortsAreOld'
  BY <1>0, <1>1, <1>2, <1>3, <1>5, <1>6 DEF PortIInv, PortTyped, PortsAreOld
<1>8. Watched'
  BY <1>2 DEF PortIInv, Watched
<1>9. port = 0 \/ ~LostComes
  BY <1>1 DEF PortIInv, WorkerFollows
<1>10. LostComes' <=> LostComes
  BY <1>2, <1>6 DEF LostComes, Lost
<1>11. WorkerFollows'
  BY <1>2, <1>3, <1>4, <1>5, <1>9, <1>10 DEF WorkerFollows
<1>12. Mirrors'
  BY <1>5, <1>2 DEF Mirrors
<1> QED BY <1>3, <1>7, <1>8, <1>11, <1>12 DEF PortIInv

LEMMA SleepHolds == ASSUME PortIInv, PortsSleep PROVE PortIInv'
<1>0. MaxPorts \in Nat
  BY PanelBounds
<1>1. /\ ports' = 0 /\ greeted' = {} /\ cache' = Default /\ toWorker' = <<>>
      /\ subs' = subs /\ port' = port /\ opened' = opened /\ shown' = shown
  BY DEF PortsSleep, panelVars
<1>2. /\ toPanel' \in Seq(PanelMessages)
      /\ \A i \in 1..Len(toPanel') : toPanel'[i].port <= opened
      /\ port # 0 => LostComes'
  <2>1. CASE port = 0
    <3>1. toPanel' = toPanel
      BY <2>1 DEF PortsSleep
    <3> QED BY <2>1, <3>1 DEF PortIInv, PortTyped, PortsAreOld
  <2>2. CASE port # 0
    <3> DEFINE m == [event |-> "lost", port |-> port]
    <3>1. m \in PanelMessages /\ m.event = "lost" /\ m.port = port
      BY <1>0, <2>2, MessageTyped DEF PortIInv, PortTyped
    <3>2. toPanel' = Append(toPanel, m)
      BY <2>2 DEF PortsSleep
    <3> HIDE DEF m
    <3>3. /\ toPanel' \in Seq(PanelMessages) /\ Len(toPanel') = Len(toPanel) + 1
          /\ Len(toPanel) \in Nat /\ toPanel'[Len(toPanel) + 1] = m
          /\ \A i \in 1..Len(toPanel) : toPanel'[i] = toPanel[i]
      BY <3>1, <3>2, AppendOf DEF PortIInv, PortTyped
    <3>4. Len(toPanel) + 1 \in 1..Len(toPanel')
      BY <3>3
    <3>5. LostComes'
      BY <1>1, <3>1, <3>3, <3>4 DEF LostComes, Lost
    <3>6. \A i \in 1..Len(toPanel') : toPanel'[i].port <= opened
      BY <3>1, <3>3 DEF PortIInv, PortsAreOld
    <3> QED BY <3>3, <3>5, <3>6
  <2> QED BY <2>1, <2>2
<1>3. PortTyped'
  BY <1>0, <1>1, <1>2, SnapshotTyped DEF PortIInv, PortTyped
<1>4. PortsAreOld'
  <2>1. opened \in Nat
    BY <1>0 DEF PortIInv, PortTyped
  <2> QED BY <1>1, <1>2, <2>1 DEF PortIInv, PortsAreOld
<1>5. Watched' /\ Alternates' /\ LastIsPort'
  BY <1>1 DEF PortIInv, Watched, Alternates, LastIsPort
<1>6. WorkerFollows' /\ Mirrors'
  BY <1>1, <1>2 DEF WorkerFollows, Mirrors
<1> QED BY <1>3, <1>4, <1>5, <1>6 DEF PortIInv

LEMMA PortsStay == ASSUME PortIInv, UNCHANGED portVars PROVE PortIInv'
<1>1. /\ subs' = subs /\ port' = port /\ opened' = opened /\ shown' = shown
      /\ toWorker' = toWorker /\ toPanel' = toPanel
      /\ ports' = ports /\ greeted' = greeted /\ cache' = cache
  BY DEF portVars, panelVars, wires, workerVars
<1>2. PortTyped' /\ PortsAreOld' /\ Watched' /\ Alternates' /\ LastIsPort'
  BY <1>1 DEF PortIInv, PortTyped, PortsAreOld, Watched, Alternates, LastIsPort
<1>3. WorkerFollows' /\ Mirrors'
  BY <1>1 DEF PortIInv, WorkerFollows, LostComes, Lost, Mirrors, IsFor
<1> QED BY <1>2, <1>3 DEF PortIInv

-----------------------------------------------------------------------------
(***************************************************************************)
(* The router                                                              *)
(***************************************************************************)
LEMMA RecordsTyped ==
    /\ NoSession \in SessionRecords
    /\ Fresh \in PickRecords /\ Ended \in PickRecords
    /\ \A t \in Tabs : [Fresh EXCEPT !.tab = t, !.at = "extract"] \in PickRecords
    /\ \A r \in PickRecords, at \in InWorker : [r EXCEPT !.at = at] \in PickRecords
    /\ \A r \in PickRecords, s \in SessionRecords :
         [r EXCEPT !.at = "minted", !.session = s] \in PickRecords
    /\ \A r \in PickRecords :
         /\ r.tab \in Tabs /\ r.session \in SessionRecords /\ r.handshake \in 0..Daemons
<1>1. PanelTab \in Tabs /\ Picks \in Nat /\ Daemons \in Nat
  BY WorkerBounds
<1>2. NoSession \in SessionRecords
  BY <1>1 DEF NoSession, SessionRecords
<1>3. Fresh \in PickRecords
  BY <1>1, <1>2 DEF Fresh, PickRecords
<1>4. /\ Ended \in PickRecords
      /\ \A t \in Tabs : [Fresh EXCEPT !.tab = t, !.at = "extract"] \in PickRecords
  BY <1>3 DEF Ended, PickRecords
<1>5. /\ \A r \in PickRecords, at \in InWorker : [r EXCEPT !.at = at] \in PickRecords
      /\ \A r \in PickRecords, s \in SessionRecords :
           [r EXCEPT !.at = "minted", !.session = s] \in PickRecords
      /\ \A r \in PickRecords :
           r.tab \in Tabs /\ r.session \in SessionRecords /\ r.handshake \in 0..Daemons
  BY DEF PickRecords, InWorker
<1> QED BY <1>2, <1>3, <1>4, <1>5

IInv == PortIInv /\ RouterTyped

LEMMA TypesAgree == TypeOK <=> PortTyped /\ RouterTyped
BY DEF TypeOK, PortTyped, RouterTyped, PickRecords, WorkerMessages

LEMMA InitHolds == Init => IInv
<1> SUFFICES ASSUME Init PROVE IInv
  OBVIOUS
<1>0. MaxPorts \in Nat /\ MaxSubs \in Nat /\ Daemons \in Nat \ {0} /\ Sleeps \in Nat
  BY PanelBounds, WorkerBounds
<1>1. /\ subs = 0 /\ port = 0 /\ opened = 0 /\ ports = 0 /\ greeted = {}
      /\ toWorker = <<>> /\ toPanel = <<>> /\ shown = Default /\ cache = Default
  BY DEF Init, PanelInit
<1>2. PortTyped
  BY <1>0, <1>1, SnapshotTyped DEF PortTyped
<1>3. PortsAreOld /\ Watched /\ Alternates /\ LastIsPort /\ WorkerFollows /\ Mirrors
  BY <1>1 DEF PortsAreOld, Watched, Alternates, LastIsPort, WorkerFollows, Mirrors
<1>4. RouterTyped
  <2>1. daemon \in 1..Daemons /\ sleeps \in 0..Sleeps /\ 0 \in 0..Daemons
    BY <1>0 DEF Init
  <2>2. tabHandshakes \in [Tabs -> 0..Daemons]
    BY <2>1 DEF Init
  <2>3. /\ active \in SessionRecords /\ tabSessions \in [Tabs -> SessionRecords]
        /\ picks \in [1..Picks -> PickRecords]
    BY RecordsTyped DEF Init
  <2> QED BY <2>1, <2>2, <2>3 DEF RouterTyped
<1> QED BY <1>2, <1>3, <1>4 DEF IInv, PortIInv

\* A push to a tab: to that of the panel, or to one nobody watches.
LEMMA PushToTabHolds ==
    ASSUME PortIInv, NEW t, NEW s \in Snapshots, Push(t, s)
    PROVE  PortIInv'
<1>1. CASE t = PanelTab
  BY <1>1, PushHolds DEF Push
<1>2. CASE t # PanelTab
  BY <1>2, PortsStay DEF Push
<1> QED BY <1>1, <1>2

\* What becomes of a pick is a pick.
LEMMA PickTyped ==
    ASSUME RouterTyped, NEW k \in 1..Picks, NEW r \in PickRecords, picks' = [picks EXCEPT ![k] = r]
    PROVE  picks' \in [1..Picks -> PickRecords]
BY DEF RouterTyped

LEMMA RegisterHolds == ASSUME IInv, NEW t \in Tabs, Register(t) PROVE IInv'
<1>1. [cache EXCEPT !.status = "connected"] \in Snapshots
  BY SnapshotTyped DEF IInv, PortIInv, PortTyped
<1>2. PortIInv'
  BY <1>1, PushToTabHolds DEF Register, IInv
<1>3. Daemons \in Nat
  BY WorkerBounds
<1>4. Handshakes \subseteq 0..Daemons
  BY <1>3 DEF Handshakes, Fetched, HandshakeJson, ReadBootstrap, InMeta, IInv, RouterTyped
<1>5. tabHandshakes' \in [Tabs -> 0..Daemons]
  BY <1>4 DEF Register, IInv, RouterTyped
<1> QED BY <1>2, <1>5 DEF Register, IInv, RouterTyped

LEMMA PickHolds == ASSUME IInv, NEW k \in 1..Picks, NEW t \in Tabs, Pick(k, t) PROVE IInv'
<1>1. RouterTyped /\ PortIInv'
  BY PortsStay DEF Pick, IInv
<1>2. PICK r \in PickRecords : picks' = [picks EXCEPT ![k] = r]
  <2>1. CASE tabHandshakes[t] = 0
    BY <2>1, RecordsTyped DEF Pick, Ends
  <2>2. CASE tabHandshakes[t] # 0
    <3>1. PICK e \in EnsureSession(t) :
            picks' = [picks EXCEPT ![k] = [tab |-> t, handshake |-> tabHandshakes[t],
                                           at |-> e.at, session |-> e.session]]
      BY <2>2 DEF Pick
    <3>2. e.at \in InWorker /\ e.session \in SessionRecords
      <4>1. \/ e = [at |-> "exchange", session |-> NoSession]
            \/ e = [at |-> "fetch", session |-> tabSessions[t]]
        BY DEF EnsureSession
      <4>2. tabSessions[t] \in SessionRecords /\ NoSession \in SessionRecords
        BY <1>1, RecordsTyped DEF RouterTyped
      <4> QED BY <4>1, <4>2 DEF InWorker
    <3>3. tabHandshakes[t] \in 0..Daemons
      BY <1>1 DEF RouterTyped
    <3>4. [tab |-> t, handshake |-> tabHandshakes[t], at |-> e.at, session |-> e.session]
            \in PickRecords
      BY <3>2, <3>3 DEF PickRecords
    <3> QED BY <3>1, <3>4
  <2> QED BY <2>1, <2>2
<1>3. picks' \in [1..Picks -> PickRecords]
  BY <1>1, <1>2, PickTyped
<1> QED BY <1>1, <1>3 DEF Pick, routerVars, IInv, RouterTyped

LEMMA AdvanceHolds == ASSUME IInv, NEW k \in 1..Picks, Advance(k) PROVE IInv'
<1>0. RouterTyped /\ picks[k] \in PickRecords /\ Picks \in Nat
  BY WorkerBounds DEF IInv, RouterTyped
<1>1. CASE Mint(k)
  <2>1. [by |-> k, daemon |-> daemon] \in SessionRecords
    BY <1>0, WorkerBounds DEF SessionRecords, RouterTyped
  <2>2. active' \in SessionRecords
    BY <1>1, <2>1 DEF Mint
  <2>3. picks' = [picks EXCEPT ![k] = [picks[k] EXCEPT !.at = "minted", !.session = active']]
    BY <1>0, <1>1 DEF Mint, RouterTyped
  <2>4. picks' \in [1..Picks -> PickRecords]
    BY <1>0, <2>2, <2>3, RecordsTyped, PickTyped
  <2>5. PortIInv'
    BY <1>1, PortsStay DEF Mint, IInv
  <2> QED BY <1>0, <1>1, <2>2, <2>4, <2>5 DEF Mint, routerVars, IInv, RouterTyped
<1>2. CASE Keep(k)
  <2>1. picks' = [picks EXCEPT ![k] = [picks[k] EXCEPT !.at = "fetch"]]
    BY <1>0, <1>2 DEF Keep, Becomes, RouterTyped
  <2>2. picks' \in [1..Picks -> PickRecords]
    BY <1>0, <2>1, RecordsTyped, PickTyped DEF InWorker
  <2>3. tabSessions' \in [Tabs -> SessionRecords]
    BY <1>0, <1>2, RecordsTyped DEF Keep, RouterTyped
  <2>4. PortIInv'
    BY <1>2, PortsStay DEF Keep, IInv
  <2> QED BY <1>0, <1>2, <2>2, <2>3, <2>4 DEF Keep, IInv, RouterTyped
<1>3. CASE Fails(k)
  <2>1. picks' \in [1..Picks -> PickRecords]
    BY <1>0, <1>3, RecordsTyped, PickTyped DEF Fails, Ends
  <2>2. PortIInv'
    BY <1>3, PortsStay DEF Fails, IInv
  <2> QED BY <1>0, <1>3, <2>1, <2>2 DEF Fails, routerVars, IInv, RouterTyped
<1>4. CASE Serve(k)
  <2>1. picks' \in [1..Picks -> PickRecords]
    BY <1>0, <1>4, RecordsTyped, PickTyped DEF Serve
  <2>2. PortIInv'
    BY <1>4, PortsStay DEF Serve, IInv
  <2> QED BY <1>0, <1>4, <2>1, <2>2 DEF Serve, routerVars, IInv, RouterTyped
<1>5. CASE Select(k)
  <2>1. picks' \in [1..Picks -> PickRecords]
    BY <1>0, <1>5, RecordsTyped, PickTyped DEF Select, Ends
  <2>2. [cache EXCEPT !.selection = k] \in Snapshots
    BY SnapshotTyped DEF IInv, PortIInv, PortTyped
  <2>3. PortIInv'
    BY <1>5, <2>2, PushToTabHolds, PortsStay DEF Select, IInv
  <2> QED BY <1>0, <1>5, <2>1, <2>3 DEF Select, routerVars, IInv, RouterTyped
<1> QED BY <1>1, <1>2, <1>3, <1>4, <1>5 DEF Advance

LEMMA StepHolds == IInv /\ [Next]_vars => IInv'
<1> SUFFICES ASSUME IInv, [Next]_vars PROVE IInv'
  OBVIOUS
<1>1. CASE (Panel \/ Worker) /\ UNCHANGED <<daemon, active, routerVars, picks, sleeps>>
  <2>1. PortIInv'
    BY <1>1, PanelHolds, HelloHolds, ByeHolds DEF Worker, IInv
  <2> QED BY <1>1, <2>1 DEF routerVars, IInv, RouterTyped
<1>2. CASE Replace
  <2>1. PortIInv'
    BY <1>2, PortsStay DEF Replace, IInv
  <2>2. daemon' \in 1..Daemons
    BY <1>2, WorkerBounds DEF Replace, IInv, RouterTyped
  <2> QED BY <1>2, <2>1, <2>2, RecordsTyped DEF Replace, routerVars, IInv, RouterTyped
<1>3. CASE Sleep
  <2>1. PortIInv'
    BY <1>3, SleepHolds DEF Sleep, IInv
  <2>2. sleeps' \in 0..Sleeps
    BY <1>3, WorkerBounds DEF Sleep, IInv, RouterTyped
  <2>3. picks' \in [1..Picks -> PickRecords]
    <3>1. \A k \in 1..Picks : picks[k] \in PickRecords
      BY DEF IInv, RouterTyped
    <3>2. picks' = [k \in 1..Picks |-> IF picks[k].at \in InWorker THEN Ended ELSE picks[k]]
      BY <1>3 DEF Sleep
    <3> QED BY <3>1, <3>2, RecordsTyped
  <2>4. /\ tabSessions' \in [Tabs -> SessionRecords]
        /\ tabHandshakes' \in [Tabs -> 0..Daemons]
    <3>1. 0 \in 0..Daemons
      BY WorkerBounds
    <3> QED BY <1>3, <3>1, RecordsTyped DEF Sleep
  <2> QED BY <1>3, <2>1, <2>2, <2>3, <2>4 DEF Sleep, IInv, RouterTyped
<1>4. CASE UNCHANGED vars
  BY <1>4, PortsStay DEF vars, routerVars, IInv, RouterTyped
<1> QED BY <1>1, <1>2, <1>3, <1>4, RegisterHolds, PickHolds, AdvanceHolds DEF Next

LEMMA Inductive == Spec => []IInv
BY InitHolds, StepHolds, PTL DEF Spec

\* Every variable of the panel, the worker and what is under way between them keeps its type.
THEOREM TypeCorrect == Spec => []TypeOK
<1>1. IInv => TypeOK
  BY TypesAgree DEF IInv, PortIInv
<1> QED BY <1>1, Inductive, PTL

\* Whenever nothing is under way, a panel that is watched has the port the worker pushes to
\* and shows what it has cached (usePanelPort.ts:73-148, panelPort.ts:60-116).
THEOREM QuietPanelMirrors == Spec => []QuietMirrors
<1>1. ASSUME IInv PROVE QuietMirrors
  <2> SUFFICES ASSUME toWorker = <<>>, toPanel = <<>>
               PROVE  /\ ports = port /\ (port # 0) = (subs > 0)
                      /\ subs > 0 => shown = cache
    BY DEF QuietMirrors, Quiet
  <2>1. ports = port
    BY <1>1 DEF IInv, PortIInv, WorkerFollows, LostComes
  <2>2. (port # 0) = (subs > 0)
    BY <1>1 DEF IInv, PortIInv, Watched
  <2>3. subs > 0 => shown = cache
    BY <1>1, <2>1 DEF IInv, PortIInv, Watched, Mirrors
  <2> QED BY <2>1, <2>2, <2>3
<1> QED BY <1>1, Inductive, PTL
-----------------------------------------------------------------------------
(***************************************************************************)
(* The picker, for every page.                                             *)
(*                                                                         *)
(* What is committed is what a frame has found, and what a frame finds is  *)
(* what the hit test computes by recursion into the shadow roots.  Its own *)
(* host apart, which the hit test skips, no shadow root lists an element   *)
(* that it is inside of, so that of any elements there is one whose shadow *)
(* root has none of the others (DomIsWellFormed): as with the least number *)
(* of a set, a claim that fails at some element fails at one where it      *)
(* holds for all that is recursed into.  That gives the recursive function *)
(* (SolutionExists) and then where its values are (HitIsThere).            *)
(***************************************************************************)
LEMMA LeastOf == ASSUME NEW S \in SUBSET Nat, S # {} PROVE \E n \in S : \A m \in S : n <= m
<1> DEFINE R == OpToRel(<, Nat)
<1>1. IsWellFoundedOn(R, Nat)
  BY NatLessThanWellFounded
<1> HIDE DEF R
<1>2. PICK n \in S : \A m \in S : <<m, n>> \notin R
  BY <1>1, WFMin
<1>3. \A m \in S : m < n => <<m, n>> \in R
  BY DEF R, OpToRel
<1>4. ASSUME NEW m \in S PROVE n <= m
  <2>1. ~(m < n)
    BY <1>2, <1>3
  <2> QED BY <2>1
<1> QED BY <1>4

LEMMA FirstIsOne ==
    ASSUME NEW s, DOMAIN s \in SUBSET Nat, First(s) # None
    PROVE  \E i \in DOMAIN s : First(s) = s[i]
<1> DEFINE found == {i \in DOMAIN s : s[i] # None}
           first == CHOOSE i \in found : \A j \in found : i <= j
<1>1. First(s) = IF found = {} THEN None ELSE s[first]
  BY DEF First
<1>2. found # {} /\ found \in SUBSET Nat
  BY <1>1
<1>3. \E i \in found : \A j \in found : i <= j
  BY <1>2, LeastOf
<1>4. first \in found
  BY <1>3
<1> QED BY <1>1, <1>2, <1>4

LEMMA ElementsApart ==
    /\ Document \notin Elements /\ Body \notin Elements /\ Host \notin Elements
    /\ Highlight \notin Elements /\ None \notin Elements
    /\ Document # Body /\ Document # Host /\ Document # None /\ Body # Host /\ Body # None
    /\ Host # None /\ Highlight # None /\ Host # Document
<1> DEFINE others == <<Document, Body, Host, Highlight, None>>
<1>1. \A i, j \in 1..5 : others[i] \notin Elements /\ (others[i] = others[j] => i = j)
  BY DomIsWellFormed
<1>2. /\ others[1] = Document /\ others[2] = Body /\ others[3] = Host /\ others[4] = Highlight
      /\ others[5] = None
  OBVIOUS
<1> HIDE DEF others
<1> QED BY <1>1, <1>2

\* What is at a point in a shadow root or in the document.
Inside(root, p) == {FromPoint[root][p][i] : i \in DOMAIN FromPoint[root][p]}

LEMMA AtTyped ==
    ASSUME NEW root \in DOMAIN FromPoint, NEW p \in Points
    PROVE  /\ DOMAIN ElementsAt(root, p) \in SUBSET Nat
           /\ \A i \in DOMAIN ElementsAt(root, p) :
                \/ ElementsAt(root, p)[i] = Host /\ root = Document
                \/ ElementsAt(root, p)[i] \in Inside(root, p)
           /\ Inside(root, p) \subseteq Resolved
<1> DEFINE all == FromPoint[root][p]
<1>1. all \in Seq(Resolved)
  BY DomIsWellFormed
<1>2. DOMAIN all \in SUBSET Nat /\ 0 \notin DOMAIN all
      /\ \A i \in DOMAIN all : all[i] \in Resolved
  BY <1>1
<1> QED BY <1>2 DEF ElementsAt, Inside

-----------------------------------------------------------------------------
Value(p, g, e) ==
    IF IsInPickerRoot(e) THEN None
    ELSE IF e \in Hosts
    THEN LET inner == ElementsAt(e, p)
             others == {i \in DOMAIN inner : inner[i] # e}
         IN First([i \in others |-> g[inner[i]]])
    ELSE e

\* What resolveInShadow(e) calls itself with.
Kids(e, p) == IF e \in Hosts THEN Inside(e, p) \ {e} ELSE {}

LEMMA KidsTyped == \A e \in Resolved, p \in Points : Kids(e, p) \subseteq Resolved
<1> TAKE e \in Resolved, p \in Points
<1>1. CASE e \in Hosts
  <2>1. e \in DOMAIN FromPoint
    BY <1>1 DEF Hosts
  <2>2. Inside(e, p) \subseteq Resolved
    BY <2>1, AtTyped
  <2> QED BY <2>2 DEF Kids
<1>2. CASE e \notin Hosts
  BY <1>2 DEF Kids
<1> QED BY <1>1, <1>2

LEMMA KidsEnd ==
    ASSUME NEW p \in Points, NEW S \in SUBSET Resolved, S # {}
    PROVE  \E e \in S : Kids(e, p) \cap S = {}
<1>1. PICK e \in S : e \in Hosts =>
        \A q \in Points : \A i \in DOMAIN FromPoint[e][q] : FromPoint[e][q][i] \notin S \ {e}
  BY DomIsWellFormed
<1> QED BY <1>1 DEF Kids, Inside

LEMMA ValueOfKids ==
    ASSUME NEW p \in Points, NEW e \in Resolved, NEW g, NEW h,
           \A k \in Kids(e, p) : g[k] = h[k]
    PROVE  Value(p, g, e) = Value(p, h, e)
<1>1. CASE e \in Hosts
  <2> DEFINE inner == ElementsAt(e, p)
             others == {i \in DOMAIN inner : inner[i] # e}
  <2>1. e \in DOMAIN FromPoint /\ e # Document
    BY <1>1 DEF Hosts
  <2>2. \A i \in others : inner[i] \in Kids(e, p)
    BY <1>1, <2>1, AtTyped DEF Kids
  <2> HIDE DEF inner, others
  <2>3. [i \in others |-> g[inner[i]]] = [i \in others |-> h[inner[i]]]
    BY <2>2
  <2> QED BY <1>1, <2>3 DEF Value, inner, others
<1>2. CASE e \notin Hosts
  BY <1>2 DEF Value
<1> QED BY <1>1, <1>2

Solves(p, g, A) ==
    /\ A \subseteq Resolved /\ DOMAIN g = A
    /\ \A e \in A : Kids(e, p) \subseteq A /\ g[e] = Value(p, g, e)

LEMMA SolutionsAgree ==
    ASSUME NEW p \in Points
    PROVE  \A A, B, g, h :
             Solves(p, g, A) /\ Solves(p, h, B) => \A e \in A \cap B : g[e] = h[e]
<1> SUFFICES ASSUME NEW A, NEW B, NEW g, NEW h, Solves(p, g, A), Solves(p, h, B)
             PROVE  \A e \in A \cap B : g[e] = h[e]
  OBVIOUS
<1> DEFINE S == {e \in A \cap B : g[e] # h[e]}
<1> SUFFICES ASSUME S # {} PROVE FALSE
  OBVIOUS
<1>1. S \in SUBSET Resolved
  BY DEF Solves
<1>2. PICK e \in S : Kids(e, p) \cap S = {}
  BY <1>1, KidsEnd
<1>3. \A k \in Kids(e, p) : g[k] = h[k]
  BY <1>2 DEF Solves
<1>4. Value(p, g, e) = Value(p, h, e)
  BY <1>1, <1>3, ValueOfKids
<1> QED BY <1>4 DEF Solves

LEMMA SolutionExists ==
    ASSUME NEW p \in Points
    PROVE  \E g : Solves(p, g, Resolved) /\ g = [e \in Resolved |-> Value(p, g, e)]
<1>0. \A A, B, g, h :
        Solves(p, g, A) /\ Solves(p, h, B) => \A e \in A \cap B : g[e] = h[e]
  BY SolutionsAgree
<1> DEFINE Solved == {A \in SUBSET Resolved : \E g : Solves(p, g, A)}
           Sol(A) == CHOOSE g : Solves(p, g, A)
           U == UNION Solved
           In(x) == CHOOSE A \in Solved : x \in A
           G == [x \in U |-> Sol(In(x))[x]]
<1>1. \A A \in Solved : Solves(p, Sol(A), A)
  OBVIOUS
<1>2. \A x \in U : In(x) \in Solved /\ x \in In(x)
  OBVIOUS
<1>3. U \subseteq Resolved /\ DOMAIN G = U
  OBVIOUS
<1>4. \A A \in Solved : A \subseteq U
  OBVIOUS
<1>5. \A x \in U : G[x] = Sol(In(x))[x]
  OBVIOUS
<1>6. \A A \in SUBSET Resolved : \A g : Solves(p, g, A) => A \in Solved
  OBVIOUS
<1> HIDE DEF Solved, Sol, U, In, G
<1>7. ASSUME NEW A \in Solved, NEW x \in A PROVE G[x] = Sol(A)[x]
  <2>1. x \in U /\ In(x) \in Solved /\ x \in In(x)
    BY <1>2, <1>4, <1>7
  <2>2. Solves(p, Sol(A), A) /\ Solves(p, Sol(In(x)), In(x))
    BY <1>1, <2>1
  <2>3. \A y \in A \cap In(x) : Sol(A)[y] = Sol(In(x))[y]
    BY <1>0, <2>2
  <2> QED BY <1>5, <2>1, <2>3
<1>8. Solves(p, G, U)
  <2> SUFFICES ASSUME NEW x \in U PROVE Kids(x, p) \subseteq U /\ G[x] = Value(p, G, x)
    BY <1>3 DEF Solves
  <2> DEFINE A == In(x)
             g == Sol(A)
  <2>1. A \in Solved /\ x \in A /\ x \in Resolved
    BY <1>2, <1>3
  <2>2. Solves(p, g, A)
    BY <1>1, <2>1
  <2>3. Kids(x, p) \subseteq A /\ g[x] = Value(p, g, x)
    BY <2>1, <2>2 DEF Solves
  <2>4. \A k \in Kids(x, p) : G[k] = g[k]
    BY <1>7, <2>1, <2>3
  <2> HIDE DEF A, g
  <2>5. Value(p, G, x) = Value(p, g, x)
    BY <2>1, <2>4, ValueOfKids
  <2>6. G[x] = g[x]
    BY <1>7, <2>1 DEF g
  <2> QED BY <1>4, <2>1, <2>3, <2>5, <2>6
<1>9. U = Resolved
  <2> SUFFICES ASSUME Resolved \ U # {} PROVE FALSE
    BY <1>3
  <2>1. PICK e \in Resolved \ U : Kids(e, p) \cap (Resolved \ U) = {}
    BY KidsEnd
  <2>2. Kids(e, p) \subseteq U
    BY <2>1, KidsTyped
  <2> DEFINE A == U \cup {e}
             h == [x \in A |-> IF x = e THEN Value(p, G, e) ELSE G[x]]
  <2>3. A \in SUBSET Resolved /\ DOMAIN h = A /\ h[e] = Value(p, G, e)
        /\ \A x \in U : h[x] = G[x]
    BY <1>3, <2>1
  <2> HIDE DEF A, h
  <2>4. ASSUME NEW x \in A PROVE Kids(x, p) \subseteq A /\ h[x] = Value(p, h, x)
    <3>1. Kids(x, p) \subseteq U /\ h[x] = Value(p, G, x)
      BY <1>8, <2>2, <2>3 DEF A, Solves
    <3>2. \A k \in Kids(x, p) : h[k] = G[k]
      BY <2>3, <3>1
    <3>3. Value(p, h, x) = Value(p, G, x)
      <4>1. x \in Resolved
        BY <2>3, <2>4
      <4> QED BY <3>2, <4>1, ValueOfKids
    <3> QED BY <3>1, <3>3 DEF A
  <2>5. Solves(p, h, A)
    BY <2>3, <2>4 DEF Solves
  <2>6. A \in Solved
    BY <1>6, <2>3, <2>5
  <2> QED BY <1>4, <2>1, <2>6 DEF A
<1>10. G = [e \in Resolved |-> Value(p, G, e)]
  <2>1. G = [x \in U |-> G[x]]
    BY <1>5 DEF G
  <2> QED BY <1>8, <1>9, <2>1 DEF Solves
<1> QED BY <1>8, <1>9, <1>10

LEMMA ResolveSolves ==
    ASSUME NEW p \in Points
    PROVE  Solves(p, ResolveInShadow(p), Resolved)
<1> DEFINE f == CHOOSE g : g = [e \in Resolved |-> Value(p, g, e)]
<1>1. ResolveInShadow(p) = f
  BY DEF ResolveInShadow, Value
<1>2. f = [e \in Resolved |-> Value(p, f, e)]
  BY SolutionExists
<1> HIDE DEF f
<1>3. DOMAIN f = Resolved /\ \A e \in Resolved : f[e] = Value(p, f, e)
  BY <1>2
<1> QED BY <1>1, <1>3, KidsTyped DEF Solves

Under(p) == UNION {Inside(r, p) : r \in DOMAIN FromPoint}

LEMMA HitIsThere ==
    ASSUME NEW p \in Points, HitTest(p) # None
    PROVE  HitTest(p) \in Elements \cap Under(p)
<1> DEFINE f == ResolveInShadow(p)
           Good(e) == f[e] # None => f[e] \in Elements /\ (f[e] = e \/ f[e] \in Under(p))
           Bad == {e \in Resolved : ~Good(e)}
<1>1. Solves(p, f, Resolved)
  BY ResolveSolves
<1> HIDE DEF f
<1>2. \A e \in Resolved : Kids(e, p) \subseteq Resolved /\ f[e] = Value(p, f, e)
  BY <1>1 DEF Solves
<1>3. Bad = {}
  <2> SUFFICES ASSUME Bad # {} PROVE FALSE
    OBVIOUS
  <2>1. PICK e \in Bad : Kids(e, p) \cap Bad = {}
    BY KidsEnd
  <2>2. e \in Resolved /\ f[e] # None /\ ~Good(e) /\ \A k \in Kids(e, p) : Good(k)
    BY <1>2, <2>1
  <2>3. ~IsInPickerRoot(e)
    BY <1>2, <2>2 DEF Value
  <2>4. e \in Elements
    BY <2>2, <2>3 DEF Resolved, IsInPickerRoot
  <2>5. CASE e \notin Hosts
    BY <1>2, <2>2, <2>3, <2>4, <2>5 DEF Value
  <2>6. CASE e \in Hosts
    <3> DEFINE inner == ElementsAt(e, p)
               others == {i \in DOMAIN inner : inner[i] # e}
               s == [i \in others |-> f[inner[i]]]
    <3>1. e \in DOMAIN FromPoint /\ e # Document
      BY <2>6 DEF Hosts
    <3>2. others \in SUBSET Nat /\ \A i \in others : inner[i] \in Inside(e, p) \ {e}
      BY <3>1, AtTyped
    <3>3. f[e] = First(s)
      BY <1>2, <2>2, <2>3, <2>6 DEF Value
    <3> HIDE DEF inner, others
    <3>4. PICK i \in others : f[e] = f[inner[i]]
      BY <2>2, <3>2, <3>3, FirstIsOne
    <3>5. inner[i] \in Kids(e, p) /\ inner[i] \in Under(p)
      BY <2>6, <3>1, <3>2 DEF Kids, Under
    <3>6. Good(e)
      BY <2>2, <3>4, <3>5
    <3> QED BY <2>2, <3>6
  <2> QED BY <2>5, <2>6
<1>4. \A e \in Resolved : Good(e)
  BY <1>3
<1> DEFINE candidates == ElementsAt(Document, p)
           s == [i \in DOMAIN candidates |-> f[candidates[i]]]
<1>5. HitTest(p) = First(s)
  BY DEF HitTest, f
<1>6. /\ DOMAIN candidates \in SUBSET Nat
      /\ \A i \in DOMAIN candidates :
           candidates[i] = Host \/ candidates[i] \in Inside(Document, p)
      /\ Inside(Document, p) \subseteq Resolved
      /\ Document \in DOMAIN FromPoint
  BY DomIsWellFormed, AtTyped
<1> HIDE DEF candidates
<1>7. PICK i \in DOMAIN candidates : HitTest(p) = f[candidates[i]]
  BY <1>5, <1>6, FirstIsOne
<1>8. candidates[i] # Host
  <2>1. f[Host] = None
    BY <1>2 DEF Value, IsInPickerRoot, Resolved
  <2> QED BY <1>7, <2>1
<1>9. candidates[i] \in Resolved /\ candidates[i] \in Under(p)
  BY <1>6, <1>8 DEF Under
<1> QED BY <1>4, <1>7, <1>9

-----------------------------------------------------------------------------
\* An armed picker listens and observes.
ArmedObserves == armed => listeners /\ observer /\ liveRegion

\* What is hovered, or going to be, was visited since this arming.
HoverIsFresh ==
    /\ lastHoverTarget # None => \E p \in visited : lastHoverTarget \in Under(p)
    /\ hasPendingPointer => lastPoint \in visited

PickerIInv ==
    /\ PickerTypeOK /\ ArmedObserves /\ DisarmedIsClean
    /\ ModalDisarms /\ HoverIsFresh /\ CommitIsHovered

LEMMA UnderIs ==
    \A p : UNION {{FromPoint[r][p][i] : i \in DOMAIN FromPoint[r][p]} : r \in DOMAIN FromPoint}
             = Under(p)
BY DEF Under, Inside

LEMMA PickerInitHolds == ASSUME PickerInit PROVE PickerIInv
<1>1. PickerTypeOK
  BY DEF PickerInit, PickerTypeOK, NoCommit
<1>2. ArmedObserves /\ DisarmedIsClean /\ ModalDisarms /\ HoverIsFresh
  BY ElementsApart DEF PickerInit, ArmedObserves, DisarmedIsClean, ModalDisarms, HoverIsFresh
<1>3. CommitIsHovered
  BY DEF PickerInit, CommitIsHovered, NoCommit
<1> QED BY <1>1, <1>2, <1>3 DEF PickerIInv

LEMMA CleanHolds ==
    ASSUME PickerTypeOK, ArmedObserves, DisarmedIsClean,
           [PickerNext]_pickerVars
    PROVE  ArmedObserves' /\ DisarmedIsClean'
<1> USE ElementsApart DEF ArmedObserves, DisarmedIsClean
<1>1. CASE Arm
  BY <1>1 DEF Arm
<1>2. CASE Disarm
  BY <1>2 DEF Disarm, RestoreFocus
<1>3. CASE Dispose
  BY <1>2, <1>3 DEF Dispose
<1>4. CASE Frame
  BY <1>4 DEF Frame
<1>5. CASE PointerCancel
  BY <1>5 DEF PointerCancel, page
<1>6. CASE Announce
  BY <1>6 DEF Announce, page
<1>7. CASE Observe
  BY <1>2, <1>7 DEF Observe, DisarmFor, picker, page
<1>8. CASE Mutate
  BY <1>8 DEF Mutate, Mutated, Observed, picker, page
<1>9. CASE \E p \in Points, type \in Pointers : PointerMove(p, type)
  BY <1>9 DEF PointerMove, page
<1>10. ASSUME NEW e \in Elements \ gone, Click(e) \/ Remove(e) \/ Focus(e)
       PROVE  ArmedObserves' /\ DisarmedIsClean'
  BY <1>2, <1>10 DEF Click, Remove, Focus, Mutated, Observed, picker
<1>11. ASSUME NEW m \in Modals, OpenModal(m) \/ CloseModal(m)
       PROVE  ArmedObserves' /\ DisarmedIsClean'
  BY <1>11 DEF OpenModal, CloseModal, Mutated, Observed, picker
<1>12. CASE UNCHANGED pickerVars
  BY <1>12 DEF pickerVars, picker, page
<1> QED BY <1>1, <1>2, <1>3, <1>4, <1>5, <1>6, <1>7, <1>8, <1>9, <1>10, <1>11, <1>12
     DEF PickerNext, Cancel, DisarmFor

LEMMA PickerTypesHold ==
    ASSUME PickerTypeOK, [PickerNext]_pickerVars PROVE PickerTypeOK'
<1> USE DEF PickerTypeOK
<1>0. CASE Disarm /\ ended' \in {"", "cancel", "commit", "modal"} /\ disposed' \in BOOLEAN
           /\ committed' \in [el : Elements \cup {None}, target : Elements \cup {None}]
           /\ UNCHANGED <<gone, modals, visited, old>>
  BY <1>0 DEF Disarm, RestoreFocus
<1>1. CASE Arm
  BY <1>1 DEF Arm, AttachmentTarget, NoCommit
<1>2. CASE Cancel
  BY <1>0, <1>2 DEF Cancel, DisarmFor
<1>3. CASE Dispose
  <2>1. CASE Disarm
    BY <1>0, <1>3, <2>1 DEF Dispose
  <2>2. CASE ~Disarm
    BY <1>3, <2>2 DEF Dispose
  <2> QED BY <2>1, <2>2
<1>4. CASE Frame
  <2>1. lastHoverTarget' \in Elements \cup {None}
    BY <1>4, HitIsThere DEF Frame
  <2> QED BY <1>4, <2>1 DEF Frame, page
<1>5. CASE PointerCancel
  BY <1>5 DEF PointerCancel, page
<1>6. CASE Announce
  BY <1>6, ZenonT(60) DEF Announce, page
<1>7. CASE Observe
  <2>1. CASE DisarmFor("modal")
    BY <1>0, <2>1 DEF DisarmFor
  <2>2. CASE ~DisarmFor("modal")
    BY <1>7, <2>2 DEF Observe, picker, page
  <2> QED BY <2>1, <2>2
<1>8. CASE Mutate
  BY <1>8, ZenonT(60) DEF Mutate, Mutated, Observed, picker, page
<1>9. ASSUME NEW p \in Points, NEW type \in Pointers, PointerMove(p, type) PROVE PickerTypeOK'
  BY <1>9 DEF PointerMove, page
<1>10. ASSUME NEW e \in Elements \ gone, Click(e) \/ Remove(e) \/ Focus(e)
       PROVE  PickerTypeOK'
  <2>1. CASE Click(e)
    <3>1. committed' \in [el : Elements \cup {None}, target : Elements \cup {None}]
      BY <2>1 DEF Click
    <3> QED BY <1>0, <2>1, <3>1 DEF Click
  <2>2. CASE Remove(e)
    BY <2>2 DEF Remove, Mutated, Observed, picker
  <2>3. CASE Focus(e)
    BY <2>3 DEF Focus, Observed, picker
  <2> QED BY <1>10, <2>1, <2>2, <2>3
<1>11. ASSUME NEW m \in Modals, OpenModal(m) \/ CloseModal(m) PROVE PickerTypeOK'
  BY <1>11, ZenonT(60) DEF OpenModal, CloseModal, Mutated, Observed, picker
<1>12. CASE UNCHANGED pickerVars
  BY <1>12, ZenonT(60) DEF pickerVars, picker, page
<1> QED BY <1>1, <1>2, <1>3, <1>4, <1>5, <1>6, <1>7, <1>8, <1>9, <1>10, <1>11, <1>12
     DEF PickerNext

LEMMA ModalsHold ==
    ASSUME PickerIInv, [PickerNext]_pickerVars PROVE ModalDisarms'
<1> USE DEF ModalDisarms
<1>0. PickerTypeOK /\ ArmedObserves /\ ModalDisarms
  BY DEF PickerIInv
<1>1. CASE Arm
  BY <1>1 DEF Arm
<1>2. CASE Disarm
  BY <1>2 DEF Disarm
<1>3. CASE Dispose
  BY <1>0, <1>2, <1>3 DEF Dispose
<1>4. CASE Frame \/ PointerCancel
           \/ \E p \in Points, type \in Pointers : PointerMove(p, type)
  BY <1>0, <1>4 DEF Frame, PointerCancel, PointerMove, page
<1>5. CASE Announce
  BY <1>0, <1>5 DEF Announce, page
<1>6. CASE Observe
  BY <1>2, <1>6 DEF Observe, DisarmFor, picker, page, HasOpenModalAncestor
<1>7. ASSUME Mutated, Observed PROVE ~armed' \/ records'
  BY <1>0, <1>7, Zenon DEF Mutated, Observed, picker, ArmedObserves
<1>8. CASE Mutate
  BY <1>7, <1>8 DEF Mutate
<1>9. ASSUME NEW e \in Elements \ gone, Click(e) \/ Remove(e) \/ Focus(e)
      PROVE  ModalDisarms'
  BY <1>0, <1>2, <1>7, <1>9 DEF Click, Remove, Focus, Observed, picker
<1>10. ASSUME NEW m \in Modals, OpenModal(m) \/ CloseModal(m) PROVE ModalDisarms'
  BY <1>7, <1>10 DEF OpenModal, CloseModal
<1>11. CASE UNCHANGED pickerVars
  BY <1>0, <1>11 DEF pickerVars, picker, page
<1> QED BY <1>1, <1>2, <1>3, <1>4, <1>5, <1>6, <1>8, <1>9, <1>10, <1>11
     DEF PickerNext, Cancel, DisarmFor

LEMMA HoverHolds ==
    ASSUME PickerIInv, [PickerNext]_pickerVars PROVE HoverIsFresh'
<1>0. PickerTypeOK /\ HoverIsFresh
  BY DEF PickerIInv
<1>1. CASE UNCHANGED <<lastHoverTarget, hasPendingPointer, lastPoint, visited>>
  BY <1>0, <1>1 DEF HoverIsFresh
<1>2. CASE Arm
  BY <1>2 DEF Arm, HoverIsFresh
<1>3. CASE Disarm
  BY <1>3 DEF Disarm, HoverIsFresh
<1>4. CASE Frame
  <2>1. hasPendingPointer' = FALSE /\ visited' = visited /\ lastPoint' = lastPoint
    BY <1>4 DEF Frame
  <2>2. CASE hasPendingPointer
    <3>1. lastHoverTarget' = HitTest(lastPoint) /\ lastPoint \in visited /\ lastPoint \in Points
      BY <1>0, <1>4, <2>2 DEF Frame, HoverIsFresh, PickerTypeOK
    <3>2. lastHoverTarget' # None => lastHoverTarget' \in Under(lastPoint)
      BY <3>1, HitIsThere
    <3> QED BY <2>1, <3>1, <3>2 DEF HoverIsFresh
  <2>3. CASE ~hasPendingPointer
    BY <1>0, <1>4, <2>1, <2>3 DEF Frame, HoverIsFresh
  <2> QED BY <2>2, <2>3
<1>5. CASE PointerCancel
  BY <1>0, <1>5 DEF PointerCancel, HoverIsFresh
<1>6. ASSUME NEW p \in Points, NEW type \in Pointers, PointerMove(p, type) PROVE HoverIsFresh'
  BY <1>0, <1>6 DEF PointerMove, HoverIsFresh
<1>7. CASE Dispose
  BY <1>1, <1>3, <1>7 DEF Dispose
<1>8. CASE Announce \/ Mutate
  BY <1>1, <1>8 DEF Announce, Mutate, Observed, picker
<1>9. CASE Observe
  BY <1>1, <1>3, <1>9 DEF Observe, DisarmFor, picker
<1>10. ASSUME NEW e \in Elements \ gone, Click(e) \/ Remove(e) \/ Focus(e)
       PROVE  HoverIsFresh'
  BY <1>1, <1>3, <1>10 DEF Click, Remove, Focus, Observed, picker
<1>11. ASSUME NEW m \in Modals, OpenModal(m) \/ CloseModal(m) PROVE HoverIsFresh'
  BY <1>1, <1>11 DEF OpenModal, CloseModal, Observed, picker
<1>12. CASE UNCHANGED pickerVars
  BY <1>1, <1>12 DEF pickerVars, picker
<1> QED BY <1>2, <1>3, <1>4, <1>5, <1>6, <1>7, <1>8, <1>9, <1>10, <1>11, <1>12
     DEF PickerNext, Cancel, DisarmFor

LEMMA CommitHolds ==
    ASSUME PickerIInv, [PickerNext]_pickerVars PROVE CommitIsHovered'
<1>0. PickerTypeOK /\ HoverIsFresh /\ CommitIsHovered
  BY DEF PickerIInv
<1>1. CASE UNCHANGED <<committed, visited>>
  BY <1>0, <1>1 DEF CommitIsHovered
<1>2. CASE Arm
  BY <1>2 DEF Arm, NoCommit, CommitIsHovered
<1>3. ASSUME NEW p \in Points, NEW type \in Pointers, PointerMove(p, type)
      PROVE  CommitIsHovered'
  BY <1>0, <1>3 DEF PointerMove, CommitIsHovered
<1>4. ASSUME NEW e \in Elements \ gone, Click(e) PROVE CommitIsHovered'
  <2>1. /\ visited' = visited
        /\ committed' = [el |-> IF lastHoverTarget # None THEN lastHoverTarget ELSE e,
                         target |-> e]
    BY <1>4 DEF Click
  <2>2. CASE lastHoverTarget = None
    BY <2>1, <2>2 DEF CommitIsHovered
  <2>3. CASE lastHoverTarget # None
    <3>1. lastHoverTarget \in Elements /\ \E p \in visited : lastHoverTarget \in Under(p)
      BY <1>0, <2>3 DEF HoverIsFresh, PickerTypeOK
    <3> QED BY <2>1, <2>3, <3>1, UnderIs DEF CommitIsHovered
  <2> QED BY <2>2, <2>3
<1>5. CASE Cancel \/ Dispose \/ Frame \/ PointerCancel \/ Announce
           \/ Observe \/ Mutate
  BY <1>1, <1>5
     DEF Cancel, DisarmFor, Dispose, Frame, PointerCancel,
         Announce, Observe, Mutate, Observed
<1>6. ASSUME NEW e \in Elements \ gone, Remove(e) \/ Focus(e) PROVE CommitIsHovered'
  BY <1>1, <1>6 DEF Remove, Focus, Observed
<1>7. ASSUME NEW m \in Modals, OpenModal(m) \/ CloseModal(m) PROVE CommitIsHovered'
  BY <1>1, <1>7 DEF OpenModal, CloseModal, Observed
<1>8. CASE UNCHANGED pickerVars
  BY <1>1, <1>8 DEF pickerVars
<1> QED BY <1>2, <1>3, <1>4, <1>5, <1>6, <1>7, <1>8 DEF PickerNext

LEMMA PickerInductive == PickerSpec => []PickerIInv
<1>1. PickerInit => PickerIInv
  BY PickerInitHolds
<1>2. PickerIInv /\ [PickerNext]_pickerVars => PickerIInv'
  BY PickerTypesHold, CleanHolds, ModalsHold, HoverHolds, CommitHolds DEF PickerIInv
<1> QED BY <1>1, <1>2, PTL DEF PickerSpec

\* Every variable of the picker keeps its type; in particular what is hovered is an element of
\* the page or nothing, never a part of the picker's overlay, though the shadow roots of the
\* page and of the picker list their own hosts (hitTest.ts:49-76).
THEOREM PickerTypeCorrect == PickerSpec => []PickerTypeOK
<1>1. PickerIInv => PickerTypeOK
  BY DEF PickerIInv
<1> QED BY <1>1, PickerInductive, PTL

\* However an arming ends, it leaves nothing in the page and nothing that could still run
\* (picker.ts:335-400).
THEOREM DisarmedPickerIsClean == PickerSpec => []DisarmedIsClean
<1>1. PickerIInv => DisarmedIsClean
  BY DEF PickerIInv
<1> QED BY <1>1, PickerInductive, PTL

\* No picker stays armed over a modal that has opened since it was armed, once the script
\* that opened it has returned (picker.ts:24).
THEOREM NoPickerOverModal == PickerSpec => []ModalDisarms
<1>1. PickerIInv => ModalDisarms
  BY DEF PickerIInv
<1> QED BY <1>1, PickerInductive, PTL

\* However deep the shadow roots of a page, what is committed has been under the pointer since
\* this arming or is the target of the click (picker.ts:446-450, hitTest.ts).  A root may list
\* its own host, but no other element that it is inside of (DomIsWellFormed); and what was
\* under the pointer may have left the page before the click.
THEOREM HoveredIsCommitted == PickerSpec => []CommitIsHovered
<1>1. PickerIInv => CommitIsHovered
  BY DEF PickerIInv
<1> QED BY <1>1, PickerInductive, PTL
=============================================================================
