------------------------------ MODULE EventBus ------------------------------
(***************************************************************************)
(* The event bus of packages/daemon/src/state/eventBus.ts together with    *)
(* the hello and resync.gap frames of ws/events.ts: sequence numbers, the  *)
(* ring of the last Cap of them, and the backpressure on a subscriber.     *)
(* Frames are their sequence numbers.  The bytes that wait in the socket   *)
(* of a subscriber (ws.bufferedAmount) are counted in units of the         *)
(* largest frame; how fast they leave, and when the socket reports a       *)
(* 'drain', is up to the network.                                          *)
(***************************************************************************)
EXTENDS Events, Sequences, Integers

CONSTANTS
    Cap,        \* RING_CAP
    Low,        \* 256 KiB, the mark under which a drained subscriber resumes
    Hard,       \* HARD_WATERMARK_BYTES
    HelloMax,   \* the most a hello (and the gap frame after it) can leave behind
    LoopLimit,  \* DRAIN_LOOP_LIMIT
    MaxSeq      \* bound of the model: frames minted

ASSUME BusConstants ==
    /\ Cap \in Nat \ {0} /\ Low \in Nat \ {0} /\ Hard \in Nat
    /\ HelloMax \in Nat /\ LoopLimit \in Nat \ {0} /\ MaxSeq \in Nat

ASSUME MarksAreOrdered == Low <= Hard /\ HelloMax <= Hard

VARIABLES
    seq,        \* the last sequence number minted
    ring,       \* the sequence numbers retained
    paused,     \* subscribers whose frames are dropped
    listening,  \* subscribers with a once('drain') listener
    loops,      \* [Conns -> Nat], drainLoopCount
    buffered,   \* [Conns -> Nat], ws.bufferedAmount
    log,        \* [Conns -> Seq(Nat)], what was sent on the connection, hello first
    lossless    \* history: the connections that were never paused

subVars == <<paused, listening, loops, buffered, log, lossless>>
vars == <<slotVars, seq, ring, subVars>>

TypeOK ==
    /\ SlotTypeOK
    /\ seq \in Nat
    /\ ring \in Seq(Nat) /\ Len(ring) <= Cap
    /\ paused \subseteq Conns /\ listening \subseteq Conns /\ lossless \subseteq Conns
    /\ loops \in [Conns -> Nat] /\ buffered \in [Conns -> Nat]
    /\ log \in [Conns -> Seq(Nat)]

Init ==
    /\ SlotInit
    /\ seq = 0 /\ ring = <<>>
    /\ paused = {} /\ listening = {} /\ lossless = Conns
    /\ loops = [c \in Conns |-> 0]
    /\ buffered = [c \in Conns |-> 0]
    /\ log = [c \in Conns |-> <<>>]
-----------------------------------------------------------------------------
(***************************************************************************)
(* Sequence numbers, the ring and the resync decision.                     *)
(***************************************************************************)
\* Mutant of Record: the ring keeps one entry too many.
RecordTooMany(n) ==
    LET pushed == Append(ring, n) IN
    IF Len(pushed) > Cap + 1 THEN Tail(pushed) ELSE pushed

\* recordFrame(): push, then shift when over the cap.
Record(n) ==
    LET pushed == Append(ring, n) IN
    IF Len(pushed) > Cap THEN Tail(pushed) ELSE pushed

\* mintSeq() and recordFrame(), which every caller does in one go.
Mint == seq' = seq + 1 /\ ring' = Record(seq + 1)

HelloOnly == [kind |-> "hello-only"]

Gap(from, to) == [kind |-> "hello-gap", droppedFrom |-> from, droppedTo |-> to]

\* Mutant of ComputeResync: the boundary is off by one.
ComputeResyncShort(since, current) ==
    IF since >= current \/ since >= current - Cap + 1 THEN HelloOnly
    ELSE Gap(since + 1, current - Cap)

\* computeResync() with a ?since=; without one it is hello-only.
ComputeResync(since, current) ==
    IF since >= current \/ since >= current - Cap THEN HelloOnly
    ELSE Gap(since + 1, current - Cap)
-----------------------------------------------------------------------------
(***************************************************************************)
(* The subscriber connects.                                                *)
(***************************************************************************)
\* Mutant of Welcome: the hello takes its snapshot after the gap frame's number.
WelcomeMintsFirst(c, gap) ==
    /\ IF gap THEN seq < MaxSeq /\ Mint ELSE UNCHANGED <<seq, ring>>
    /\ log' = [log EXCEPT ![c] = IF gap THEN <<seq + 1, seq + 1>> ELSE <<seq>>]
    /\ \E b \in 0..HelloMax : buffered' = [buffered EXCEPT ![c] = b]

\* The hello carries the present number; a gap frame after it has its own.
Welcome(c, gap) ==
    /\ IF gap THEN seq < MaxSeq /\ Mint ELSE UNCHANGED <<seq, ring>>
    /\ log' = [log EXCEPT ![c] = IF gap THEN <<seq, seq + 1>> ELSE <<seq>>]
    /\ \E b \in 0..HelloMax : buffered' = [buffered EXCEPT ![c] = b]

Connect(c) ==
    /\ Accept(c)
    /\ \/ Welcome(c, FALSE)     \* no ?since=
       \/ \E since \in 0..seq : Welcome(c, ComputeResync(since, seq).kind = "hello-gap")
    /\ UNCHANGED <<paused, listening, loops, lossless>>

Rejected(c) ==
    /\ Refuse(c)
    /\ UNCHANGED <<seq, ring, subVars>>
-----------------------------------------------------------------------------
(***************************************************************************)
(* broadcast() and sendToSubscriber().                                     *)
(***************************************************************************)
\* Mutant of Send: a subscriber that lags is not paused.
SendUnpaused(c) ==
    /\ log' = [log EXCEPT ![c] = IF conn[c] = "open" THEN Append(@, seq + 1) ELSE @]
    /\ \E b \in 0..buffered[c] + 1 : buffered' = [buffered EXCEPT ![c] = b]
    /\ UNCHANGED <<slotVars, paused, listening, loops, lossless>>

\* The socket takes the frame; what it does not write at once pauses the subscriber.
\* On a connection that is closing, the library keeps the frame and never sends it.
Send(c) ==
    /\ log' = [log EXCEPT ![c] = IF conn[c] = "open" THEN Append(@, seq + 1) ELSE @]
    /\ \E b \in 0..buffered[c] + 1 :
          /\ conn[c] = "closing" => b = buffered[c] + 1
          /\ buffered' = [buffered EXCEPT ![c] = b]
          /\ \/ /\ b > 0
                /\ paused' = paused \cup {c} /\ listening' = listening \cup {c}
                /\ lossless' = lossless \ {c}
                /\ UNCHANGED loops
             \/ /\ b = 0
                /\ loops' = [loops EXCEPT ![c] = 0]
                /\ UNCHANGED <<paused, listening, lossless>>
    /\ UNCHANGED slotVars

SendTo(c) ==
    \/ c \in paused /\ UNCHANGED <<slotVars, subVars>>
    \/ c \notin paused /\ buffered[c] > Hard /\ StartClose({c}) /\ UNCHANGED subVars
    \/ c \notin paused /\ buffered[c] <= Hard /\ Send(c)

\* The bus holds at most one subscriber (SlotMatchesBus).
Broadcast ==
    /\ seq < MaxSeq
    /\ Mint
    /\ \/ bus = {} /\ UNCHANGED <<slotVars, subVars>>
       \/ \E c \in bus : SendTo(c)
-----------------------------------------------------------------------------
(***************************************************************************)
(* The network and the end of a connection.                                *)
(***************************************************************************)
\* Bytes leave the socket.
Flush(c) ==
    /\ conn[c] = "open"
    /\ \E b \in 0..buffered[c] - 1 : buffered' = [buffered EXCEPT ![c] = b]
    /\ UNCHANGED <<slotVars, seq, ring, paused, listening, loops, log, lossless>>

\* onDrain(): the listener is spent even when too much is left to resume.
Drained(c) ==
    /\ conn[c] = "open" /\ c \in listening
    /\ listening' = listening \ {c}
    /\ \/ /\ buffered[c] >= Low
          /\ UNCHANGED <<slotVars, paused, loops>>
       \/ /\ buffered[c] < Low
          /\ paused' = paused \ {c}
          /\ loops' = [loops EXCEPT ![c] = @ + 1]
          /\ IF loops[c] + 1 >= LoopLimit THEN StartClose({c}) ELSE UNCHANGED slotVars
    /\ UNCHANGED <<seq, ring, buffered, log, lossless>>

\* Pong timeout, send error or shutdown.
CloseByDaemon(c) ==
    /\ conn[c] = "open"
    /\ StartClose({c})
    /\ UNCHANGED <<seq, ring, subVars>>

Disconnect(c) ==
    /\ Closed(c)
    /\ UNCHANGED <<seq, ring, subVars>>

Next ==
    \/ Broadcast
    \/ \E c \in Conns :
          \/ Connect(c) \/ Rejected(c) \/ Flush(c) \/ Drained(c)
          \/ CloseByDaemon(c) \/ Disconnect(c)

Spec == Init /\ [][Next]_vars
-----------------------------------------------------------------------------
(***************************************************************************)
(* Properties.                                                             *)
(***************************************************************************)
\* The ring is exactly the last Cap numbers, without a hole: every number that
\* is minted is recorded, in the same turn, by broadcast() and by the gap frame.
RingExact ==
    /\ Len(ring) = IF seq < Cap THEN seq ELSE Cap
    /\ \A i \in 1..Len(ring) : ring[i] = seq - Len(ring) + i

\* The resync decision is arithmetic on numbers and never looks at the ring; it
\* is right about it all the same: a client that is told nothing missed only
\* numbers the ring retains, and a gap names exactly those it missed and the
\* ring has lost.
ResyncExact ==
    \A since \in 0..seq :
        LET lost == {n \in since + 1..seq : \A i \in 1..Len(ring) : ring[i] # n}
            d == ComputeResync(since, seq)
        IN  IF d.kind = "hello-only" THEN lost = {}
            ELSE lost = d.droppedFrom..d.droppedTo /\ lost # {}

\* A slow subscriber costs the daemon a bounded buffer, and the hard watermark is
\* never what stops it: a subscriber that is not paused is under it.
BufferBounded ==
    \A c \in Conns : /\ buffered[c] <= Hard + 1
                     /\ c \notin paused => buffered[c] <= Hard

\* On one connection numbers only grow, from the hello's snapshotSeq on.
InOrder ==
    \A c \in Conns : \A i, j \in 1..Len(log[c]) : i < j => log[c][i] < log[c][j]

\* A subscriber that was never paused has every number from its hello to the
\* present one, the gap frame's included: nothing is minted between the snapshot
\* and the registration, and no frame is sent past the only subscriber.
LosslessIsComplete ==
    \A c \in lossless :
        conn[c] = "open" =>
            /\ Len(log[c]) = seq - log[c][1] + 1
            /\ \A i \in 1..Len(log[c]) : log[c][i] = log[c][1] + i - 1

\* The daemon design: a subscriber that resumes after a drain is sent a fresh
\* hello, so that one that is not paused is always up to date.
ResumedIsInSync ==
    \A c \in Conns :
        conn[c] = "open" /\ c \notin paused => log[c][Len(log[c])] = seq
=============================================================================
