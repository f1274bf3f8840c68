--------------------------- MODULE EventBusProofs ---------------------------
(***************************************************************************)
(* Proofs about EventBus for every ring size, every pair of watermarks and *)
(* every number of connections and frames.                                 *)
(***************************************************************************)
EXTENDS EventBus, TLAPS

-----------------------------------------------------------------------------
(***************************************************************************)
(* What the steps of Events do to its two registries of the subscriber.    *)
(***************************************************************************)
SlotOK == SlotTypeOK /\ SlotMatchesBus

LEMMA SlotInitOK == SlotInit => SlotOK
BY NoConnIsNoConn DEF SlotInit, SlotOK, SlotTypeOK, ConnState, SlotMatchesBus

\* The first subscriber is registered twice.
LEMMA AcceptOK == ASSUME SlotOK, NEW c \in Conns, Accept(c) PROVE SlotOK' /\ bus = {} /\ bus' = {c}
<1>1. bus = {} /\ subscriber = NoConn /\ subscriber' = c /\ bus' = {c}
      /\ conn' = [conn EXCEPT ![c] = "open"]
  BY DEF Accept, SlotOK, SlotMatchesBus
<1>2. SlotTypeOK'
  BY <1>1 DEF SlotOK, SlotTypeOK, ConnState
<1> QED BY <1>1, <1>2, NoConnIsNoConn DEF SlotOK, SlotMatchesBus, SlotTypeOK

\* A second one is not registered at all.
LEMMA RefuseOK == ASSUME SlotOK, NEW c \in Conns, Refuse(c) PROVE SlotOK'
BY DEF Refuse, SlotOK, SlotMatchesBus, SlotTypeOK, ConnState

\* Calling close() changes neither registry, nor which connections they are about.
LEMMA StartCloseOK ==
    ASSUME SlotOK, NEW C \in SUBSET Conns, StartClose(C)
    PROVE  SlotOK' /\ \A c \in Conns : conn'[c] = "open" => conn[c] = "open"
<1>1. /\ UNCHANGED <<subscriber, bus>> /\ conn' = AfterClose(C)
  BY DEF StartClose
<1>2. /\ conn' \in [Conns -> ConnState]
      /\ \A d \in Conns : conn'[d] \in {"open", "closing"} <=> conn[d] \in {"open", "closing"}
  BY <1>1 DEF AfterClose, SlotOK, SlotTypeOK, ConnState
<1>3. \A c \in Conns : conn'[c] = "open" => conn[c] = "open"
  BY <1>1 DEF AfterClose, SlotOK, SlotTypeOK
<1> QED BY <1>1, <1>2, <1>3 DEF SlotOK, SlotTypeOK, SlotMatchesBus

\* The 'close' event removes the subscriber from both.
LEMMA ClosedOK == ASSUME SlotOK, NEW c \in Conns, Closed(c) PROVE SlotOK' /\ bus' = {}
<1>1. /\ bus = {c} /\ subscriber = c /\ bus' = {} /\ subscriber' = NoConn
      /\ conn' = [conn EXCEPT ![c] = "gone"]
  BY DEF Closed, SlotOK, SlotMatchesBus
<1>2. SlotTypeOK'
  BY <1>1 DEF SlotOK, SlotTypeOK, ConnState
<1> QED BY <1>1, <1>2 DEF SlotOK, SlotMatchesBus, SlotTypeOK
-----------------------------------------------------------------------------

\* What was sent on a connection: a hello and increasing numbers, none of them from
\* the future.
LogOK ==
    /\ \A c \in Conns : conn[c] = "open" => Len(log[c]) >= 1
    /\ \A c \in Conns : \A i \in 1..Len(log[c]) : log[c][i] <= seq
    /\ InOrder

\* Pausing is what loses frames.
PausedIsLossy == paused \cap lossless = {}

IInv ==
    /\ TypeOK
    /\ SlotMatchesBus
    /\ RingExact
    /\ BufferBounded
    /\ LogOK
    /\ PausedIsLossy
    /\ LosslessIsComplete

LEMMA InitIInv == Init => IInv
<1> SUFFICES ASSUME Init PROVE IInv
  OBVIOUS
<1>1. SlotOK
  BY SlotInitOK DEF Init
<1>2. TypeOK
  BY <1>1, BusConstants DEF Init, TypeOK, SlotOK
<1>3. RingExact
  BY BusConstants DEF Init, RingExact
<1>4. BufferBounded
  BY BusConstants DEF Init, BufferBounded
<1>5. LogOK /\ PausedIsLossy
  BY DEF Init, SlotInit, LogOK, InOrder, PausedIsLossy
<1>6. LosslessIsComplete
  BY DEF Init, SlotInit, LosslessIsComplete
<1> QED BY <1>1, <1>2, <1>3, <1>4, <1>5, <1>6 DEF IInv, SlotOK

\* A recorded frame pushes the oldest one out, and no other.
LEMMA MintExact ==
    ASSUME RingExact, seq \in Nat, ring \in Seq(Nat), Mint
    PROVE  RingExact' /\ seq' = seq + 1 /\ ring' \in Seq(Nat) /\ Len(ring') <= Cap
<1> DEFINE pushed == Append(ring, seq + 1)
<1>1. /\ pushed \in Seq(Nat) /\ Len(pushed) = Len(ring) + 1
      /\ \A i \in 1..Len(pushed) : pushed[i] = seq - Len(ring) + i
  <2>1. \A i \in 1..Len(ring) : pushed[i] = ring[i]
    OBVIOUS
  <2>2. pushed[Len(ring) + 1] = seq + 1
    OBVIOUS
  <2>3. pushed \in Seq(Nat) /\ Len(pushed) = Len(ring) + 1 /\ Len(ring) \in Nat
    OBVIOUS
  <2> HIDE DEF pushed
  <2> QED BY <2>1, <2>2, <2>3 DEF RingExact
<1>2. /\ seq' = seq + 1
      /\ ring' = IF Len(pushed) > Cap THEN Tail(pushed) ELSE pushed
  BY DEF Mint, Record
<1> HIDE DEF pushed
<1>3. Len(ring) = (IF seq < Cap THEN seq ELSE Cap) /\ Cap \in Nat \ {0}
  BY BusConstants DEF RingExact
<1>4. CASE Len(pushed) > Cap
  <2>1. Len(ring) = Cap /\ seq >= Cap /\ Len(pushed) = Cap + 1
    BY <1>1, <1>3, <1>4
  <2>2. /\ ring' = Tail(pushed) /\ Len(ring') = Cap /\ ring' \in Seq(Nat)
        /\ \A i \in 1..Cap : ring'[i] = pushed[i + 1]
    BY <1>1, <1>2, <1>3, <1>4, <2>1
  <2>3. \A i \in 1..Cap : ring'[i] = seq - Cap + i + 1
    BY <1>1, <1>3, <2>1, <2>2
  <2>4. Len(ring') = IF seq' < Cap THEN seq' ELSE Cap
    BY <1>2, <1>3, <2>1, <2>2
  <2>5. ASSUME NEW i \in 1..Len(ring') PROVE ring'[i] = seq' - Len(ring') + i
    <3>1. i \in 1..Cap /\ seq' = seq + 1 /\ Len(ring') = Cap
      BY <1>2, <2>2
    <3>2. ring'[i] = seq - Cap + i + 1
      BY <2>3, <3>1
    <3> QED BY <1>3, <3>1, <3>2
  <2>6. seq' = seq + 1 /\ ring' \in Seq(Nat) /\ Len(ring') <= Cap
    BY <1>2, <1>3, <2>2
  <2>7. RingExact'
    BY <2>4, <2>5, Zenon DEF RingExact
  <2> QED BY <2>6, <2>7
<1>5. CASE ~(Len(pushed) > Cap)
  <2>1. ring' = pushed /\ Len(ring) = seq /\ seq < Cap /\ Len(ring') = seq + 1
    BY <1>1, <1>2, <1>3, <1>5
  <2>2. ASSUME NEW i \in 1..Len(ring') PROVE ring'[i] = seq' - Len(ring') + i
    <3>1. i \in 1..Len(pushed) /\ seq' = seq + 1 /\ Len(ring') = seq + 1 /\ ring'[i] = pushed[i]
      BY <1>2, <2>1
    <3>2. pushed[i] = seq - Len(ring) + i /\ Len(ring) = seq
      BY <1>1, <2>1, <3>1
    <3> QED BY <3>1, <3>2
  <2>3. Len(ring') = IF seq' < Cap THEN seq' ELSE Cap
    BY <1>2, <1>3, <2>1
  <2>4. RingExact'
    BY <2>2, <2>3, Zenon DEF RingExact
  <2> QED BY <1>1, <1>2, <1>3, <2>1, <2>4
<1> QED BY <1>4, <1>5

\* The ring decides what a client has missed for good.
LEMMA RingDecides == TypeOK /\ RingExact => ResyncExact
<1> SUFFICES ASSUME TypeOK, RingExact, NEW since \in 0..seq
             PROVE  LET lost == {n \in since + 1..seq : \A i \in 1..Len(ring) : ring[i] # n}
                        d == ComputeResync(since, seq)
                    IN  IF d.kind = "hello-only" THEN lost = {}
                        ELSE lost = d.droppedFrom..d.droppedTo /\ lost # {}
  BY DEF ResyncExact
<1> DEFINE lost == {n \in since + 1..seq : \A i \in 1..Len(ring) : ring[i] # n}
<1> SUFFICES IF ComputeResync(since, seq).kind = "hello-only" THEN lost = {}
             ELSE /\ lost = ComputeResync(since, seq).droppedFrom
                               ..ComputeResync(since, seq).droppedTo
                  /\ lost # {}
  OBVIOUS
<1>1. /\ seq \in Nat /\ Cap \in Nat \ {0}
      /\ Len(ring) = IF seq < Cap THEN seq ELSE Cap
      /\ \A i \in 1..Len(ring) : ring[i] = seq - Len(ring) + i
  BY BusConstants DEF TypeOK, RingExact
<1>2. ASSUME NEW n \in 1..seq
      PROVE  (\A i \in 1..Len(ring) : ring[i] # n) <=> n <= seq - Len(ring)
  <2>1. CASE n <= seq - Len(ring)
    BY <1>1, <2>1
  <2>2. CASE n > seq - Len(ring)
    <3> DEFINE i == n - (seq - Len(ring))
    <3>1. Len(ring) \in Nat
      BY <1>1
    <3>2. i \in 1..Len(ring) /\ seq - Len(ring) + i = n
      BY <1>1, <2>2, <3>1
    <3>3. ring[i] = n
      BY <1>1, <3>2
    <3>4. ~(n <= seq - Len(ring))
      BY <1>1, <2>2, <3>1
    <3> QED BY <3>2, <3>3, <3>4
  <2> QED BY <1>1, <2>1, <2>2
<1>3. /\ lost \subseteq 1..seq
      /\ \A n \in 1..seq : n \in lost <=> n > since /\ n <= seq - Len(ring)
  <2>1. ASSUME NEW n \in lost PROVE n \in 1..seq
    BY <1>1
  <2>2. ASSUME NEW n \in 1..seq PROVE n \in lost <=> n > since /\ n <= seq - Len(ring)
    <3>1. n \in lost <=> n \in since + 1..seq /\ \A i \in 1..Len(ring) : ring[i] # n
      OBVIOUS
    <3>2. n \in since + 1..seq <=> n > since
      BY <1>1
    <3> QED BY <1>2, <3>1, <3>2
  <2> QED BY <2>1, <2>2
<1> HIDE DEF lost
<1>4. CASE since >= seq - Cap
  <2>1. lost = {}
    BY <1>1, <1>3, <1>4
  <2>2. ComputeResync(since, seq) = HelloOnly
    BY <1>4 DEF ComputeResync
  <2> QED BY <2>1, <2>2 DEF HelloOnly
<1>5. CASE since < seq - Cap
  <2>1. Len(ring) = Cap /\ since + 1 <= seq - Cap /\ since + 1 \in 1..seq
    BY <1>1, <1>5
  <2>2. lost = since + 1..seq - Cap
    <3>1. \A n \in 1..seq : n \in lost <=> n >= since + 1 /\ n <= seq - Cap
      BY <1>1, <1>3, <2>1
    <3>2. ASSUME NEW n \in lost PROVE n \in since + 1..seq - Cap
      BY <1>1, <1>3, <3>1
    <3>3. ASSUME NEW n \in since + 1..seq - Cap PROVE n \in lost
      BY <1>1, <2>1, <3>1
    <3> QED BY <3>2, <3>3
  <2>3. since + 1 \in lost
    BY <1>1, <2>1, <2>2
  <2>4. ComputeResync(since, seq) = Gap(since + 1, seq - Cap)
    BY <1>1, <1>5 DEF ComputeResync
  <2> QED BY <2>2, <2>3, <2>4 DEF Gap
<1> QED BY <1>1, <1>4, <1>5

\* A connection that is open is the one of the bus.
LEMMA OpenIsSubscriber ==
    ASSUME IInv, NEW c \in Conns, conn[c] = "open"
    PROVE  bus = {c}
BY DEF IInv, SlotMatchesBus

\* A step that touches neither the numbers nor what was sent, and opens nothing.
LEMMA QuietIInv ==
    ASSUME IInv, SlotOK', UNCHANGED <<seq, ring, log, lossless>>,
           \A c \in Conns : conn'[c] = "open" => conn[c] = "open",
           paused' \subseteq paused, listening' \subseteq Conns,
           loops' \in [Conns -> Nat], buffered' \in [Conns -> Nat],
           BufferBounded'
    PROVE  IInv'
<1>1. TypeOK'
  BY DEF IInv, TypeOK, SlotOK
<1>2. LogOK'
  BY DEF IInv, LogOK, InOrder
<1>3. RingExact' /\ PausedIsLossy'
  BY DEF IInv, RingExact, PausedIsLossy
<1>4. LosslessIsComplete'
  BY DEF IInv, TypeOK, LosslessIsComplete
<1> QED BY <1>1, <1>2, <1>3, <1>4 DEF IInv, SlotOK

\* The hello, and the gap frame after it.
LEMMA ConnectIInv == ASSUME IInv, NEW c \in Conns, Connect(c) PROVE IInv'
<1>0. /\ SlotOK /\ TypeOK /\ BufferBounded /\ LogOK /\ RingExact
      /\ seq \in Nat /\ log \in [Conns -> Seq(Nat)] /\ buffered \in [Conns -> Nat]
  BY DEF IInv, SlotOK, TypeOK
<1>1. /\ Accept(c) /\ UNCHANGED <<paused, listening, loops, lossless>>
      /\ \E gap \in BOOLEAN : Welcome(c, gap)
  BY DEF Connect
<1>2. SlotOK' /\ bus = {} /\ conn' = [conn EXCEPT ![c] = "open"]
  BY <1>0, <1>1, AcceptOK DEF Accept
<1>3. PICK gap \in BOOLEAN : Welcome(c, gap)
  BY <1>1
<1>4. /\ seq' \in Nat /\ seq' >= seq /\ ring' \in Seq(Nat) /\ Len(ring') <= Cap /\ RingExact'
  <2>1. CASE gap
    BY <1>0, <1>3, <2>1, MintExact DEF Welcome, TypeOK
  <2>2. CASE ~gap
    BY <1>0, <1>3, <2>2 DEF Welcome, TypeOK, RingExact
  <2> QED BY <2>1, <2>2
<1>5. /\ log' \in [Conns -> Seq(Nat)]
      /\ \A d \in Conns \ {c} : log'[d] = log[d]
      /\ Len(log'[c]) >= 1 /\ Len(log'[c]) = seq' - log'[c][1] + 1
      /\ \A i \in 1..Len(log'[c]) : log'[c][i] = log'[c][1] + i - 1 /\ log'[c][i] <= seq'
  <2>1. CASE gap
    <3>1. seq' = seq + 1 /\ log' = [log EXCEPT ![c] = <<seq, seq + 1>>]
      BY <1>3, <2>1 DEF Welcome, Mint
    <3>2. /\ log'[c] = <<seq, seq + 1>> /\ log' \in [Conns -> Seq(Nat)]
          /\ \A d \in Conns \ {c} : log'[d] = log[d]
      BY <1>0, <3>1
    <3>3. Len(log'[c]) = 2 /\ log'[c][1] = seq /\ log'[c][2] = seq + 1
      BY <3>2
    <3>4. ASSUME NEW i \in 1..Len(log'[c])
          PROVE  log'[c][i] = log'[c][1] + i - 1 /\ log'[c][i] <= seq'
      <4>1. CASE i = 1
        BY <1>0, <3>1, <3>3, <4>1
      <4>2. CASE i = 2
        BY <1>0, <3>1, <3>3, <4>2
      <4>3. i = 1 \/ i = 2
        BY <3>3
      <4> QED BY <4>1, <4>2, <4>3
    <3>5. Len(log'[c]) >= 1 /\ Len(log'[c]) = seq' - log'[c][1] + 1
      BY <1>0, <3>1, <3>3
    <3> QED BY <3>2, <3>4, <3>5
  <2>2. CASE ~gap
    <3>1. seq' = seq /\ log' = [log EXCEPT ![c] = <<seq>>]
      BY <1>3, <2>2 DEF Welcome
    <3>2. /\ log'[c] = <<seq>> /\ log' \in [Conns -> Seq(Nat)]
          /\ \A d \in Conns \ {c} : log'[d] = log[d]
      BY <1>0, <3>1
    <3>3. Len(log'[c]) = 1 /\ log'[c][1] = seq
      BY <3>2
    <3>4. ASSUME NEW i \in 1..Len(log'[c])
          PROVE  log'[c][i] = log'[c][1] + i - 1 /\ log'[c][i] <= seq'
      <4>1. i = 1
        BY <3>3
      <4> QED BY <1>0, <3>1, <3>3, <4>1
    <3>5. Len(log'[c]) >= 1 /\ Len(log'[c]) = seq' - log'[c][1] + 1
      BY <1>0, <3>1, <3>3
    <3> QED BY <3>2, <3>4, <3>5
  <2> QED BY <2>1, <2>2
<1>6. /\ buffered' \in [Conns -> Nat] /\ buffered'[c] <= Hard
      /\ \A d \in Conns \ {c} : buffered'[d] = buffered[d]
  <2>1. PICK b \in 0..HelloMax : buffered' = [buffered EXCEPT ![c] = b]
    BY <1>3 DEF Welcome
  <2> QED BY <1>0, <2>1, BusConstants, MarksAreOrdered
<1>7. TypeOK'
  BY <1>0, <1>1, <1>2, <1>4, <1>5, <1>6 DEF TypeOK, SlotOK
<1>8. BufferBounded'
  <2> SUFFICES ASSUME NEW d \in Conns
               PROVE  buffered'[d] <= Hard + 1 /\ (d \notin paused => buffered'[d] <= Hard)
    BY <1>1 DEF BufferBounded
  <2>1. CASE d = c
    BY <1>6, <2>1, BusConstants
  <2>2. CASE d # c
    BY <1>0, <1>6, <2>2 DEF BufferBounded
  <2> QED BY <2>1, <2>2
<1>9. \A d \in Conns : conn'[d] = "open" => d = c
  BY <1>0, <1>2 DEF SlotOK, SlotMatchesBus, SlotTypeOK
<1>10. LogOK'
  <2>1. \A d \in Conns : conn'[d] = "open" => Len(log'[d]) >= 1
    BY <1>5, <1>9
  <2>2. ASSUME NEW d \in Conns
        PROVE  /\ \A i \in 1..Len(log'[d]) : log'[d][i] <= seq'
               /\ \A i, j \in 1..Len(log'[d]) : i < j => log'[d][i] < log'[d][j]
    <3>1. CASE d = c
      <4>1. log'[c][1] \in Nat
        BY <1>5
      <4>2. ASSUME NEW i \in 1..Len(log'[c]), NEW j \in 1..Len(log'[c]), i < j
            PROVE  log'[c][i] < log'[c][j]
        <5>1. log'[c][i] = log'[c][1] + i - 1 /\ log'[c][j] = log'[c][1] + j - 1
          BY <1>5
        <5>2. i \in Int /\ j \in Int
          OBVIOUS
        <5> QED BY <4>1, <4>2, <5>1, <5>2
      <4> QED BY <1>5, <3>1, <4>2
    <3>2. CASE d # c
      <4>1. log'[d] = log[d] /\ log[d] \in Seq(Nat)
        BY <1>0, <1>5, <3>2
      <4> QED BY <1>0, <1>4, <4>1, SMTT(30) DEF LogOK, InOrder
    <3> QED BY <3>1, <3>2
  <2> QED BY <2>1, <2>2 DEF LogOK, InOrder
<1>11. LosslessIsComplete'
  BY <1>0, <1>1, <1>5, <1>9 DEF LosslessIsComplete, TypeOK
<1> QED BY <1>1, <1>2, <1>4, <1>7, <1>8, <1>10, <1>11 DEF IInv, SlotOK, PausedIsLossy

\* One frame, to the subscriber there is.
LEMMA BroadcastIInv == ASSUME IInv, Broadcast PROVE IInv'
<1>0. /\ SlotOK /\ TypeOK /\ BufferBounded /\ LogOK /\ RingExact /\ LosslessIsComplete
      /\ seq \in Nat /\ log \in [Conns -> Seq(Nat)] /\ buffered \in [Conns -> Nat]
      /\ bus \subseteq Conns /\ paused \subseteq Conns /\ listening \subseteq Conns
  BY DEF IInv, SlotOK, TypeOK, SlotTypeOK
<1>1. /\ RingExact' /\ seq' = seq + 1 /\ ring' \in Seq(Nat) /\ Len(ring') <= Cap
  BY <1>0, MintExact DEF Broadcast, TypeOK
<1>2. ASSUME UNCHANGED subVars, UNCHANGED slotVars, \A c \in bus : c \in paused
      PROVE  IInv'
  <2>1. TypeOK' /\ SlotMatchesBus'
    BY <1>0, <1>1, <1>2
    DEF TypeOK, SlotOK, SlotTypeOK, SlotMatchesBus, subVars, slotVars
  <2>2. LogOK'
    <3>1. UNCHANGED <<log, conn>>
      BY <1>2 DEF subVars, slotVars
    <3>2. InOrder'
      BY <1>0, <3>1 DEF LogOK, InOrder
    <3>3. ASSUME NEW c \in Conns, NEW i \in 1..Len(log[c]) PROVE log[c][i] <= seq + 1
      <4>1. log[c][i] \in Nat /\ log[c][i] <= seq
        BY <1>0 DEF LogOK
      <4> QED BY <1>0, <4>1
    <3> QED BY <1>0, <1>1, <3>1, <3>2, <3>3 DEF LogOK
  <2>3. LosslessIsComplete'
    <3>1. ASSUME NEW c \in lossless, conn[c] = "open" PROVE FALSE
      <4>1. c \in Conns
        BY <1>0 DEF TypeOK
      <4> QED BY <1>2, <3>1, <4>1, OpenIsSubscriber DEF IInv, PausedIsLossy
    <3> QED BY <1>2, <3>1 DEF LosslessIsComplete, subVars, slotVars
  <2> QED BY <1>0, <1>1, <1>2, <2>1, <2>2, <2>3
       DEF IInv, BufferBounded, PausedIsLossy, subVars
<1>3. ASSUME NEW c \in bus, c \notin paused, Send(c)
      PROVE  IInv'
  <2>0. c \in Conns /\ bus = {c}
    BY <1>0 DEF SlotOK, SlotMatchesBus
  <2>1. PICK b \in 0..buffered[c] + 1 :
          /\ buffered' = [buffered EXCEPT ![c] = b]
          /\ \/ /\ b > 0
                /\ paused' = paused \cup {c} /\ listening' = listening \cup {c}
                /\ lossless' = lossless \ {c}
                /\ UNCHANGED loops
             \/ /\ b = 0
                /\ loops' = [loops EXCEPT ![c] = 0]
                /\ UNCHANGED <<paused, listening, lossless>>
    BY <1>3 DEF Send
  <2>2. /\ log' = [log EXCEPT ![c] = IF conn[c] = "open" THEN Append(@, seq + 1) ELSE @]
        /\ UNCHANGED <<conn, subscriber, bus>>
    BY <1>3 DEF Send, slotVars
  <2>3. /\ log' \in [Conns -> Seq(Nat)]
        /\ \A d \in Conns \ {c} : log'[d] = log[d]
        /\ conn[c] # "open" => log'[c] = log[c]
        /\ conn[c] = "open" => log'[c] = Append(log[c], seq + 1)
    BY <1>0, <2>0, <2>2
  <2>4. TypeOK'
    BY <1>0, <1>1, <2>0, <2>1, <2>2, <2>3 DEF TypeOK, SlotTypeOK
  <2>5. BufferBounded'
    <3> SUFFICES ASSUME NEW d \in Conns
                 PROVE  buffered'[d] <= Hard + 1 /\ (d \notin paused' => buffered'[d] <= Hard)
      BY DEF BufferBounded
    <3>1. CASE d = c
      <4>1. buffered'[c] = b /\ buffered[c] <= Hard /\ buffered[c] \in Nat
        BY <1>0, <1>3, <2>0, <2>1 DEF BufferBounded
      <4> QED BY <2>1, <3>1, <4>1, BusConstants
    <3>2. CASE d # c
      BY <1>0, <2>1, <3>2 DEF BufferBounded
    <3> QED BY <3>1, <3>2
  <2>6. ASSUME conn[c] = "open"
        PROVE  /\ Len(log'[c]) = Len(log[c]) + 1
               /\ log'[c][Len(log[c]) + 1] = seq + 1
               /\ \A i \in 1..Len(log[c]) : log'[c][i] = log[c][i]
               /\ Len(log[c]) \in Nat /\ Len(log[c]) >= 1
    <3>1. log[c] \in Seq(Nat) /\ log'[c] = Append(log[c], seq + 1) /\ Len(log[c]) >= 1
      BY <1>0, <2>0, <2>3, <2>6 DEF LogOK
    <3>2. Len(log'[c]) = Len(log[c]) + 1 /\ log'[c][Len(log[c]) + 1] = seq + 1
      BY <3>1
    <3>3. \A i \in 1..Len(log[c]) : log'[c][i] = log[c][i]
      BY <3>1
    <3> QED BY <3>1, <3>2, <3>3
  <2>7. ASSUME NEW d \in Conns
        PROVE  /\ conn'[d] = "open" => Len(log'[d]) >= 1
               /\ \A i \in 1..Len(log'[d]) : log'[d][i] <= seq'
               /\ \A i, j \in 1..Len(log'[d]) : i < j => log'[d][i] < log'[d][j]
    <3>1. /\ Len(log[d]) \in Nat
          /\ conn[d] = "open" => Len(log[d]) >= 1
          /\ \A i \in 1..Len(log[d]) : log[d][i] \in Nat /\ log[d][i] <= seq
          /\ \A i, j \in 1..Len(log[d]) : i < j => log[d][i] < log[d][j]
      BY <1>0 DEF LogOK, InOrder
    <3>2. CASE d = c /\ conn[c] = "open"
      <4>1. \A i \in 1..Len(log'[d]) : i \in 1..Len(log[d]) \/ i = Len(log[d]) + 1
        BY <2>6, <3>1, <3>2
      <4>2. ASSUME NEW i \in 1..Len(log'[d]) PROVE log'[d][i] <= seq'
        <5>1. CASE i \in 1..Len(log[d])
          BY <1>0, <1>1, <2>6, <3>1, <3>2, <5>1, SMTT(30)
        <5>2. CASE i = Len(log[d]) + 1
          BY <1>0, <1>1, <2>6, <3>2, <5>2
        <5> QED BY <4>1, <5>1, <5>2
      <4>3. ASSUME NEW i \in 1..Len(log'[d]), NEW j \in 1..Len(log'[d]), i < j
            PROVE  log'[d][i] < log'[d][j]
        <5>1. i \in 1..Len(log[d]) /\ log'[d][i] = log[d][i] /\ log[d][i] \in Nat
              /\ log[d][i] <= seq
          BY <2>6, <3>1, <3>2, <4>1, <4>3
        <5>2. CASE j \in 1..Len(log[d])
          BY <2>6, <3>1, <3>2, <4>3, <5>1, <5>2
        <5>3. CASE j = Len(log[d]) + 1
          BY <1>0, <2>6, <3>2, <5>1, <5>3
        <5> QED BY <4>1, <5>2, <5>3
      <4> QED BY <2>6, <3>1, <3>2, <4>2, <4>3
    <3>3. CASE ~(d = c /\ conn[c] = "open")
      <4>1. log'[d] = log[d] /\ conn' = conn
        BY <2>2, <2>3, <3>3
      <4> QED BY <1>0, <1>1, <3>1, <4>1
    <3> QED BY <3>2, <3>3
  <2>8. LosslessIsComplete'
    <3> SUFFICES ASSUME NEW d \in lossless', conn[d] = "open"
                 PROVE  /\ Len(log'[d]) = seq' - log'[d][1] + 1
                        /\ \A i \in 1..Len(log'[d]) : log'[d][i] = log'[d][1] + i - 1
      BY <2>2 DEF LosslessIsComplete
    <3>1. d = c /\ d \in lossless
      <4>1. d \in lossless /\ d \in Conns
        BY <1>0, <2>1 DEF TypeOK
      <4> QED BY <2>0, <4>1, OpenIsSubscriber
    <3>2. conn[c] = "open" /\ c \in lossless
      BY <3>1
    <3> DEFINE old == log[c]
               new == log'[c]
               first == old[1]
    <3>3. /\ Len(new) = Len(old) + 1 /\ new[Len(old) + 1] = seq + 1
          /\ \A i \in 1..Len(old) : new[i] = old[i]
          /\ Len(old) \in Nat /\ 1 \in 1..Len(old)
      BY <2>6, <3>2
    <3>4. /\ Len(old) = seq - first + 1
          /\ \A i \in 1..Len(old) : old[i] = first + i - 1
      BY <1>0, <2>0, <3>2, Zenon DEF LosslessIsComplete
    <3>5. first \in Nat
      BY <1>0, <2>0, <3>3
    <3> HIDE DEF old, new, first
    <3>6. new[1] = first
      BY <3>3 DEF first
    <3>7. ASSUME NEW i \in 1..Len(new) PROVE new[i] = first + i - 1
      <4>1. CASE i \in 1..Len(old)
        BY <3>3, <3>4, <4>1
      <4>2. CASE i = Len(old) + 1
        BY <1>0, <3>3, <3>4, <3>5, <4>2
      <4>3. i \in 1..Len(old) \/ i = Len(old) + 1
        BY <3>3
      <4> QED BY <4>1, <4>2, <4>3
    <3>8. Len(new) = seq' - first + 1
      BY <1>0, <1>1, <3>3, <3>4, <3>5
    <3> QED BY <3>1, <3>6, <3>7, <3>8, Zenon DEF new
  <2>9. PausedIsLossy'
    BY <2>1 DEF IInv, PausedIsLossy
  <2>10. SlotMatchesBus'
    BY <1>0, <2>2 DEF SlotOK, SlotMatchesBus
  <2> QED BY <1>1, <2>4, <2>5, <2>7, <2>8, <2>9, <2>10 DEF IInv, LogOK, InOrder
<1>4. ASSUME NEW c \in bus, SendTo(c) PROVE IInv'
  <2>1. CASE c \in paused /\ UNCHANGED <<slotVars, subVars>>
    <3>1. \A d \in bus : d \in paused
      BY <1>0, <1>4, <2>1 DEF SlotOK, SlotMatchesBus
    <3> QED BY <1>2, <2>1, <3>1
  <2>2. ~(c \notin paused /\ buffered[c] > Hard)
    <3>1. c \in Conns /\ buffered[c] \in Nat
      BY <1>0
    <3> QED BY <1>0, <3>1, BusConstants DEF BufferBounded
  <2>3. CASE c \notin paused /\ Send(c)
    BY <1>3, <1>4, <2>3
  <2> QED BY <1>4, <2>1, <2>2, <2>3 DEF SendTo
<1> QED BY <1>2, <1>4 DEF Broadcast

\* The network, and the end of a connection.
LEMMA ConnStepIInv ==
    ASSUME IInv, NEW c \in Conns,
           Rejected(c) \/ Flush(c) \/ Drained(c) \/ CloseByDaemon(c) \/ Disconnect(c)
    PROVE  IInv'
<1>0. /\ SlotOK /\ TypeOK /\ BufferBounded
      /\ conn \in [Conns -> ConnState] /\ loops \in [Conns -> Nat]
      /\ buffered \in [Conns -> Nat] /\ paused \subseteq Conns /\ listening \subseteq Conns
  BY DEF IInv, SlotOK, TypeOK, SlotTypeOK
<1>1. CASE Rejected(c)
  <2>1. SlotOK' /\ UNCHANGED <<seq, ring, subVars>>
    BY <1>0, <1>1, RefuseOK DEF Rejected
  <2>2. \A d \in Conns : conn'[d] = "open" => conn[d] = "open"
    BY <1>0, <1>1 DEF Rejected, Refuse
  <2> QED BY <1>0, <2>1, <2>2, QuietIInv DEF subVars, BufferBounded
<1>2. CASE Flush(c)
  <2>1. PICK b \in 0..buffered[c] - 1 : buffered' = [buffered EXCEPT ![c] = b]
    BY <1>2 DEF Flush
  <2>2. UNCHANGED <<conn, subscriber, bus, seq, ring, paused, listening, loops, log, lossless>>
    BY <1>2 DEF Flush, slotVars
  <2>3. SlotOK'
    BY <1>0, <2>2 DEF SlotOK, SlotTypeOK, SlotMatchesBus
  <2>4. buffered' \in [Conns -> Nat] /\ \A d \in Conns : buffered'[d] <= buffered[d]
    BY <1>0, <2>1
  <2>5. BufferBounded'
    <3> SUFFICES ASSUME NEW d \in Conns
                 PROVE  buffered'[d] <= Hard + 1 /\ (d \notin paused => buffered'[d] <= Hard)
      BY <2>2 DEF BufferBounded
    <3>1. buffered'[d] \in Nat /\ buffered[d] \in Nat /\ buffered'[d] <= buffered[d]
      BY <1>0, <2>4
    <3> QED BY <1>0, <3>1, BusConstants DEF BufferBounded
  <2> QED BY <1>0, <2>2, <2>3, <2>4, <2>5, QuietIInv
<1>3. CASE Drained(c)
  <2>1. /\ UNCHANGED <<seq, ring, buffered, log, lossless>> /\ listening' = listening \ {c}
        /\ paused' = paused \/ (paused' = paused \ {c} /\ buffered[c] < Low)
        /\ loops' \in [Conns -> Nat]
        /\ UNCHANGED slotVars \/ StartClose({c})
    BY <1>0, <1>3 DEF Drained
  <2>2. /\ SlotOK'
        /\ \A d \in Conns : conn'[d] = "open" => conn[d] = "open"
    <3>1. CASE UNCHANGED slotVars
      <4>1. UNCHANGED <<conn, subscriber, bus>>
        BY <3>1 DEF slotVars
      <4>2. SlotOK'
        BY <1>0, <4>1 DEF SlotOK, SlotTypeOK, SlotMatchesBus
      <4> QED BY <4>1, <4>2
    <3>2. CASE StartClose({c})
      BY <1>0, <3>2, StartCloseOK
    <3> QED BY <2>1, <3>1, <3>2
  <2>3. BufferBounded'
    <3> SUFFICES ASSUME NEW d \in Conns
                 PROVE  buffered[d] <= Hard + 1 /\ (d \notin paused' => buffered[d] <= Hard)
      BY <2>1 DEF BufferBounded
    <3>1. CASE d = c /\ buffered[c] < Low
      BY <1>0, <3>1, BusConstants, MarksAreOrdered
    <3>2. CASE ~(d = c /\ buffered[c] < Low)
      BY <1>0, <2>1, <3>2 DEF BufferBounded
    <3> QED BY <3>1, <3>2
  <2>4. /\ paused' \subseteq paused /\ listening' \subseteq Conns
        /\ buffered' \in [Conns -> Nat]
    BY <1>0, <2>1
  <2> QED BY <2>1, <2>2, <2>3, <2>4, QuietIInv
<1>4. CASE CloseByDaemon(c)
  <2>1. StartClose({c}) /\ UNCHANGED <<seq, ring, subVars>>
    BY <1>4 DEF CloseByDaemon
  <2>2. SlotOK' /\ \A d \in Conns : conn'[d] = "open" => conn[d] = "open"
    BY <1>0, <2>1, StartCloseOK
  <2> QED BY <1>0, <2>1, <2>2, QuietIInv DEF subVars, BufferBounded
<1>5. CASE Disconnect(c)
  <2>1. SlotOK' /\ UNCHANGED <<seq, ring, subVars>>
    BY <1>0, <1>5, ClosedOK DEF Disconnect
  <2>2. \A d \in Conns : conn'[d] = "open" => conn[d] = "open"
    BY <1>0, <1>5 DEF Disconnect, Closed
  <2> QED BY <1>0, <2>1, <2>2, QuietIInv DEF subVars, BufferBounded
<1> QED BY <1>1, <1>2, <1>3, <1>4, <1>5

LEMMA NextIInv == IInv /\ [Next]_vars => IInv'
<1> SUFFICES ASSUME IInv, [Next]_vars PROVE IInv'
  OBVIOUS
<1>1. CASE Broadcast
  BY <1>1, BroadcastIInv
<1>2. ASSUME NEW c \in Conns,
             \/ Connect(c) \/ Rejected(c) \/ Flush(c) \/ Drained(c)
             \/ CloseByDaemon(c) \/ Disconnect(c)
      PROVE  IInv'
  BY <1>2, ConnectIInv, ConnStepIInv
<1>3. CASE UNCHANGED vars
  <2>1. UNCHANGED <<seq, ring, subVars>> /\ UNCHANGED slotVars
    BY <1>3 DEF vars
  <2>2. SlotOK'
    BY <2>1 DEF IInv, TypeOK, SlotOK, SlotTypeOK, SlotMatchesBus, slotVars
  <2> QED BY <2>1, <2>2, QuietIInv DEF IInv, TypeOK, subVars, slotVars, BufferBounded
<1> QED BY <1>1, <1>2, <1>3 DEF Next

\* Every state of the bus satisfies the inductive invariant.
LEMMA InvariantHolds == Spec => []IInv
BY InitIInv, NextIInv, PTL DEF Spec

\* Every variable keeps its type; the ring never holds more than Cap entries.
THEOREM TypeCorrect == Spec => []TypeOK
BY InvariantHolds, PTL DEF IInv

\* The ring is the last Cap numbers minted.
THEOREM RingIsExact == Spec => []RingExact
BY InvariantHolds, PTL DEF IInv

\* What computeResync() tells a client that reconnects is what the ring can tell it.
THEOREM ResyncIsExact == Spec => []ResyncExact
<1>1. IInv => ResyncExact
  BY RingDecides DEF IInv
<1> QED BY InvariantHolds, <1>1, PTL

\* A subscriber that lags costs a bounded buffer.
THEOREM BufferIsBounded == Spec => []BufferBounded
BY InvariantHolds, PTL DEF IInv

\* Sequence numbers only grow on a connection.
THEOREM FramesInOrder == Spec => []InOrder
BY InvariantHolds, PTL DEF IInv, LogOK

\* A subscriber that was never paused has seen every number since its hello.
THEOREM NothingIsSkipped == Spec => []LosslessIsComplete
BY InvariantHolds, PTL DEF IInv
=============================================================================
