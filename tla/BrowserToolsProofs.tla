-------------------------- MODULE BrowserToolsProofs --------------------------
(***************************************************************************)
(* Proofs about BrowserTools for every number of calls and connections and *)
(* every limit.  The inductive invariant is the conjunction of the         *)
(* invariants the run checks: the count of slots needs to know that the    *)
(* table holds exactly the waiting calls, and that a call waits on the     *)
(* present subscriber only needs the slot and the bus to agree.            *)
(***************************************************************************)
EXTENDS BrowserTools, FiniteSetTheorems, TLAPS

IInv ==
    /\ TypeOK
    /\ SlotMatchesBus
    /\ PendingIsWaiting
    /\ SlotAccounting
    /\ WaitingOnSubscriber

\* Every set of calls is finite and has a size.
LEMMA CallSets ==
    ASSUME NEW S \in SUBSET Calls
    PROVE  IsFiniteSet(S) /\ Cardinality(S) \in Nat
BY CallsFinite, FS_Subset, FS_CardinalityType

\* The sizes of the two sets SlotAccounting counts are numbers.
LEMMA SlotSets ==
    ASSUME TypeOK
    PROVE  /\ IsFiniteSet(InBody) /\ Cardinality(InBody) \in Nat
           /\ IsFiniteSet(pending) /\ Cardinality(pending) \in Nat
<1>1. InBody \in SUBSET Calls /\ pending \in SUBSET Calls
  BY DEF InBody, TypeOK
<1> QED BY <1>1, CallSets

\* Settling takes calls out of the table, and as many slots back as calls.
LEMMA SettleCounts ==
    ASSUME IInv, NEW R \in SUBSET Calls, NEW out \in Outcome,
           Settle(R), Resume(R, out)
    PROVE  /\ pending' \subseteq pending
           /\ pending' = {r \in Calls : call'[r] = "waiting"}
           /\ active' \in Nat /\ active' <= Limit
           /\ active' = Cardinality(InBody') + Cardinality(pending')
           /\ call' \in [Calls -> Phase]
<1> DEFINE found == R \cap pending
<1>1. /\ IsFiniteSet(found) /\ Cardinality(found) \in Nat
      /\ Cardinality(found) <= Cardinality(pending)
  BY SlotSets, FS_Intersection, FS_CardinalityType DEF IInv
<1>2. /\ pending' = pending \ found
      /\ Cardinality(pending') = Cardinality(pending) - Cardinality(found)
  <2>1. pending \cap found = found
    OBVIOUS
  <2> QED BY <2>1, SlotSets, FS_Difference DEF Settle, IInv
<1>3. active = Cardinality(InBody) + Cardinality(pending) /\ active \in Nat
      /\ active <= Limit
  BY DEF IInv, SlotAccounting, TypeOK
<1>4. active' = active - Cardinality(found)
  BY <1>1, <1>3, SlotSets DEF Settle, IInv
<1>5. call' \in [Calls -> Phase]
  BY DEF Resume, IInv, TypeOK, Phase, Outcome
<1>6. InBody' = InBody
  <2>1. \A r \in Calls : r \in found => call[r] = "waiting" /\ call'[r] = out
    BY DEF Resume, IInv, TypeOK, PendingIsWaiting
  <2>2. \A r \in Calls : r \notin found => call'[r] = call[r]
    BY DEF Resume
  <2> QED BY <2>1, <2>2 DEF InBody, Outcome
<1>7. pending' = {r \in Calls : call'[r] = "waiting"}
  BY <1>2 DEF Resume, IInv, TypeOK, PendingIsWaiting, Outcome
<1> QED BY <1>1, <1>2, <1>3, <1>4, <1>5, <1>6, <1>7, SlotSets, LimitIsPositive DEF IInv

LEMMA InitIInv == Init => IInv
<1> SUFFICES ASSUME Init PROVE IInv
  OBVIOUS
<1>1. InBody = {} /\ pending = {}
  BY DEF Init, InBody
<1>2. TypeOK
  BY DEF Init, TypeOK, SlotInit, SlotTypeOK, ConnState, Phase
<1>3. SlotMatchesBus
  BY NoConnIsNoConn DEF Init, SlotInit, SlotMatchesBus
<1>4. SlotAccounting
  BY <1>1, FS_EmptySet, LimitIsPositive DEF Init, SlotAccounting
<1> QED BY <1>1, <1>2, <1>3, <1>4 DEF IInv, PendingIsWaiting, WaitingOnSubscriber, Init

\* One step of an HTTP handler.
LEMMA CallStepIInv ==
    ASSUME IInv, NEW r \in Calls,
           Begin(r) \/ BodyFails(r) \/ Forward(r) \/ Timer(r) \/ CallAgain(r)
    PROVE  IInv'
<1> USE DEF IInv
<1>0. /\ TypeOK /\ SlotTypeOK /\ SlotMatchesBus /\ PendingIsWaiting
      /\ SlotAccounting /\ WaitingOnSubscriber /\ call \in [Calls -> Phase]
      /\ active \in Nat
  BY DEF TypeOK
<1>sets. /\ IsFiniteSet(InBody) /\ Cardinality(InBody) \in Nat
         /\ IsFiniteSet(pending) /\ Cardinality(pending) \in Nat
  BY <1>0, SlotSets
<1>1. CASE Begin(r)
  <2>1. /\ UNCHANGED <<pending, conn, subscriber, bus, sentTo, paused, daemon>>
        /\ call[r] = "idle"
    BY <1>1 DEF Begin, slotVars
  <2>2. CASE active' = active + 1 /\ MayAcquire /\ call' = [call EXCEPT ![r] = "body"]
    <3>1. InBody' = InBody \cup {r} /\ r \notin InBody
      BY <1>0, <2>1, <2>2 DEF InBody
    <3>2. Cardinality(InBody') = Cardinality(InBody) + 1
      BY <3>1, <1>sets, FS_AddElement
    <3>3. SlotAccounting'
      BY <3>2, <2>2, <2>1, <1>0, <1>sets, LimitIsPositive DEF SlotAccounting, MayAcquire
    <3>4. TypeOK'
      BY <2>1, <2>2, <1>0 DEF TypeOK, SlotTypeOK, Phase
    <3> QED BY <3>3, <3>4, <2>1, <2>2, <1>0
         DEF SlotMatchesBus, PendingIsWaiting, WaitingOnSubscriber
  <2>3. ASSUME NEW out \in Outcome, UNCHANGED active, call' = [call EXCEPT ![r] = out]
        PROVE  IInv'
    <3>1. InBody' = InBody
      BY <1>0, <2>1, <2>3 DEF InBody, Outcome
    <3>2. TypeOK'
      BY <2>1, <2>3, <1>0 DEF TypeOK, SlotTypeOK, Phase
    <3>3. PendingIsWaiting'
      BY <2>1, <2>3, <1>0 DEF PendingIsWaiting, Outcome
    <3> QED BY <3>1, <3>2, <3>3, <2>1, <2>3, <1>0
         DEF SlotMatchesBus, SlotAccounting, WaitingOnSubscriber
  <2> QED BY <1>1, <2>2, <2>3 DEF Begin, TryAcquire, Outcome
<1>2. CASE BodyFails(r)
  <2>1. /\ UNCHANGED <<pending, conn, subscriber, bus, sentTo, paused, daemon>>
        /\ call[r] = "body" /\ call' = [call EXCEPT ![r] = "BadBody"]
    BY <1>2 DEF BodyFails, slotVars
  <2>2. InBody' = InBody \ {r} /\ r \in InBody
    BY <1>0, <2>1 DEF InBody
  <2>3. Cardinality(InBody') = Cardinality(InBody) - 1
    BY <2>2, <1>sets, FS_RemoveElement
  <2>4. Cardinality(InBody') \in Nat
    BY <2>2, <1>sets, FS_RemoveElement, FS_CardinalityType
  <2>5. active' = active - 1 /\ active' \in Nat
    BY <1>2, <1>0, <1>sets, <2>3, <2>4 DEF BodyFails, ReleaseAcquired, SlotAccounting
  <2>6. SlotAccounting'
    BY <2>1, <2>3, <2>4, <2>5, <1>0, <1>sets, LimitIsPositive DEF SlotAccounting
  <2>7. TypeOK'
    BY <2>1, <2>5, <1>0 DEF TypeOK, SlotTypeOK, Phase, Outcome
  <2>8. PendingIsWaiting'
    BY <2>1, <1>0 DEF PendingIsWaiting
  <2> QED BY <2>1, <2>6, <2>7, <2>8, <1>0 DEF SlotMatchesBus, WaitingOnSubscriber
<1>3. CASE Forward(r)
  <2>1. /\ UNCHANGED <<active, conn, subscriber, bus, daemon>>
        /\ call[r] = "body" /\ call' = [call EXCEPT ![r] = "waiting"]
        /\ pending' = pending \cup {r}
        /\ sentTo' = [sentTo EXCEPT ![r] = Reachable]
        /\ MayPause
    BY <1>3 DEF Forward, slotVars, Register
  <2>2. InBody' = InBody \ {r} /\ r \in InBody /\ r \notin pending
    BY <1>0, <2>1 DEF InBody, PendingIsWaiting
  <2>3. Cardinality(InBody') = Cardinality(InBody) - 1
    BY <2>2, <1>sets, FS_RemoveElement
  <2>4. Cardinality(pending') = Cardinality(pending) + 1
    BY <2>1, <2>2, <1>sets, FS_AddElement
  <2>5. SlotAccounting'
    BY <2>1, <2>3, <2>4, <1>0, <1>sets DEF SlotAccounting
  <2>6. Reachable \subseteq bus /\ bus \subseteq Conns
    BY <1>0 DEF Reachable, SlotTypeOK
  <2>7. TypeOK'
    BY <2>1, <2>6, <1>0 DEF TypeOK, SlotTypeOK, Phase, MayPause
  <2>8. PendingIsWaiting'
    BY <2>1, <1>0 DEF PendingIsWaiting
  <2>9. WaitingOnSubscriber'
    BY <2>1, <2>6, <1>0 DEF WaitingOnSubscriber, SlotMatchesBus, TypeOK
  <2> QED BY <2>1, <2>5, <2>7, <2>8, <2>9, <1>0 DEF SlotMatchesBus
<1>4. CASE Timer(r)
  <2>1. /\ UNCHANGED <<conn, subscriber, bus, sentTo, paused, daemon>>
        /\ Settle({r}) /\ Resume({r}, "ExtensionTimeout")
    BY <1>4 DEF Timer, slotVars
  <2>2. "ExtensionTimeout" \in Outcome /\ {r} \in SUBSET Calls
    BY DEF Outcome
  <2>3. /\ pending' \subseteq pending
        /\ pending' = {q \in Calls : call'[q] = "waiting"}
        /\ active' \in Nat /\ active' <= Limit
        /\ active' = Cardinality(InBody') + Cardinality(pending')
        /\ call' \in [Calls -> Phase]
    BY <2>1, <2>2, SettleCounts
  <2> QED BY <2>1, <2>3, <1>0 DEF TypeOK, SlotTypeOK, SlotMatchesBus,
         PendingIsWaiting, SlotAccounting, WaitingOnSubscriber
<1>5. CASE CallAgain(r)
  <2>1. /\ UNCHANGED <<pending, active, conn, subscriber, bus, paused, daemon>>
        /\ call[r] \in Outcome /\ call' = [call EXCEPT ![r] = "idle"]
        /\ sentTo' = [sentTo EXCEPT ![r] = {}]
    BY <1>5 DEF CallAgain, slotVars
  <2>2. InBody' = InBody
    BY <2>1, <1>0 DEF InBody, Outcome
  <2>3. PendingIsWaiting'
    BY <2>1, <1>0 DEF PendingIsWaiting, Outcome
  <2>4. TypeOK'
    BY <2>1, <1>0 DEF TypeOK, SlotTypeOK, Phase
  <2>5. WaitingOnSubscriber'
    BY <2>1, <1>0 DEF WaitingOnSubscriber, TypeOK
  <2> QED BY <2>1, <2>2, <2>3, <2>4, <2>5, <1>0 DEF SlotMatchesBus, SlotAccounting
<1> QED BY <1>1, <1>2, <1>3, <1>4, <1>5

\* A step that only settles calls, and may change who is paused.
LEMMA SettleIInv ==
    ASSUME IInv, NEW R \in SUBSET Calls, NEW out \in Outcome,
           Settle(R), Resume(R, out), UNCHANGED <<sentTo, conn, subscriber, bus>>,
           paused' \subseteq Conns, daemon' \in {"up", "draining", "exited"}
    PROVE  IInv'
<1>1. /\ pending' \subseteq pending
      /\ pending' = {q \in Calls : call'[q] = "waiting"}
      /\ active' \in Nat /\ active' <= Limit
      /\ active' = Cardinality(InBody') + Cardinality(pending')
      /\ call' \in [Calls -> Phase]
  BY SettleCounts
<1> QED BY <1>1 DEF IInv, TypeOK, SlotTypeOK, SlotMatchesBus, PendingIsWaiting,
       SlotAccounting, WaitingOnSubscriber

\* One step of a connection.
LEMMA ConnStepIInv ==
    ASSUME IInv, NEW c \in Conns,
           \/ Connect(c) \/ Drain(c) \/ CloseByDaemon(c) \/ Disconnect(c)
           \/ \E r \in Calls : Result(c, r) \/ Error(c, r)
    PROVE  IInv'
<1>0. /\ TypeOK /\ SlotTypeOK /\ SlotMatchesBus /\ PendingIsWaiting
      /\ SlotAccounting /\ WaitingOnSubscriber
  BY DEF IInv, TypeOK
<1>1. CASE Connect(c)
  <2>1. /\ UNCHANGED <<pending, active, call, sentTo, paused, daemon>>
        /\ Accept(c) \/ Refuse(c)
    BY <1>1 DEF Connect
  <2>2. TypeOK'
    BY <2>1, <1>0 DEF TypeOK, SlotTypeOK, ConnState, Accept, Refuse
  <2>3. CASE Accept(c)
    <3>1. bus = {} /\ subscriber = NoConn /\ subscriber' = c /\ bus' = {c}
          /\ conn' = [conn EXCEPT ![c] = "open"]
      BY <2>3, <1>0 DEF Accept, SlotMatchesBus
    <3>2. SlotMatchesBus'
      BY <3>1, <1>0, NoConnIsNoConn DEF SlotMatchesBus, SlotTypeOK
    <3>3. WaitingOnSubscriber'
      BY <3>1, <2>1, <1>0, NoConnIsNoConn DEF WaitingOnSubscriber, TypeOK
    <3> QED BY <3>2, <3>3, <2>1, <2>2, <1>0
         DEF IInv, PendingIsWaiting, SlotAccounting, InBody
  <2>4. CASE Refuse(c)
    <3>1. SlotMatchesBus'
      BY <2>4, <1>0 DEF Refuse, SlotMatchesBus, SlotTypeOK
    <3> QED BY <3>1, <2>1, <2>2, <2>4, <1>0
         DEF IInv, PendingIsWaiting, SlotAccounting, InBody, WaitingOnSubscriber, Refuse
  <2> QED BY <2>1, <2>3, <2>4
<1>2. CASE Drain(c)
  <2>1. /\ UNCHANGED <<pending, active, conn, subscriber, bus, call, sentTo, daemon>>
        /\ paused' = paused \ {c}
    BY <1>2 DEF Drain, slotVars
  <2> QED BY <2>1, <1>0 DEF IInv, TypeOK, SlotTypeOK, SlotMatchesBus, PendingIsWaiting,
         SlotAccounting, InBody, WaitingOnSubscriber
<1>3. CASE CloseByDaemon(c)
  <2>1. /\ UNCHANGED <<pending, active, subscriber, bus, call, sentTo, paused, daemon>>
        /\ conn' = AfterClose({c})
    BY <1>3 DEF CloseByDaemon, StartClose
  <2>2. /\ conn' \in [Conns -> ConnState]
        /\ \A d \in Conns : conn'[d] \in {"open", "closing"} <=> conn[d] \in {"open", "closing"}
    BY <2>1, <1>0 DEF AfterClose, SlotTypeOK, ConnState
  <2> QED BY <2>1, <2>2, <1>0 DEF IInv, TypeOK, SlotTypeOK, SlotMatchesBus,
         PendingIsWaiting, SlotAccounting, InBody, WaitingOnSubscriber
<1>4. CASE Disconnect(c)
  <2>1. /\ UNCHANGED <<sentTo, daemon>> /\ paused' = paused \ {c}
        /\ Settle(pending) /\ Resume(pending, "ExtensionDisconnected")
        /\ Closed(c)
    BY <1>4 DEF Disconnect
  <2>2. pending \in SUBSET Calls /\ "ExtensionDisconnected" \in Outcome
    BY <1>0 DEF TypeOK, Outcome
  <2>3. /\ pending' = {q \in Calls : call'[q] = "waiting"}
        /\ active' \in Nat /\ active' <= Limit
        /\ active' = Cardinality(InBody') + Cardinality(pending')
        /\ call' \in [Calls -> Phase]
    BY <2>1, <2>2, SettleCounts
  <2>4. pending' = {}
    BY <2>1 DEF Settle
  <2>5. SlotTypeOK'
    BY <2>1, <1>0 DEF Closed, SlotTypeOK, ConnState
  <2>6. bus = {c} /\ subscriber = c /\ bus' = {} /\ subscriber' = NoConn
    BY <2>1, <1>0 DEF Closed, SlotMatchesBus
  <2>7. SlotMatchesBus'
    BY <2>1, <2>6, <1>0 DEF Closed, SlotMatchesBus, SlotTypeOK
  <2> QED BY <2>1, <2>3, <2>4, <2>5, <2>7, <1>0 DEF IInv, TypeOK, PendingIsWaiting,
         SlotAccounting, WaitingOnSubscriber
<1>5. ASSUME NEW r \in Calls, NEW out \in Outcome, Answer(c, r, out)
      PROVE  IInv'
  <2>1. /\ Settle({r}) /\ Resume({r}, out) /\ {r} \in SUBSET Calls
        /\ UNCHANGED <<sentTo, conn, subscriber, bus>>
        /\ UNCHANGED <<paused, daemon>>
    BY <1>5 DEF Answer, slotVars
  <2>2. paused' \subseteq Conns /\ daemon' \in {"up", "draining", "exited"}
    BY <2>1, <1>0 DEF TypeOK
  <2> QED BY <2>1, <2>2, SettleIInv
<1>6. ASSUME NEW r \in Calls, Result(c, r) \/ Error(c, r)
      PROVE  IInv'
  BY <1>5, <1>6 DEF Result, Error, ErrorOutcome, Outcome
<1> QED BY <1>1, <1>2, <1>3, <1>4, <1>6

\* The synchronous part of shutdown, once or again.
LEMMA ShutdownIInv ==
    ASSUME IInv, Shutdown
    PROVE  IInv'
<1>0. /\ TypeOK /\ SlotTypeOK /\ SlotMatchesBus /\ WaitingOnSubscriber
  BY DEF IInv, TypeOK
<1>1. /\ Settle(pending) /\ Resume(pending, "Shutdown")
      /\ UNCHANGED <<sentTo, subscriber, bus>> /\ conn' = AfterClose(bus)
      /\ MayPause /\ daemon' = "draining"
  BY DEF Shutdown, StartClose
<1>2. pending \in SUBSET Calls /\ "Shutdown" \in Outcome
  BY <1>0 DEF TypeOK, Outcome
<1>3. /\ pending' \subseteq pending
      /\ pending' = {q \in Calls : call'[q] = "waiting"}
      /\ active' \in Nat /\ active' <= Limit
      /\ active' = Cardinality(InBody') + Cardinality(pending')
      /\ call' \in [Calls -> Phase]
  BY <1>1, <1>2, SettleCounts
<1>4. /\ conn' \in [Conns -> ConnState]
      /\ \A d \in Conns : conn'[d] \in {"open", "closing"} <=> conn[d] \in {"open", "closing"}
  BY <1>1, <1>0 DEF AfterClose, SlotTypeOK, ConnState
<1>5. paused' \subseteq Conns
  BY <1>1, <1>0 DEF MayPause, Reachable, TypeOK, SlotTypeOK
<1> QED BY <1>0, <1>1, <1>3, <1>4, <1>5 DEF IInv, TypeOK, SlotTypeOK, SlotMatchesBus,
       PendingIsWaiting, SlotAccounting, WaitingOnSubscriber

LEMMA NextIInv == IInv /\ [Next]_vars => IInv'
<1> SUFFICES ASSUME IInv, [Next]_vars PROVE IInv'
  OBVIOUS
<1>1. CASE \E r \in Calls :
             Begin(r) \/ BodyFails(r) \/ Forward(r) \/ Timer(r) \/ CallAgain(r)
  BY <1>1, CallStepIInv
<1>2. CASE \E c \in Conns : Connect(c) \/ Drain(c) \/ CloseByDaemon(c) \/ Disconnect(c)
  BY <1>2, ConnStepIInv
<1>3. CASE \E c \in Conns, r \in Calls : Result(c, r) \/ Error(c, r)
  BY <1>3, ConnStepIInv
<1>4. CASE Shutdown
  BY <1>4, ShutdownIInv
<1>5. CASE Exit \/ UNCHANGED vars
  BY <1>5 DEF Exit, vars, slotVars, IInv, TypeOK, SlotTypeOK, SlotMatchesBus,
     PendingIsWaiting, SlotAccounting, InBody, WaitingOnSubscriber
<1> QED BY <1>1, <1>2, <1>3, <1>4, <1>5 DEF Next

LEMMA InvariantHolds == Spec => []IInv
BY InitIInv, NextIInv, PTL DEF Spec

\* Every variable of the proxy keeps its type.
THEOREM TypeCorrect == Spec => []TypeOK
BY InvariantHolds, PTL DEF IInv

\* The slot counter of rpcCorrelation.ts never drifts from the calls that hold a
\* slot, and never exceeds the limit.
THEOREM SlotsAreCounted == Spec => []SlotAccounting
BY InvariantHolds, PTL DEF IInv

\* The handlers that wait are exactly the ids in the correlation table.
THEOREM TableIsExact == Spec => []PendingIsWaiting
BY InvariantHolds, PTL DEF IInv

\* The slot of events.ts and the subscriber set of eventBus.ts agree.
THEOREM RegistriesAgree == Spec => []SlotMatchesBus
BY InvariantHolds, PTL DEF IInv

\* No call waits on a connection other than the present subscriber.
THEOREM WaitersAreTheSubscribers == Spec => []WaitingOnSubscriber
BY InvariantHolds, PTL DEF IInv

\* A connection that goes away fails only the calls it was sent, or that nobody was.
THEOREM BlameIsRight == Spec => DisconnectBlamesItsOwn
<1> DEFINE Blame ==
      \A r \in Calls :
         (/\ call[r] = "waiting" /\ call'[r] = "ExtensionDisconnected"
          /\ \E c \in Conns : conn[c] # "gone" /\ conn'[c] = "gone")
         => \A c \in sentTo[r] : conn'[c] = "gone"
<1>1. IInv /\ [Next]_vars => [Blame]_vars
  <2> SUFFICES ASSUME IInv, Next, NEW r \in Calls, NEW c \in Conns,
                      call[r] = "waiting", conn[c] # "gone", conn'[c] = "gone"
               PROVE  \A d \in sentTo[r] : conn'[d] = "gone"
    OBVIOUS
  <2>1. conn[c] \in {"open", "closing"} /\ sentTo[r] \subseteq {subscriber}
        /\ sentTo[r] \subseteq Conns /\ r \in pending
    <3>1. sentTo[r] \subseteq {subscriber} /\ r \in pending /\ sentTo[r] \subseteq Conns
      BY DEF IInv, PendingIsWaiting, WaitingOnSubscriber, TypeOK
    <3>2. CASE \E d \in Conns : Disconnect(d)
      BY <3>1, <3>2 DEF Disconnect, Closed, IInv, TypeOK, SlotTypeOK
    <3>3. CASE \E d \in Conns : Connect(d)
      BY <3>3 DEF Connect, Accept, Refuse, IInv, TypeOK, SlotTypeOK
    <3>4. CASE \E d \in Conns : CloseByDaemon(d)
      BY <3>4 DEF CloseByDaemon, StartClose, AfterClose, IInv, TypeOK, SlotTypeOK
    <3>5. CASE Shutdown
      BY <3>5 DEF Shutdown, StartClose, AfterClose, IInv, TypeOK, SlotTypeOK
    <3>6. CASE UNCHANGED conn
      BY <3>6
    <3> QED BY <3>2, <3>3, <3>4, <3>5, <3>6, <3>1 DEF Next, Begin, BodyFails, Forward,
           Timer, CallAgain, Drain, Result, Error, Answer, Exit, slotVars
  <2>2. subscriber = c
    BY <2>1 DEF IInv, SlotMatchesBus
  <2> QED BY <2>1, <2>2
<1> QED BY <1>1, InvariantHolds, PTL DEF Spec, DisconnectBlamesItsOwn
=============================================================================
