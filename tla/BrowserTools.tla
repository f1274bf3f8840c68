---------------------------- MODULE BrowserTools ----------------------------
(***************************************************************************)
(* The browser-tool proxy of the daemon: POST /computed_styles and         *)
(* /dom_subtree (routes/browserTools.ts) reserve a slot, read their body,  *)
(* send an rpc.request frame to the subscriber and await its answer, while *)
(* the subscriber connects, answers, stalls and disconnects (ws/events.ts) *)
(* and the daemon shuts down (lifecycle.ts).  Everything between two       *)
(* awaits of a handler is one action.                                      *)
(***************************************************************************)
EXTENDS RpcCorrelation, Events

VARIABLES
    call,       \* [Calls -> Phase]: where the handler of the call stands
    sentTo,     \* [Calls -> SUBSET Conns]: the connections its frame was sent on
    paused,     \* the subscribers that are skipped until they drain
    daemon      \* "up", "draining" (shutdownGracefully has begun), "exited"

vars == <<pending, active, conn, subscriber, bus, call, sentTo, paused, daemon>>

\* The problem codes of the responses, and "ok" for the 200.
Outcome == {"ok", "BadBody", "ExtensionUnavailable", "ConcurrencyLimitReached",
            "ExtensionTimeout", "Shutdown", "ExtensionDisconnected"}

\* "idle": not sent; "body": in await readJsonBody; "waiting": in await register().
Phase == {"idle", "body", "waiting"} \cup Outcome

TypeOK ==
    /\ pending \subseteq Calls
    /\ active \in Nat
    /\ SlotTypeOK
    /\ call \in [Calls -> Phase]
    /\ sentTo \in [Calls -> SUBSET Conns]
    /\ paused \subseteq Conns
    /\ daemon \in {"up", "draining", "exited"}

Init ==
    /\ pending = {} /\ active = 0
    /\ SlotInit
    /\ call = [r \in Calls |-> "idle"]
    /\ sentTo = [r \in Calls |-> {}]
    /\ paused = {}
    /\ daemon = "up"

\* Every settled call resumes in the same turn of the event loop, as a microtask.
Resume(R, out) ==
    call' = [r \in Calls |-> IF r \in R \cap pending THEN out ELSE call[r]]

\* The connections a broadcast of this moment reaches.
Reachable == {c \in bus : conn[c] = "open"} \ paused

\* After a broadcast a subscriber may be paused; one that is closing always is,
\* because a frame sent on it stays in its buffer.
MayPause == /\ paused' \in {paused \cup P : P \in SUBSET Reachable}

Alive == daemon # "exited"
-----------------------------------------------------------------------------
(***************************************************************************)
(* The HTTP handler.                                                       *)
(***************************************************************************)
\* Steps 1 and 2: no subscriber is 424, no slot is 503.
Begin(r) ==
    /\ Alive
    /\ call[r] = "idle"
    /\ \/ /\ bus = {}
          /\ call' = [call EXCEPT ![r] = "ExtensionUnavailable"]
          /\ UNCHANGED active
       \/ /\ bus # {} /\ ~MayAcquire
          /\ call' = [call EXCEPT ![r] = "ConcurrencyLimitReached"]
          /\ UNCHANGED active
       \/ /\ bus # {} /\ MayAcquire
          /\ TryAcquire
          /\ call' = [call EXCEPT ![r] = "body"]
    /\ UNCHANGED <<pending, slotVars, sentTo, paused, daemon>>

\* Mutant: an early return that forgets releaseSlot().
BodyFailsLeaking(r) ==
    /\ Alive
    /\ call[r] = "body"
    /\ call' = [call EXCEPT ![r] = "BadBody"]
    /\ UNCHANGED <<pending, active, slotVars, sentTo, paused, daemon>>

\* Step 3 fails: 413, 400 or a request that breaks off.
BodyFails(r) ==
    /\ Alive
    /\ call[r] = "body"
    /\ ReleaseAcquired
    /\ call' = [call EXCEPT ![r] = "BadBody"]
    /\ UNCHANGED <<pending, slotVars, sentTo, paused, daemon>>

\* Mutant: the id is registered only in a later turn, so it never is.
ForwardUnregistered(r) ==
    /\ Alive
    /\ call[r] = "body"
    /\ sentTo' = [sentTo EXCEPT ![r] = Reachable]
    /\ MayPause
    /\ call' = [call EXCEPT ![r] = "waiting"]
    /\ UNCHANGED <<pending, active, slotVars, daemon>>

\* Steps 4 to 6: broadcast the frame to whoever is reachable now, and register.
Forward(r) ==
    /\ Alive
    /\ call[r] = "body"
    /\ sentTo' = [sentTo EXCEPT ![r] = Reachable]
    /\ MayPause
    /\ Register(r)
    /\ call' = [call EXCEPT ![r] = "waiting"]
    /\ UNCHANGED <<active, slotVars, daemon>>

\* The timer of register(): 5s or 10s.
Timer(r) ==
    /\ Alive
    /\ r \in pending
    /\ Resume({r}, "ExtensionTimeout")
    /\ Settle({r})
    /\ UNCHANGED <<slotVars, sentTo, paused, daemon>>

\* The caller has its answer and calls again, under a new id.
CallAgain(r) ==
    /\ Alive
    /\ call[r] \in Outcome
    /\ call' = [call EXCEPT ![r] = "idle"]
    /\ sentTo' = [sentTo EXCEPT ![r] = {}]
    /\ UNCHANGED <<pending, active, slotVars, paused, daemon>>
-----------------------------------------------------------------------------
(***************************************************************************)
(* The subscriber.                                                         *)
(***************************************************************************)
Connect(c) ==
    /\ Alive
    /\ Accept(c) \/ Refuse(c)
    /\ UNCHANGED <<pending, active, call, sentTo, paused, daemon>>

\* What the handler makes of `rpc error: <message>`: it looks for words in it.
ErrorOutcome(word) ==
    CASE word = "timeout"  -> "ExtensionTimeout"
      [] word = "shutdown" -> "Shutdown"
      [] OTHER             -> "ExtensionDisconnected"

\* An rpc.response frame of connection c, which may be a second one or a late
\* one: the table decides.  A connection that is closing is still read.
Answer(c, r, out) ==
    /\ Alive
    /\ conn[c] \in {"open", "closing"}
    /\ c \in sentTo[r]
    /\ Resume({r}, out)
    /\ Settle({r})
    /\ UNCHANGED <<slotVars, sentTo, paused, daemon>>

Result(c, r) == Answer(c, r, "ok")

Error(c, r) ==
    \E word \in {"timeout", "shutdown", "other"} : Answer(c, r, ErrorOutcome(word))

\* The socket buffer of a paused subscriber empties.
Drain(c) ==
    /\ Alive
    /\ c \in paused /\ conn[c] = "open"
    /\ paused' = paused \ {c}
    /\ UNCHANGED <<pending, active, slotVars, call, sentTo, daemon>>

\* The pong timeout, a send error or backpressure.
CloseByDaemon(c) ==
    /\ Alive
    /\ conn[c] = "open"
    /\ StartClose({c})
    /\ UNCHANGED <<pending, active, call, sentTo, paused, daemon>>

\* Mutant: the 'close' handler does not call rejectAll.
DisconnectSilently(c) ==
    /\ Alive
    /\ Closed(c)
    /\ paused' = paused \ {c}
    /\ UNCHANGED <<pending, active, call, sentTo, daemon>>

\* The 'close' event: free the slot, then rejectAll('ext disconnected').
Disconnect(c) ==
    /\ Alive
    /\ Closed(c)
    /\ Resume(pending, "ExtensionDisconnected")
    /\ Settle(pending)
    /\ paused' = paused \ {c}
    /\ UNCHANGED <<sentTo, daemon>>
-----------------------------------------------------------------------------
(***************************************************************************)
(* Shutdown: a signal, POST /shutdown, IPC disconnect or ppid change, each *)
(* of which may come while another is being handled.                       *)
(***************************************************************************)
\* The synchronous part of shutdownGracefully: broadcast, close 1012, rejectAll.
Shutdown ==
    /\ Alive
    /\ MayPause
    /\ StartClose(bus)
    /\ Resume(pending, "Shutdown")
    /\ Settle(pending)
    /\ daemon' = "draining"
    /\ UNCHANGED sentTo

\* The server has drained, or drainDeadlineMs has passed: process.exit(0).
Exit ==
    /\ daemon = "draining"
    /\ daemon' = "exited"
    /\ UNCHANGED <<pending, active, slotVars, call, sentTo, paused>>

Next ==
    \/ \E r \in Calls :
          Begin(r) \/ BodyFails(r) \/ Forward(r) \/ Timer(r) \/ CallAgain(r)
    \/ \E c \in Conns : Connect(c) \/ Drain(c) \/ CloseByDaemon(c) \/ Disconnect(c)
    \/ \E c \in Conns, r \in Calls : Result(c, r) \/ Error(c, r)
    \/ Shutdown
    \/ Exit

\* Node fires the timer of a registered call, and ends or breaks off a request
\* body (the HTTP server's requestTimeout).  Nothing is assumed of the extension.
Fairness ==
    /\ \A r \in Calls : WF_vars(Timer(r))
    /\ \A r \in Calls : WF_vars(Forward(r) \/ BodyFails(r))

Spec == Init /\ [][Next]_vars

FairSpec == Spec /\ Fairness
-----------------------------------------------------------------------------
(***************************************************************************)
(* Properties.                                                             *)
(***************************************************************************)
InBody == {r \in Calls : call[r] = "body"}

\* The counter counts the calls that hold a slot and nothing else: those that
\* read their body and those that are registered.  It never drifts, whatever
\* aborts, answers twice, times out or disconnects, so the limit stays the limit.
SlotAccounting ==
    /\ active = Cardinality(InBody) + Cardinality(pending)
    /\ active <= Limit

\* A handler waits exactly as long as its id is in the table: no call waits for
\* an entry that is gone, and no entry outlives its handler.
PendingIsWaiting == pending = {r \in Calls : call[r] = "waiting"}

\* Every waiting call is one the subscriber of this moment, or nobody, was sent:
\* the 'close' event of a connection settles all it left behind before another
\* connection takes the slot.
WaitingOnSubscriber == \A r \in pending : sentTo[r] \subseteq {subscriber}

\* A call answered "disconnected" because a connection went away is not one
\* that another connection was asked to answer.
DisconnectBlamesItsOwn ==
    [][\A r \in Calls :
         (/\ call[r] = "waiting" /\ call'[r] = "ExtensionDisconnected"
          /\ \E c \in Conns : conn[c] # "gone" /\ conn'[c] = "gone")
         => \A c \in sentTo[r] : conn'[c] = "gone"]_vars

\* A call that waits is answered, however the extension behaves.
EveryCallIsAnswered ==
    \A r \in Calls : (call[r] = "waiting") ~> (call[r] \in Outcome \/ daemon = "exited")

\* The pool of slots is never exhausted for good.
SlotsComeBack == (active = Limit) ~> (active < Limit \/ daemon = "exited")

\* The daemon design: 504 means "we proxied to ext and it didn't respond".
TimeoutMeansProxied == \A r \in Calls : call[r] = "ExtensionTimeout" => sentTo[r] # {}

\* The daemon design: calls in flight at shutdown are answered Shutdown, "not hang".
ShutdownLeavesNoneWaiting == daemon = "exited" => pending = {}
=============================================================================
