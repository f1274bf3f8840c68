------------------------------- MODULE McpBackend -------------------------------
(***************************************************************************)
(* DaemonBackend of the MCP shim, packages/mcp/src/daemonBackend.ts: how   *)
(* its calls find the daemon and what they do when it has been replaced.   *)
(*                                                                         *)
(* The MCP server runs its tool calls concurrently, and they share one     *)
(* cached handoff, one unreachable window and one authentication breaker.  *)
(* A call is cut at its awaits: the fetches and the sleep.  Daemons come   *)
(* one after the other, each with a token and a port of its own, which may *)
(* be the port of one that is gone.  A daemon stops to listen when it      *)
(* drains and removes the handoff file when it has drained; it may also    *)
(* crash and leave the file behind.                                        *)
(*                                                                         *)
(* The history says of a call whether it was steady: a daemon served when  *)
(* it began and none has come or gone since.  It excuses the calls that    *)
(* this daemon itself lets down.                                           *)
(*                                                                         *)
(* Bounds: Lives daemons; Mishaps timeouts and refusals (429, !ok) of      *)
(* daemons that serve.                                                     *)
(***************************************************************************)
EXTENDS Naturals

CONSTANTS
    Calls,    \* tool calls that may be in flight at the same time
    Lives,    \* daemons, one after the other
    Ports,    \* those a daemon may get
    NoPort,   \* of a daemon that has not been started
    Limit,    \* AUTH_CIRCUIT_BREAKER_LIMIT
    Mishaps

ASSUME Bounds == Lives \in Nat /\ Limit \in Nat \ {0} /\ Mishaps \in Nat

VARIABLES
    phase, port, holder,             \* the daemons, and whose handoff the file holds
    handoff,                         \* the instance of the cached handoff, 0 for none
    unreachable, permanent,          \* now < unreachableUntil; permanentUnreachable
    fails, window, blamed,           \* consecutiveAuthFails; lastAuthFailAt is less than 5 s ago;
                                     \* lastAuthFailInstanceId
    calls,
    mishaps,
    excused                          \* history: the window was opened with no daemon serving, or
                                     \* by a call that was not steady or was let down

daemons == <<phase, port, holder>>
breaker == <<permanent, fails, window, blamed>>
shim == <<handoff, unreachable, excused, breaker>>
shimVars == <<daemons, shim, calls, mishaps>>

Instances == 1..Lives
Kinds == {"current", "recent", "tool"}
Over == {"idle", "refused", "failed"}   \* no call, or how the last one ended in vain
Outcome(at, steady) == [kind |-> "current", at |-> at, via |-> 0, steady |-> steady]
Idle == Outcome("idle", FALSE)

ShimTypeOK ==
    /\ phase \in [Instances -> {"none", "listening", "ready", "draining", "dead"}]
    /\ port \in [Instances -> Ports \cup {NoPort}]
    /\ holder \in 0..Lives /\ handoff \in 0..Lives /\ blamed \in 0..Lives
    /\ unreachable \in BOOLEAN /\ permanent \in BOOLEAN /\ window \in BOOLEAN
    /\ fails \in Nat /\ mishaps \in 0..Mishaps /\ excused \in BOOLEAN
    /\ calls \in [Calls -> [kind : Kinds, at : Over \cup {"first", "again", "sleep", "second"},
                            via : 0..Lives, steady : BOOLEAN]]

ShimInit ==
    /\ phase = [i \in Instances |-> "none"]
    /\ port = [i \in Instances |-> NoPort]
    /\ holder = 0 /\ handoff = 0
    /\ unreachable = FALSE /\ permanent = FALSE
    /\ fails = 0 /\ window = FALSE /\ blamed = 0
    /\ calls = [c \in Calls |-> Idle]
    /\ mishaps = 0 /\ excused = FALSE
-----------------------------------------------------------------------------
IsAlive(i) == i # 0 /\ phase[i] \notin {"none", "dead"}
ListensAt(p) == {i \in Instances : phase[i] \in {"listening", "ready"} /\ port[i] = p}

\* What discoverHandoff() finds: the file, if its pid is alive.
Found == IF IsAlive(holder) THEN holder ELSE 0

\* The daemon a call should reach: it has published its handoff and serves.
Steady == holder # 0 /\ phase[holder] = "ready"

(***************************************************************************)
(* The daemons.  What changes there excuses the calls in flight.           *)
(***************************************************************************)
WorldChanges == calls' = [c \in Calls |-> [calls[c] EXCEPT !.steady = FALSE]]

\* A daemon listens before it writes its handoff.
Listen(i) ==
    /\ phase[i] = "none"
    /\ \A j \in 1..(i - 1) : phase[j] \in {"draining", "dead"}
    /\ phase' = [phase EXCEPT ![i] = "listening"]
    /\ \E p \in Ports : port' = [port EXCEPT ![i] = p]
    /\ WorldChanges
    /\ UNCHANGED <<holder, shim, mishaps>>

\* writeHandoff(), which fails while the daemon of the file is alive.
Publish(i) ==
    /\ phase[i] = "listening"
    /\ IF IsAlive(holder)
       THEN phase' = [phase EXCEPT ![i] = "dead"] /\ UNCHANGED holder
       ELSE phase' = [phase EXCEPT ![i] = "ready"] /\ holder' = i
    /\ WorldChanges
    /\ UNCHANGED <<port, shim, mishaps>>

Drain(i) ==
    /\ phase[i] = "ready"
    /\ phase' = [phase EXCEPT ![i] = "draining"]
    /\ WorldChanges
    /\ UNCHANGED <<port, holder, shim, mishaps>>

Gone(i) ==
    /\ phase[i] = "draining"
    /\ phase' = [phase EXCEPT ![i] = "dead"]
    /\ holder' = 0
    /\ WorldChanges
    /\ UNCHANGED <<port, shim, mishaps>>

DaemonCrashes(i) ==
    /\ IsAlive(i)
    /\ phase' = [phase EXCEPT ![i] = "dead"]
    /\ WorldChanges
    /\ UNCHANGED <<port, holder, shim, mishaps>>
-----------------------------------------------------------------------------
(***************************************************************************)
(* The shim                                                                *)
(***************************************************************************)
IsUnreachable == unreachable \/ permanent

\* discoverHandoff(): the cache is refilled or emptied, and the window follows.
Discover ==
    /\ handoff' = Found
    /\ unreachable' = (Found = 0)
    /\ excused' = (Found = 0 /\ ~Steady)

MarkReachable == unreachable' = FALSE /\ excused' = FALSE /\ UNCHANGED handoff

Send(c, at, via) == calls' = [calls EXCEPT ![c].at = at, ![c].via = via]

\* The call ends in vain: it was let down by a daemon that serves, or not.
Fail(c, letDown) ==
    calls' = [calls EXCEPT ![c] = Outcome("failed", calls[c].steady /\ ~letDown)]

\* markUnreachable() at the end of a call.
GiveUp(c, letDown) ==
    /\ unreachable' = TRUE
    /\ excused' = (letDown \/ ~calls[c].steady)
    /\ UNCHANGED handoff
    /\ Fail(c, letDown)

\* The second attempt of a path that found the handoff again, or none.
DiscoverAndRetry(c, at) ==
    /\ Discover
    /\ IF Found = 0 THEN Fail(c, FALSE) ELSE Send(c, at, Found)

\* A call starts.  In the unreachable window it is refused at once; else it is sent with the
\* cached handoff, which is looked up when there is none.
Ask(c) ==
    /\ calls[c].at \in Over
    /\ IF IsUnreachable \/ handoff # 0
       THEN UNCHANGED <<handoff, unreachable, excused>>
       ELSE Discover
    /\ \/ /\ IsUnreachable \/ handoff' = 0
          /\ calls' = [calls EXCEPT ![c] = Outcome("refused", Steady /\ ~excused')]
       \/ /\ ~IsUnreachable /\ handoff' # 0
          /\ \E k \in Kinds :
                calls' = [calls EXCEPT ![c] =
                            [kind |-> k, at |-> "first", via |-> handoff', steady |-> Steady]]
    /\ UNCHANGED <<daemons, breaker, mishaps>>

\* recordAuthFail(this.handoff?.instanceId): the instance is the one cached when the 401
\* arrives, not the one the request was sent to.
RecordAuthFail ==
    /\ fails' = IF window THEN (IF handoff # blamed THEN 0 ELSE fails) + 1 ELSE 1
    /\ window' = TRUE
    /\ blamed' = handoff

\* Does this 401 count?  Not the one after the sleep, and getRecentSelections does not
\* count the one after a lost connection.
Counts(call) == call.at = "first" \/ (call.at = "again" /\ call.kind # "recent")

InFlight(c) == calls[c].at \in {"first", "again", "second"}

\* 401 of a daemon that does not know the token: the one that has the port now.
Unauthorized(c) ==
    /\ InFlight(c)
    /\ ListensAt(port[calls[c].via]) \notin {{}, {calls[c].via}}
    /\ \/ /\ ~Counts(calls[c])
          /\ GiveUp(c, FALSE)
          /\ UNCHANGED breaker
       \/ /\ Counts(calls[c])
          /\ RecordAuthFail
          /\ permanent' = (permanent \/ fails' >= Limit)
          /\ IF fails' >= Limit \/ (calls[c].at = "again" /\ calls[c].kind = "current")
             THEN GiveUp(c, FALSE)
             ELSE Send(c, "sleep", calls[c].via) /\ UNCHANGED <<handoff, unreachable, excused>>
    /\ UNCHANGED <<daemons, mishaps>>

\* Mutant of Wake: the old handoff is used again.
WakeUndiscovered(c) ==
    /\ calls[c].at = "sleep"
    /\ IF handoff = 0 THEN Fail(c, FALSE) ELSE Send(c, "second", handoff)
    /\ UNCHANGED <<daemons, shim, mishaps>>

\* AUTH_RETRY_SLEEP_MS later.
Wake(c) ==
    /\ calls[c].at = "sleep"
    /\ DiscoverAndRetry(c, "second")
    /\ UNCHANGED <<daemons, breaker, mishaps>>

\* Mutant of Thrown: the connection is given up, the cached handoff is not.
ThrownUndiscovered(c) ==
    /\ InFlight(c)
    /\ ListensAt(port[calls[c].via]) = {}
    /\ GiveUp(c, FALSE)
    /\ UNCHANGED <<daemons, breaker, mishaps>>

\* The fetch throws: nobody listens, or its AbortSignal.timeout fires, whoever listens.
Thrown(c) ==
    /\ InFlight(c)
    /\ \E late \in BOOLEAN :
         /\ IF late
            THEN mishaps < Mishaps /\ mishaps' = mishaps + 1
            ELSE ListensAt(port[calls[c].via]) = {} /\ UNCHANGED mishaps
         /\ IF calls[c].at = "first" THEN DiscoverAndRetry(c, "again") ELSE GiveUp(c, late)
    /\ UNCHANGED <<daemons, breaker>>

\* An answer of the daemon the request was meant for.  A selection is always 200; a tool
\* has the statuses of its own (424, 504, ...), which say nothing of reachability.
Answered(c) ==
    /\ InFlight(c)
    /\ ListensAt(port[calls[c].via]) = {calls[c].via}
    /\ \/ MarkReachable
       \/ calls[c].kind = "tool" /\ UNCHANGED <<handoff, unreachable, excused>>
    /\ fails' = IF calls[c].at = "second" THEN 0 ELSE fails
    /\ calls' = [calls EXCEPT ![c] = Idle]
    /\ UNCHANGED <<daemons, permanent, window, blamed, mishaps>>

\* 429 of whoever listens, its buckets being empty, or an error of his.
TooMany(c) ==
    /\ InFlight(c)
    /\ ListensAt(port[calls[c].via]) # {}
    /\ mishaps < Mishaps /\ mishaps' = mishaps + 1
    /\ IF calls[c].kind = "tool"
       THEN Fail(c, TRUE) /\ UNCHANGED <<handoff, unreachable, excused>>
       ELSE GiveUp(c, TRUE)
    /\ fails' = IF calls[c].kind = "tool" /\ calls[c].at = "second" THEN 0 ELSE fails
    /\ UNCHANGED <<daemons, permanent, window, blamed>>

\* One second after the window was opened last.
UnreachableEnds ==
    /\ unreachable
    /\ unreachable' = FALSE /\ excused' = FALSE
    /\ UNCHANGED <<daemons, handoff, breaker, calls, mishaps>>

\* Five seconds after the last 401, when what was counted does not matter any more.
WindowEnds ==
    /\ window /\ window' = FALSE
    /\ fails' = 0 /\ blamed' = 0
    /\ UNCHANGED <<daemons, handoff, unreachable, excused, permanent, calls, mishaps>>

Proceed(c) == Unauthorized(c) \/ Wake(c) \/ Thrown(c) \/ Answered(c) \/ TooMany(c)

ShimNext ==
    \/ \E i \in Instances : Listen(i) \/ Publish(i) \/ Drain(i) \/ Gone(i) \/ DaemonCrashes(i)
    \/ \E c \in Calls : Ask(c) \/ Proceed(c)
    \/ UnreachableEnds \/ WindowEnds

\* Every fetch has its timeout, every sleep its timer and every drain its deadline; the
\* window runs out, as the calls it refuses do not open it again.
ShimFairness ==
    /\ WF_shimVars(UnreachableEnds)
    /\ \A c \in Calls : WF_shimVars(Proceed(c))
    /\ \A i \in Instances : WF_shimVars(Gone(i))

ShimSpec == ShimInit /\ [][ShimNext]_shimVars /\ ShimFairness
-----------------------------------------------------------------------------
\* A call that starts while a daemon serves, and during which no daemon comes or goes, does
\* not end in vain for what the shim has cached of older ones: the two ways of finding the
\* handoff again (after a 401, after a lost connection or a first timeout) suffice.  What
\* the code leaves to such a call is a daemon that times out on its second attempt or turns
\* it away (429, !ok); the second after a call that met one of these, or a change of
\* daemons, or none that served; and the breaker.
SteadyIsAnswered == \A c \in Calls :
    calls[c].at \in {"refused", "failed"} /\ calls[c].steady => permanent

\* Whatever a shim has cached, one that goes on being asked ends with the handoff of the
\* daemon that stays.
Recovers ==
    /\ <>[]Steady
    /\ []<><<\E c \in Calls : Ask(c)>>_shimVars
    => <>[](handoff = holder \/ permanent)

\* "Counter resets on instanceId change (daemon respawn rotates token benignly)",
\* daemonBackend.ts:195-196: daemons that are only replaced never trip the breaker.
RespawnIsBenign == ~permanent
=============================================================================
