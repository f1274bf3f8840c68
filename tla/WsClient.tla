------------------------------ MODULE WsClient ------------------------------
(***************************************************************************)
(* The WebSocket client of packages/ext/src/sw/wsClient.ts, which keeps    *)
(* one connection to a daemon through token fetches, closes, delays and    *)
(* revalidations.  Every tab that acquires the client from the pool calls  *)
(* its open() (connPool.ts), so open() may come at any time.  The daemon   *)
(* may close with any code, and the token may fail to come.                *)
(***************************************************************************)
EXTENDS CloseReducer

CONSTANT MaxRevalidating    \* bound of the model: revalidations at a time

ASSUME MaxRevalidatingIsNat == MaxRevalidating \in Nat

VARIABLES
    reducer,
    disposed,       \* close() has been called
    connecting,     \* the guard of connect()
    fetching,       \* connects that await getSessionToken()
    live,           \* WebSockets constructed and not closed
    active,         \* the client holds one
    timer,          \* a reconnect timer is armed
    revalidating,   \* onSessionRevalidate() calls awaited
    resting,        \* history: normally closed, and no attempt since
    opened,         \* history: open() has been called
    immediate       \* history: refetches since the last hello, two for more

flow == <<connecting, fetching, live, active, timer, revalidating>>
vars == <<reducer, disposed, flow, resting, opened, immediate>>

TypeOK ==
    /\ reducer \in ReducerState
    /\ reducer.attempts <= GiveUpCap
    /\ fetching \in Nat /\ live \in Nat /\ revalidating \in Nat
    /\ disposed \in BOOLEAN /\ connecting \in BOOLEAN /\ active \in BOOLEAN
    /\ timer \in BOOLEAN /\ resting \in BOOLEAN /\ opened \in BOOLEAN
    /\ immediate \in 0..2

Init ==
    /\ reducer = Reset
    /\ disposed = FALSE
    /\ connecting = FALSE /\ fetching = 0 /\ live = 0 /\ active = FALSE
    /\ timer = FALSE /\ revalidating = 0
    /\ resting = FALSE /\ opened = FALSE /\ immediate = 0
-----------------------------------------------------------------------------
\* Mutant of Connect: `if (connecting) return` is missing.
ConnectAlways(busy) ==
    /\ connecting' = TRUE
    /\ fetching' = IF disposed THEN fetching ELSE fetching + 1

\* connect() up to its await, with `connecting` = busy.
Connect(busy) ==
    /\ connecting' = (busy \/ ~disposed)
    /\ fetching' = IF disposed \/ busy THEN fetching ELSE fetching + 1

NoConnect(busy) == connecting' = busy /\ UNCHANGED fetching

\* dispatchAction(), with `connecting` = busy.  For "version", agreed tells whether
\* pickHighestSupported() finds one.
Dispatch(result, busy, agreed) ==
    LET a == result.action IN
    /\ reducer' = IF a = "version" /\ ~agreed
                  THEN [result.next EXCEPT !.giveUp = TRUE] ELSE result.next
    /\ timer' = (timer \/ a = "wait")
    /\ resting' = (a = "rest")
    /\ immediate' = IF a = "refetch" /\ immediate < 2 THEN immediate + 1 ELSE immediate
    /\ IF a = "refetch" \/ (a = "version" /\ agreed) THEN Connect(busy) ELSE NoConnect(busy)

\* scheduleFromClose(), for a client that is not disposed.
ScheduleFromClose(code, busy, more) ==
    \E late, agreed \in BOOLEAN :
        LET result == NextState(reducer, code, late) IN
        /\ result.action = "revalidate" => more < MaxRevalidating
        /\ revalidating' = IF result.action = "revalidate" THEN more + 1 ELSE more
        /\ Dispatch(result, busy, agreed)

\* ... which a disposed one skips.
SkipSchedule(busy, more) ==
    /\ NoConnect(busy)
    /\ revalidating' = more
    /\ UNCHANGED <<reducer, timer, resting, immediate>>
-----------------------------------------------------------------------------
Open ==
    /\ Connect(connecting)
    /\ opened' = TRUE
    /\ resting' = FALSE
    /\ UNCHANGED <<reducer, disposed, live, active, timer, revalidating, immediate>>

\* Mutant of TokenComes: `if (disposed) return` after the await is missing.
TokenComesAnyway ==
    /\ fetching > 0 /\ fetching' = fetching - 1
    /\ live' = live + 1 /\ active' = TRUE
    /\ UNCHANGED <<reducer, disposed, connecting, timer, revalidating, resting, opened, immediate>>

\* The token is there: construct the socket, unless close() came in between.
TokenComes ==
    /\ fetching > 0 /\ fetching' = fetching - 1
    /\ \/ disposed /\ UNCHANGED <<live, active>>
       \/ ~disposed /\ live' = live + 1 /\ active' = TRUE
    /\ UNCHANGED <<reducer, disposed, connecting, timer, revalidating, resting, opened, immediate>>

\* The exchange or the constructor fails: as if the connection was lost.
TokenFails ==
    /\ fetching > 0
    /\ active' = FALSE
    /\ fetching' = fetching - 1
    /\ connecting' = FALSE
    /\ \/ disposed /\ UNCHANGED <<reducer, timer, resting>>
       \/ /\ ~disposed
          /\ \E late \in BOOLEAN :
                LET result == NextState(reducer, "lost", late) IN
                /\ reducer' = result.next
                /\ timer' = (timer \/ result.action = "wait")
          /\ resting' = FALSE
    /\ UNCHANGED <<disposed, live, revalidating, opened, immediate>>

\* The first frame of the daemon.  A socket that is being closed still delivers.
Hello ==
    /\ live > 0
    /\ reducer' = Reset
    /\ immediate' = 0
    /\ UNCHANGED <<disposed, flow, resting, opened>>

\* onclose.
SocketCloses(code) ==
    /\ live > 0 /\ live' = live - 1
    /\ active' = FALSE
    /\ \/ disposed /\ SkipSchedule(FALSE, revalidating)
       \/ ~disposed /\ ScheduleFromClose(code, FALSE, revalidating)
    /\ UNCHANGED <<disposed, opened>>

TimerFires ==
    /\ timer /\ timer' = FALSE
    /\ Connect(connecting)
    /\ resting' = FALSE
    /\ UNCHANGED <<reducer, disposed, live, active, revalidating, opened, immediate>>

Revalidated ==
    /\ revalidating > 0 /\ revalidating' = revalidating - 1
    /\ Connect(connecting)
    /\ resting' = FALSE
    /\ UNCHANGED <<reducer, disposed, live, active, timer, opened, immediate>>

\* Mutant of RevalidationFails: the rejection is swallowed.
RevalidationFailsSilently ==
    /\ revalidating > 0
    /\ SkipSchedule(connecting, revalidating - 1)
    /\ UNCHANGED <<disposed, live, active, opened>>

RevalidationFails ==
    /\ revalidating > 0
    /\ \/ disposed /\ SkipSchedule(connecting, revalidating - 1)
       \/ ~disposed /\ ScheduleFromClose("lost", connecting, revalidating - 1)
    /\ UNCHANGED <<disposed, live, active, opened>>

\* close().
Dispose ==
    /\ disposed' = TRUE
    /\ timer' = FALSE
    /\ active' = FALSE
    /\ UNCHANGED <<reducer, connecting, fetching, live, revalidating, resting, opened, immediate>>

Next ==
    \/ Open \/ Dispose
    \/ TokenComes \/ TokenFails \/ Hello
    \/ \E code \in Code : SocketCloses(code)
    \/ TimerFires
    \/ Revalidated \/ RevalidationFails

\* Timers fire and REST calls end, if only by their own timeouts.
Fairness ==
    /\ WF_vars(TokenComes \/ TokenFails)
    /\ WF_vars(TimerFires)
    /\ WF_vars(Revalidated \/ RevalidationFails)

Spec == Init /\ [][Next]_vars

FairSpec == Spec /\ Fairness
-----------------------------------------------------------------------------
(***************************************************************************)
(* Properties.                                                             *)
(***************************************************************************)
\* "At most one WebSocket instance is live at a time", counting the one a token is
\* being fetched for, whoever calls open() and whatever timers and revalidations
\* come together; and the client holds no socket that has closed.
OneConnection ==
    /\ live + fetching <= 1
    /\ ~disposed => connecting = (live + fetching = 1)
    /\ active => live = 1

\* A client that is wanted, has not given up and was not told to rest is never
\* stranded: a socket, a token, a timer or a revalidation will move it on.
NeverStranded ==
    opened /\ ~disposed /\ ~reducer.giveUp /\ ~resting =>
        live > 0 \/ fetching > 0 \/ timer \/ revalidating > 0

\* After close() no socket is constructed and no timer armed, though tokens and
\* revalidations that are under way still come in.
ClosedStaysClosed ==
    [][disposed => /\ live' <= live
                   /\ ~timer'
                   /\ reducer' # reducer => reducer' = Reset]_vars

\* What waits for a token, a delay or a revalidation comes to a connection or an
\* end; the client does not wait in circles.
WaitingEnds ==
    (fetching > 0 \/ timer \/ revalidating > 0) ~>
        (live > 0 \/ reducer.giveUp \/ disposed \/ resting)

\* The extension design caps revalidations "to prevent infinite revalidate-1002
\* loop on misconfigured daemon": one handshake refetch, "final failure -> backoff".
AuthLoopEnds == immediate <= 1
=============================================================================
