--------------------------- MODULE WsClientProofs ---------------------------
(***************************************************************************)
(* Proofs about WsClient for every pair of caps and every number of        *)
(* revalidations at a time.                                                *)
(***************************************************************************)
EXTENDS WsClient, TLAPS

\* Give-up latches before the count of failures passes the cap.
BelowCap == reducer.attempts <= GiveUpCap /\ (~reducer.giveUp => reducer.attempts < GiveUpCap)

\* close() cancels the timer, and nothing arms one after it.
DisposedIsQuiet == disposed => ~timer

IInv ==
    /\ TypeOK
    /\ BelowCap
    /\ OneConnection
    /\ DisposedIsQuiet
    /\ NeverStranded

\* What the reducer returns: a state of its type, and a give-up that is latched.
LEMMA NextStateOK ==
    ASSUME NEW prev \in ReducerState, NEW code \in Code, NEW late \in BOOLEAN,
           prev.attempts <= GiveUpCap, ~prev.giveUp => prev.attempts < GiveUpCap
    PROVE  LET r == NextState(prev, code, late) IN
           /\ r.next \in ReducerState
           /\ r.next.attempts <= GiveUpCap
           /\ ~r.next.giveUp => r.next.attempts < GiveUpCap
           /\ r.action \in {"give-up", "rest", "revalidate", "refetch", "version", "wait"}
           /\ r.action = "give-up" => r.next.giveUp
           /\ code = "lost" => r.action \in {"give-up", "wait"}
<1> DEFINE r == NextState(prev, code, late)
<1>0. GiveUpCap \in Nat \ {0} /\ RevalidateCap \in Nat \ {0}
  BY CapsArePositive
<1>1. CASE prev.giveUp
  <2>1. r = Result("give-up", prev)
    BY <1>1 DEF NextState
  <2> QED BY <1>1, <2>1 DEF Result
<1>2. CASE ~prev.giveUp /\ code = "normal"
  <2>1. r = Result("rest", prev)
    BY <1>2 DEF NextState
  <2> QED BY <1>2, <2>1 DEF Result
<1>3. CASE ~prev.giveUp /\ code = "final"
  <2>1. r = Result("give-up", [prev EXCEPT !.giveUp = TRUE])
    BY <1>3 DEF NextState
  <2> DEFINE latched == [prev EXCEPT !.giveUp = TRUE]
  <2>2. latched \in ReducerState /\ latched.attempts = prev.attempts /\ latched.giveUp
    BY DEF ReducerState
  <2>3. r = Result("give-up", latched)
    BY <2>1
  <2> HIDE DEF latched, r
  <2>4. r.action = "give-up" /\ r.next = latched
    BY <2>3 DEF Result
  <2> QED BY <1>3, <2>2, <2>4 DEF r
<1>4. CASE ~prev.giveUp /\ code = "auth"
  <2>1. r = OnAuth(prev)
    BY <1>4 DEF NextState
  <2> DEFINE more == [prev EXCEPT !.revalidations = @ + 1]
             over == [prev EXCEPT !.revalidations = 0]
  <2>2. prev.revalidations < RevalidateCap => more \in ReducerState
    BY <1>0 DEF ReducerState
  <2>3. over \in ReducerState
    BY <1>0 DEF ReducerState
  <2>4. /\ more.attempts = prev.attempts /\ more.giveUp = prev.giveUp
        /\ over.attempts = prev.attempts /\ over.giveUp = prev.giveUp
    BY DEF ReducerState
  <2>5. IF prev.revalidations < RevalidateCap
        THEN r = Result("revalidate", more) ELSE r = Result("refetch", over)
    BY <2>1 DEF OnAuth
  <2> HIDE DEF more, over
  <2> QED BY <1>4, <2>2, <2>3, <2>4, <2>5 DEF Result
<1>5. CASE ~prev.giveUp /\ code = "version"
  <2>1. r = Result("version", prev)
    BY <1>5 DEF NextState
  <2> QED BY <1>5, <2>1 DEF Result
<1>6. CASE ~prev.giveUp /\ code = "restart"
  <2>1. r = Result("wait", prev)
    BY <1>6 DEF NextState
  <2> QED BY <1>6, <2>1 DEF Result
<1>7. CASE ~prev.giveUp /\ code = "lost"
  <2> DEFINE n == prev.attempts + 1
             over == n >= GiveUpCap \/ (prev.failing /\ late)
             next == [prev EXCEPT !.attempts = n, !.failing = TRUE, !.giveUp = over]
  <2>1. r = Result(IF over THEN "give-up" ELSE "wait", next)
    BY <1>7 DEF NextState, OnLost
  <2>2. next \in ReducerState /\ next.attempts = n /\ next.giveUp = over
    <3>1. over \in BOOLEAN /\ n \in Nat
      BY DEF ReducerState
    <3> HIDE DEF over, n
    <3> QED BY <3>1 DEF ReducerState
  <2>3. n <= GiveUpCap /\ (~over => n < GiveUpCap)
    BY <1>0, <1>7 DEF ReducerState
  <2> HIDE DEF over, next, n
  <2> QED BY <1>7, <2>1, <2>2, <2>3 DEF Result
<1> QED BY <1>1, <1>2, <1>3, <1>4, <1>5, <1>6, <1>7 DEF Code

LEMMA ResetOK == Reset \in ReducerState /\ Reset.attempts < GiveUpCap /\ ~Reset.giveUp
BY CapsArePositive DEF Reset, ReducerState

LEMMA InitIInv == Init => IInv
<1> SUFFICES ASSUME Init PROVE IInv
  OBVIOUS
<1>1. reducer = Reset /\ reducer \in ReducerState
  BY ResetOK DEF Init
<1>2. BelowCap
  <2>1. Reset.attempts \in Nat /\ GiveUpCap \in Nat
    BY ResetOK, CapsArePositive DEF ReducerState
  <2> QED BY <1>1, <2>1, ResetOK DEF BelowCap
<1>3. fetching \in Nat /\ live \in Nat /\ revalidating \in Nat /\ immediate \in 0..2
      /\ live + fetching = 0
  BY DEF Init
<1>4. TypeOK
  BY <1>1, <1>2, <1>3, Zenon DEF Init, TypeOK, BelowCap
<1>5. OneConnection
  <2>1. live + fetching <= 1 /\ live + fetching # 1
    BY <1>3
  <2> QED BY <2>1, Zenon DEF Init, OneConnection
<1>6. DisposedIsQuiet /\ NeverStranded
  BY Zenon DEF Init, DisposedIsQuiet, NeverStranded
<1> QED BY <1>2, <1>4, <1>5, <1>6 DEF IInv

LEMMA OneOfTwo == ASSUME NEW a \in Nat, NEW b \in Nat, a + b = 1 PROVE a > 0 \/ b > 0
OBVIOUS

\* connect() keeps one connection at most, and gives an idle client one.
LEMMA ConnectOK ==
    ASSUME TypeOK, OneConnection, NEW busy \in BOOLEAN, Connect(busy), UNCHANGED disposed,
           NEW n \in Nat, n + fetching <= 1, ~disposed => (busy <=> n + fetching = 1)
    PROVE  /\ fetching' \in Nat /\ connecting' \in BOOLEAN
           /\ n + fetching' <= 1
           /\ ~disposed => connecting' /\ n + fetching' = 1
           /\ disposed => fetching' = fetching
<1>1. CASE disposed
  <2>1. fetching' = fetching /\ connecting' = (busy \/ ~disposed)
    BY <1>1, Zenon DEF Connect
  <2> QED BY <1>1, <2>1 DEF TypeOK
<1>2. CASE ~disposed /\ busy
  <2>1. fetching' = fetching /\ connecting' = (busy \/ ~disposed)
    BY <1>2, Zenon DEF Connect
  <2> QED BY <1>2, <2>1 DEF TypeOK
<1>3. CASE ~disposed /\ ~busy
  <2>1. fetching' = fetching + 1 /\ connecting' /\ connecting' \in BOOLEAN
    BY <1>3, Zenon DEF Connect
  <2>2. n + fetching # 1
    BY <1>3, Zenon
  <2>3. fetching \in Nat
    BY DEF TypeOK
  <2>4. n + fetching' = 1 /\ fetching' \in Nat
    BY <2>1, <2>2, <2>3
  <2> QED BY <1>3, <2>1, <2>4
<1> QED BY <1>1, <1>2, <1>3

\* A close of any kind, or a failed revalidation, decided by the reducer: whatever it
\* decides leaves a way on, or a state that is an end.
LEMMA ScheduleOK ==
    ASSUME IInv, NEW code \in Code, NEW busy \in BOOLEAN, NEW more \in Nat, NEW n \in Nat,
           ~disposed, UNCHANGED disposed, ScheduleFromClose(code, busy, more),
           n + fetching <= 1, busy <=> n + fetching = 1
    PROVE  /\ reducer' \in ReducerState /\ BelowCap'
           /\ fetching' \in Nat /\ connecting' \in BOOLEAN /\ timer' \in BOOLEAN
           /\ revalidating' \in Nat /\ resting' \in BOOLEAN /\ immediate' \in 0..2
           /\ n + fetching' <= 1 /\ (connecting' <=> n + fetching' = 1)
           /\ ~reducer'.giveUp /\ ~resting' => timer' \/ revalidating' > 0 \/ n + fetching' = 1
<1>0. /\ TypeOK /\ OneConnection /\ fetching \in Nat /\ timer \in BOOLEAN /\ immediate \in 0..2
      /\ reducer \in ReducerState /\ reducer.attempts <= GiveUpCap
      /\ ~reducer.giveUp => reducer.attempts < GiveUpCap
  BY DEF IInv, TypeOK, BelowCap
<1>1. PICK late \in BOOLEAN, agreed \in BOOLEAN :
        LET result == NextState(reducer, code, late) IN
        /\ revalidating' = IF result.action = "revalidate" THEN more + 1 ELSE more
        /\ Dispatch(result, busy, agreed)
  BY DEF ScheduleFromClose
<1> DEFINE result == NextState(reducer, code, late)
           a == result.action
<1>2. /\ result.next \in ReducerState
      /\ result.next.attempts <= GiveUpCap
      /\ ~result.next.giveUp => result.next.attempts < GiveUpCap
      /\ a \in {"give-up", "rest", "revalidate", "refetch", "version", "wait"}
      /\ a = "give-up" => result.next.giveUp
  BY <1>0, NextStateOK
<1>3. /\ reducer' = IF a = "version" /\ ~agreed
                    THEN [result.next EXCEPT !.giveUp = TRUE] ELSE result.next
      /\ timer' = (timer \/ a = "wait")
      /\ resting' = (a = "rest")
      /\ immediate' = IF a = "refetch" /\ immediate < 2 THEN immediate + 1 ELSE immediate
      /\ IF a = "refetch" \/ (a = "version" /\ agreed) THEN Connect(busy) ELSE NoConnect(busy)
      /\ revalidating' = IF a = "revalidate" THEN more + 1 ELSE more
  BY <1>1 DEF Dispatch
<1> HIDE DEF result, a
<1>4. /\ reducer' \in ReducerState /\ BelowCap'
      /\ a = "give-up" \/ (a = "version" /\ ~agreed) => reducer'.giveUp
  <2>1. CASE a = "version" /\ ~agreed
    <3>1. reducer' = [result.next EXCEPT !.giveUp = TRUE]
      BY <1>3, <2>1
    <3>2. reducer' \in ReducerState /\ reducer'.giveUp /\ reducer'.attempts = result.next.attempts
      BY <1>2, <3>1 DEF ReducerState
    <3> QED BY <1>2, <3>2 DEF BelowCap
  <2>2. CASE ~(a = "version" /\ ~agreed)
    <3>1. reducer' = result.next
      BY <1>3, <2>2
    <3> QED BY <1>2, <2>2, <3>1 DEF BelowCap, a
  <2> QED BY <2>1, <2>2
<1>5. timer' \in BOOLEAN /\ resting' \in BOOLEAN
  BY <1>3, Zenon
<1>6. revalidating' \in Nat /\ immediate' \in 0..2
  BY <1>0, <1>3
<1>7. CASE a = "refetch" \/ (a = "version" /\ agreed)
  <2>1. Connect(busy)
    BY <1>3, <1>7
  <2>2. /\ fetching' \in Nat /\ connecting' \in BOOLEAN /\ connecting'
        /\ n + fetching' = 1 /\ n + fetching' <= 1
    BY <1>0, <2>1, ConnectOK
  <2>3. n + fetching' <= 1
    BY <2>2, Zenon
  <2>4. connecting' <=> n + fetching' = 1
    BY <2>2, Zenon
  <2>5. fetching' \in Nat /\ connecting' \in BOOLEAN
    BY <2>2
  <2>6. ~reducer'.giveUp /\ ~resting' => timer' \/ revalidating' > 0 \/ n + fetching' = 1
    BY <2>2, Zenon
  <2> QED BY <1>4, <1>5, <1>6, <2>3, <2>4, <2>5, <2>6, Zenon
<1>8. CASE ~(a = "refetch" \/ (a = "version" /\ agreed))
  <2>1. NoConnect(busy)
    BY <1>3, <1>8
  <2>2. connecting' = busy /\ fetching' = fetching
    BY <2>1 DEF NoConnect
  <2>3. a = "wait" => timer'
    BY <1>3, Zenon
  <2>4. a = "rest" => resting'
    BY <1>3, Zenon
  <2>5. a = "revalidate" => revalidating' > 0
    BY <1>3
  <2>6. ~reducer'.giveUp /\ ~resting' => timer' \/ revalidating' > 0
    BY <1>2, <1>4, <1>8, <2>3, <2>4, <2>5
  <2>7. fetching' \in Nat /\ connecting' \in BOOLEAN
        /\ n + fetching' <= 1 /\ (connecting' <=> n + fetching' = 1)
    BY <1>0, <2>2
  <2> QED BY <1>4, <1>5, <1>6, <2>6, <2>7
<1> QED BY <1>7, <1>8

\* A step that changes neither the reducer nor the history, but for the numbers in play.
LEMMA MoveOK ==
    ASSUME IInv, UNCHANGED <<reducer, disposed, immediate>>,
           fetching' \in Nat, live' \in Nat, revalidating' \in Nat,
           connecting' \in BOOLEAN, active' \in BOOLEAN, timer' \in BOOLEAN,
           resting' \in BOOLEAN, opened' \in BOOLEAN,
           live' + fetching' <= 1,
           ~disposed => (connecting' <=> live' + fetching' = 1),
           active' => live' = 1,
           disposed => ~timer',
           opened' /\ ~disposed /\ ~reducer.giveUp /\ ~resting' =>
              live' > 0 \/ fetching' > 0 \/ timer' \/ revalidating' > 0
    PROVE  IInv'
<1>1. TypeOK' /\ BelowCap'
  BY DEF IInv, TypeOK, BelowCap
<1>2. OneConnection'
  BY Zenon DEF OneConnection
<1>3. DisposedIsQuiet' /\ NeverStranded'
  BY Zenon DEF DisposedIsQuiet, NeverStranded
<1> QED BY <1>1, <1>2, <1>3 DEF IInv

\* A step that leads to a call of connect(), with nothing else under way being lost.
LEMMA ReconnectIInv ==
    ASSUME IInv, Connect(connecting), UNCHANGED <<reducer, disposed, live, active, immediate>>,
           ~resting', opened' \in BOOLEAN, timer' \in BOOLEAN, timer' => timer,
           resting' \in BOOLEAN, revalidating' \in Nat
    PROVE  IInv'
<1>0. /\ TypeOK /\ OneConnection /\ live \in Nat /\ fetching \in Nat /\ connecting \in BOOLEAN
      /\ live + fetching <= 1
  BY DEF IInv, TypeOK, OneConnection
<1>1. ~disposed => (connecting <=> live + fetching = 1)
  BY <1>0, Zenon DEF OneConnection
<1>2. /\ fetching' \in Nat /\ connecting' \in BOOLEAN /\ live + fetching' <= 1
      /\ ~disposed => connecting' /\ live + fetching' = 1
  BY <1>0, <1>1, ConnectOK
<1>3. live' \in Nat /\ active' \in BOOLEAN /\ (active' => live' = 1) /\ live' = live
  BY <1>0 DEF IInv, TypeOK, OneConnection
<1>4. disposed => ~timer'
  BY DEF IInv, DisposedIsQuiet
<1>5. live + fetching' = 1 => live > 0 \/ fetching' > 0
  BY <1>0, <1>2, OneOfTwo, Zenon
<1>6. live' + fetching' <= 1
  BY <1>2, <1>3
<1>7. ~disposed => (connecting' <=> live' + fetching' = 1)
  BY <1>2, <1>3, Zenon
<1>8. opened' /\ ~disposed /\ ~reducer.giveUp /\ ~resting' =>
              live' > 0 \/ fetching' > 0 \/ timer' \/ revalidating' > 0
  BY <1>2, <1>3, <1>5, Zenon
<1> QED BY <1>2, <1>3, <1>4, <1>6, <1>7, <1>8, MoveOK

\* The token, or close() that made it useless.
LEMMA TokenComesIInv == ASSUME IInv, TokenComes PROVE IInv'
<1>0. /\ TypeOK /\ OneConnection /\ live \in Nat /\ fetching \in Nat /\ live + fetching <= 1
      /\ fetching > 0
  BY DEF IInv, TypeOK, OneConnection, TokenComes
<1>1. live = 0 /\ fetching = 1 /\ fetching' = 0
  BY <1>0 DEF TokenComes
<1>2. ~active
  BY <1>0, <1>1 DEF OneConnection
<1>3. /\ UNCHANGED <<reducer, disposed, connecting, timer, revalidating, resting, opened,
                     immediate>>
      /\ \/ disposed /\ UNCHANGED <<live, active>>
         \/ ~disposed /\ live' = live + 1 /\ active' = TRUE
  BY DEF TokenComes
<1>4. CASE disposed /\ UNCHANGED <<live, active>>
  <2>1. live' = 0 /\ live' + fetching' <= 1 /\ ~active' /\ fetching' \in Nat /\ live' \in Nat
    BY <1>1, <1>2, <1>4
  <2>2. active' \in BOOLEAN
    BY <1>0, <1>4 DEF TypeOK
  <2> QED BY <1>0, <1>3, <1>4, <2>1, <2>2, MoveOK DEF TypeOK, IInv, DisposedIsQuiet
<1>5. CASE ~disposed /\ live' = live + 1 /\ active' = TRUE
  <2>1. live' = 1 /\ live' + fetching' = 1 /\ live' + fetching' <= 1 /\ live' > 0
        /\ fetching' \in Nat /\ live' \in Nat
    BY <1>1, <1>5
  <2>2. connecting'
    <3>1. live + fetching = 1
      BY <1>1
    <3> QED BY <1>0, <1>3, <1>5, <3>1, Zenon DEF OneConnection
  <2>3. active' \in BOOLEAN
    BY <1>5
  <2> QED BY <1>0, <1>3, <1>5, <2>1, <2>2, <2>3, MoveOK DEF TypeOK
<1> QED BY <1>3, <1>4, <1>5

\* The invariant after a step, fact by fact.
LEMMA Assemble ==
    ASSUME reducer' \in ReducerState, BelowCap',
           fetching' \in Nat, live' \in Nat, revalidating' \in Nat, immediate' \in 0..2,
           disposed' \in BOOLEAN, connecting' \in BOOLEAN, active' \in BOOLEAN,
           timer' \in BOOLEAN, resting' \in BOOLEAN, opened' \in BOOLEAN,
           live' + fetching' <= 1,
           ~disposed' => (connecting' <=> live' + fetching' = 1),
           active' => live' = 1,
           disposed' => ~timer',
           opened' /\ ~disposed' /\ ~reducer'.giveUp /\ ~resting' =>
              live' > 0 \/ fetching' > 0 \/ timer' \/ revalidating' > 0
    PROVE  IInv'
<1>1. TypeOK' /\ OneConnection' /\ DisposedIsQuiet' /\ NeverStranded'
  BY Zenon DEF TypeOK, BelowCap, OneConnection, DisposedIsQuiet, NeverStranded
<1> QED BY <1>1 DEF IInv

\* A step of a disposed client that is not about a timer or a new connection.
LEMMA DisposedIInv ==
    ASSUME IInv, disposed', reducer' \in ReducerState, BelowCap', immediate' \in 0..2,
           fetching' \in Nat, live' \in Nat, revalidating' \in Nat,
           disposed' \in BOOLEAN, connecting' \in BOOLEAN, resting' \in BOOLEAN,
           opened' \in BOOLEAN, live' + fetching' <= 1, ~active', active' \in BOOLEAN,
           ~timer', timer' \in BOOLEAN
    PROVE  IInv'
BY Assemble, Zenon

\* close().
LEMMA DisposeIInv == ASSUME IInv, Dispose PROVE IInv'
<1>1. /\ UNCHANGED <<reducer, connecting, fetching, live, revalidating, resting, opened, immediate>>
      /\ disposed' /\ ~timer' /\ ~active'
      /\ disposed' \in BOOLEAN /\ timer' \in BOOLEAN /\ active' \in BOOLEAN
  BY Zenon DEF Dispose
<1>2. /\ reducer' \in ReducerState /\ BelowCap' /\ immediate' \in 0..2
      /\ fetching' \in Nat /\ live' \in Nat /\ revalidating' \in Nat
      /\ connecting' \in BOOLEAN /\ resting' \in BOOLEAN /\ opened' \in BOOLEAN
      /\ live' + fetching' <= 1
  BY <1>1 DEF IInv, TypeOK, BelowCap, OneConnection
<1> QED BY <1>1, <1>2, DisposedIInv

\* The hello.
LEMMA HelloIInv == ASSUME IInv, Hello PROVE IInv'
<1>1. /\ reducer' = Reset /\ immediate' = 0 /\ live > 0
      /\ UNCHANGED <<disposed, connecting, fetching, live, active, timer, revalidating, resting,
                     opened>>
  BY DEF Hello, flow
<1>2. reducer' \in ReducerState /\ BelowCap' /\ immediate' \in 0..2
  <2>1. Reset.attempts \in Nat /\ GiveUpCap \in Nat
    BY ResetOK, CapsArePositive DEF ReducerState
  <2> QED BY <1>1, <2>1, ResetOK DEF BelowCap
<1>3. /\ TypeOK /\ OneConnection /\ DisposedIsQuiet
  BY DEF IInv
<1>4. live' > 0 /\ live' + fetching' <= 1
  BY <1>1, <1>3 DEF OneConnection
<1>5. /\ fetching' \in Nat /\ live' \in Nat /\ revalidating' \in Nat
      /\ disposed' \in BOOLEAN /\ connecting' \in BOOLEAN /\ active' \in BOOLEAN
      /\ timer' \in BOOLEAN /\ resting' \in BOOLEAN /\ opened' \in BOOLEAN
  BY <1>1, <1>3 DEF TypeOK
<1>6. /\ ~disposed' => (connecting' <=> live' + fetching' = 1)
      /\ active' => live' = 1
      /\ disposed' => ~timer'
  BY <1>1, <1>3, Zenon DEF OneConnection, DisposedIsQuiet
<1> QED BY <1>2, <1>4, <1>5, <1>6, Assemble

\* A connection that is over: the reducer decides what comes next.
LEMMA SocketClosesIInv == ASSUME IInv, NEW code \in Code, SocketCloses(code) PROVE IInv'
<1>0. /\ TypeOK /\ OneConnection /\ live \in Nat /\ fetching \in Nat /\ revalidating \in Nat
      /\ disposed \in BOOLEAN /\ opened \in BOOLEAN
  BY DEF IInv, TypeOK
<1>1. /\ live > 0 /\ live' = live - 1 /\ ~active' /\ active' \in BOOLEAN
      /\ UNCHANGED <<disposed, opened>>
  BY Zenon DEF SocketCloses
<1>2. live' = 0 /\ fetching = 0 /\ live' \in Nat
  BY <1>0, <1>1 DEF OneConnection
<1>3. CASE disposed
  <2>1. SkipSchedule(FALSE, revalidating)
    BY <1>3, Zenon DEF SocketCloses
  <2>2. /\ connecting' = FALSE
        /\ UNCHANGED <<fetching, revalidating, reducer, timer, resting, immediate>>
    BY <2>1 DEF SkipSchedule, NoConnect
  <2>3. /\ reducer' \in ReducerState /\ BelowCap' /\ immediate' \in 0..2
        /\ fetching' \in Nat /\ revalidating' \in Nat
        /\ timer' \in BOOLEAN /\ resting' \in BOOLEAN /\ live' + fetching' <= 1
    BY <1>0, <1>2, <2>2 DEF IInv, TypeOK, BelowCap
  <2>4. connecting' \in BOOLEAN /\ ~timer'
    BY <1>3, <2>2, Zenon DEF IInv, DisposedIsQuiet
  <2> QED BY <1>0, <1>1, <1>2, <1>3, <2>3, <2>4, DisposedIInv
<1>4. CASE ~disposed
  <2>1. ScheduleFromClose(code, FALSE, revalidating)
    BY <1>4, Zenon DEF SocketCloses
  <2>2. /\ live' + fetching <= 1 /\ (FALSE <=> live' + fetching = 1)
    BY <1>2
  <2>3. /\ reducer' \in ReducerState /\ BelowCap'
        /\ fetching' \in Nat /\ connecting' \in BOOLEAN /\ timer' \in BOOLEAN
        /\ revalidating' \in Nat /\ resting' \in BOOLEAN /\ immediate' \in 0..2
        /\ live' + fetching' <= 1 /\ (connecting' <=> live' + fetching' = 1)
        /\ ~reducer'.giveUp /\ ~resting' => timer' \/ revalidating' > 0 \/ live' + fetching' = 1
    BY <1>0, <1>1, <1>2, <1>4, <2>1, <2>2, ScheduleOK
  <2>4. live' + fetching' = 1 => live' > 0 \/ fetching' > 0
    BY <1>2, <2>3, OneOfTwo, Zenon
  <2>5. ~reducer'.giveUp /\ ~resting' => live' > 0 \/ fetching' > 0 \/ timer' \/ revalidating' > 0
    BY <2>3, <2>4, Zenon
  <2>6. ~disposed' /\ disposed' \in BOOLEAN /\ opened' \in BOOLEAN
    BY <1>0, <1>1, <1>4
  <2> QED BY <1>1, <1>2, <2>3, <2>5, <2>6, Assemble, Zenon
<1> QED BY <1>3, <1>4

\* A token that does not come: the count of failures decides between a delay and an end.
LEMMA TokenFailsIInv == ASSUME IInv, TokenFails PROVE IInv'
<1>0. /\ TypeOK /\ OneConnection /\ live \in Nat /\ fetching \in Nat /\ revalidating \in Nat
      /\ disposed \in BOOLEAN /\ opened \in BOOLEAN /\ timer \in BOOLEAN /\ immediate \in 0..2
      /\ reducer \in ReducerState /\ reducer.attempts <= GiveUpCap
      /\ ~reducer.giveUp => reducer.attempts < GiveUpCap
  BY DEF IInv, TypeOK, BelowCap
<1>1. /\ fetching > 0 /\ fetching' = fetching - 1
      /\ ~active' /\ active' \in BOOLEAN /\ ~connecting' /\ connecting' \in BOOLEAN
      /\ UNCHANGED <<disposed, live, revalidating, opened, immediate>>
  BY Zenon DEF TokenFails
<1>2. live' = 0 /\ fetching' = 0 /\ live' + fetching' <= 1 /\ live' + fetching' # 1
      /\ live' \in Nat /\ fetching' \in Nat
  BY <1>0, <1>1 DEF OneConnection
<1>3. /\ revalidating' \in Nat /\ disposed' \in BOOLEAN /\ opened' \in BOOLEAN
      /\ immediate' \in 0..2
  BY <1>0, <1>1
<1>4. CASE disposed
  <2>1. UNCHANGED <<reducer, timer, resting>>
    BY <1>4, Zenon DEF TokenFails
  <2>2. /\ reducer' \in ReducerState /\ BelowCap'
        /\ timer' \in BOOLEAN /\ resting' \in BOOLEAN
    BY <1>0, <2>1 DEF IInv, TypeOK, BelowCap
  <2>3. ~timer' /\ disposed'
    BY <1>1, <1>4, <2>1, Zenon DEF IInv, DisposedIsQuiet
  <2> QED BY <1>1, <1>2, <1>3, <2>2, <2>3, DisposedIInv
<1>5. CASE ~disposed
  <2>1. PICK late \in BOOLEAN :
          LET result == NextState(reducer, "lost", late) IN
          /\ reducer' = result.next
          /\ timer' = (timer \/ result.action = "wait")
    BY <1>5, Zenon DEF TokenFails
  <2> DEFINE result == NextState(reducer, "lost", late)
  <2>2. ~resting' /\ resting' \in BOOLEAN
    BY <1>5, Zenon DEF TokenFails
  <2>3. /\ result.next \in ReducerState /\ result.next.attempts <= GiveUpCap
        /\ ~result.next.giveUp => result.next.attempts < GiveUpCap
        /\ result.action = "give-up" => result.next.giveUp
        /\ result.action \in {"give-up", "wait"}
    BY <1>0, NextStateOK DEF Code
  <2>4. reducer' = result.next /\ timer' = (timer \/ result.action = "wait")
    BY <2>1
  <2> HIDE DEF result
  <2>5. reducer' \in ReducerState /\ BelowCap'
    BY <2>3, <2>4 DEF BelowCap
  <2>6. timer' \in BOOLEAN /\ (~reducer'.giveUp => timer')
    BY <2>3, <2>4, Zenon
  <2>7. ~disposed'
    BY <1>1, <1>5
  <2> QED BY <1>1, <1>2, <1>3, <2>2, <2>5, <2>6, <2>7, Assemble, Zenon
<1> QED BY <1>4, <1>5

\* A revalidation that fails counts as a lost connection, whatever else is under way.
LEMMA RevalidationFailsIInv == ASSUME IInv, RevalidationFails PROVE IInv'
<1>0. /\ TypeOK /\ OneConnection /\ live \in Nat /\ fetching \in Nat /\ revalidating \in Nat
      /\ disposed \in BOOLEAN /\ opened \in BOOLEAN /\ connecting \in BOOLEAN
      /\ live + fetching <= 1
  BY DEF IInv, TypeOK, OneConnection
<1>1. /\ revalidating > 0
      /\ UNCHANGED <<disposed, live, active, opened>>
  BY DEF RevalidationFails
<1>2. revalidating - 1 \in Nat
  BY <1>0, <1>1
<1>3. /\ live' \in Nat /\ disposed' \in BOOLEAN /\ opened' \in BOOLEAN /\ active' \in BOOLEAN
      /\ live' = live
  BY <1>0, <1>1 DEF TypeOK
<1>4. CASE disposed
  <2>1. SkipSchedule(connecting, revalidating - 1)
    BY <1>4, Zenon DEF RevalidationFails
  <2>2. /\ connecting' = connecting /\ revalidating' = revalidating - 1
        /\ UNCHANGED <<fetching, reducer, timer, resting, immediate>>
    BY <2>1 DEF SkipSchedule, NoConnect
  <2>3. revalidating' \in Nat
    BY <1>2, <2>2
  <2>4. /\ reducer' \in ReducerState /\ BelowCap' /\ immediate' \in 0..2
        /\ fetching' \in Nat /\ connecting' \in BOOLEAN
        /\ timer' \in BOOLEAN /\ resting' \in BOOLEAN
    BY <1>0, <2>2 DEF IInv, TypeOK, BelowCap
  <2>5. live' + fetching' <= 1
    BY <1>0, <1>3, <2>2
  <2>6. /\ ~disposed' => (connecting' <=> live' + fetching' = 1)
        /\ active' => live' = 1
        /\ disposed' => ~timer'
        /\ disposed'
    BY <1>0, <1>1, <1>4, <2>2, Zenon DEF OneConnection, IInv, DisposedIsQuiet
  <2> QED BY <1>3, <2>3, <2>4, <2>5, <2>6, Assemble, Zenon
<1>5. CASE ~disposed
  <2>1. ScheduleFromClose("lost", connecting, revalidating - 1)
    BY <1>5, Zenon DEF RevalidationFails
  <2>2. connecting <=> live + fetching = 1
    BY <1>0, <1>5, Zenon DEF OneConnection
  <2>3. /\ reducer' \in ReducerState /\ BelowCap'
        /\ fetching' \in Nat /\ connecting' \in BOOLEAN /\ timer' \in BOOLEAN
        /\ revalidating' \in Nat /\ resting' \in BOOLEAN /\ immediate' \in 0..2
        /\ live + fetching' <= 1 /\ (connecting' <=> live + fetching' = 1)
        /\ ~reducer'.giveUp /\ ~resting' => timer' \/ revalidating' > 0 \/ live + fetching' = 1
    BY <1>0, <1>1, <1>2, <1>5, <2>1, <2>2, ScheduleOK DEF Code
  <2>4. live + fetching' = 1 => live > 0 \/ fetching' > 0
    BY <1>0, <2>3, OneOfTwo, Zenon
  <2>5. ~reducer'.giveUp /\ ~resting' => live' > 0 \/ fetching' > 0 \/ timer' \/ revalidating' > 0
    BY <1>3, <2>3, <2>4, Zenon
  <2>6. ~disposed' /\ (active' => live' = 1)
    BY <1>0, <1>1, <1>5, Zenon DEF OneConnection
  <2>7. live' + fetching' <= 1 /\ (connecting' <=> live' + fetching' = 1)
    BY <1>3, <2>3, Zenon
  <2> QED BY <1>3, <2>3, <2>5, <2>6, <2>7, Assemble, Zenon
<1> QED BY <1>4, <1>5

LEMMA NextIInv == IInv /\ [Next]_vars => IInv'
<1> SUFFICES ASSUME IInv, [Next]_vars PROVE IInv'
  OBVIOUS
<1>0. /\ timer \in BOOLEAN /\ opened \in BOOLEAN /\ revalidating \in Nat
  BY DEF IInv, TypeOK
<1>1. CASE Open
  <2>1. /\ Connect(connecting) /\ UNCHANGED <<reducer, disposed, live, active, immediate>>
        /\ opened' \in BOOLEAN /\ resting' \in BOOLEAN /\ ~resting'
        /\ timer' = timer /\ revalidating' = revalidating
    BY <1>1, Zenon DEF Open
  <2>2. timer' \in BOOLEAN /\ (timer' => timer) /\ revalidating' \in Nat
    BY <1>0, <2>1
  <2> QED BY <2>1, <2>2, ReconnectIInv
<1>2. CASE TimerFires
  <2>1. /\ Connect(connecting) /\ UNCHANGED <<reducer, disposed, live, active, immediate>>
        /\ ~timer' /\ timer' \in BOOLEAN /\ resting' \in BOOLEAN /\ ~resting'
        /\ opened' = opened /\ revalidating' = revalidating
    BY <1>2, Zenon DEF TimerFires
  <2>2. opened' \in BOOLEAN /\ revalidating' \in Nat
    BY <1>0, <2>1
  <2> QED BY <2>1, <2>2, ReconnectIInv
<1>3. CASE Revalidated
  <2>1. /\ Connect(connecting) /\ UNCHANGED <<reducer, disposed, live, active, immediate>>
        /\ resting' \in BOOLEAN /\ ~resting' /\ opened' = opened /\ timer' = timer
        /\ revalidating > 0 /\ revalidating' = revalidating - 1
    BY <1>3, Zenon DEF Revalidated
  <2>2. revalidating' \in Nat
    BY <1>0, <2>1
  <2>3. opened' \in BOOLEAN /\ timer' \in BOOLEAN /\ (timer' => timer)
    BY <1>0, <2>1
  <2> QED BY <2>1, <2>2, <2>3, ReconnectIInv
<1>4. CASE UNCHANGED vars
  BY <1>4, Zenon
  DEF vars, flow, IInv, TypeOK, BelowCap, OneConnection, DisposedIsQuiet, NeverStranded
<1> QED BY <1>1, <1>2, <1>3, <1>4, DisposeIInv, TokenComesIInv, TokenFailsIInv, HelloIInv,
          SocketClosesIInv, RevalidationFailsIInv DEF Next

\* Every state of the client satisfies the inductive invariant.
LEMMA InvariantHolds == Spec => []IInv
BY InitIInv, NextIInv, PTL DEF Spec

\* Every variable keeps its type, and failures are never counted past the cap.
THEOREM TypeCorrect == Spec => []TypeOK
BY InvariantHolds, PTL DEF IInv

\* However many tabs, timers and revalidations open it, the client has one connection.
THEOREM HasOneConnection == Spec => []OneConnection
BY InvariantHolds, PTL DEF IInv

\* The client that is wanted always has something that will move it on.
THEOREM IsNeverStranded == Spec => []NeverStranded
BY InvariantHolds, PTL DEF IInv

\* After close() nothing is constructed or armed, whatever was under way.
THEOREM ClosedForGood == Spec => ClosedStaysClosed
<1>1. IInv /\ [Next]_vars =>
        [disposed => /\ live' <= live
                     /\ ~timer'
                     /\ reducer' # reducer => reducer' = Reset]_vars
  <2> SUFFICES ASSUME IInv, Next, disposed
               PROVE  live' <= live /\ ~timer' /\ (reducer' # reducer => reducer' = Reset)
    OBVIOUS
  <2>1. live \in Nat /\ ~timer
    BY DEF IInv, TypeOK, DisposedIsQuiet
  <2>2. live' = live \/ live' = live - 1
    BY Zenon DEF Next, Open, Dispose, TokenComes, TokenFails, Hello, SocketCloses, TimerFires,
                 Revalidated, RevalidationFails, flow
  <2>3. ~timer'
    BY <2>1, Zenon DEF Next, Open, Dispose, TokenComes, TokenFails, Hello, SocketCloses,
                 TimerFires, Revalidated, RevalidationFails, SkipSchedule, flow
  <2>4. reducer' = reducer \/ reducer' = Reset
    BY Zenon DEF Next, Open, Dispose, TokenComes, TokenFails, Hello, SocketCloses, TimerFires,
                 Revalidated, RevalidationFails, SkipSchedule, flow
  <2>5. live' <= live
    BY <2>1, <2>2
  <2> QED BY <2>3, <2>4, <2>5
<1> QED BY InvariantHolds, <1>1, PTL DEF Spec, ClosedStaysClosed
=============================================================================
