--------------------------- MODULE SessionsProofs ---------------------------
(***************************************************************************)
(* Proofs about Sessions for every set of extensions, nonces and requests, *)
(* every value of the options and every bound.                             *)
(***************************************************************************)
EXTENDS Sessions, FiniteSetTheorems, TLAPS

\* No session is from the future.
HistoryOK ==
    \A t \in Tokens : /\ issued[t].life <= life
                      /\ issued[t].life = life => issued[t].era <= era

\* The daemon remembers the nonce of every session of this life and era.
NoncesKept ==
    \A t \in Tokens :
        issued[t].life = life /\ issued[t].era = era => issued[t].nonce \in consumed

\* An active session is one of this life and of its extension.
ActiveOK ==
    \A e \in Exts : active[e] # 0 =>
        /\ active[e] \in Tokens
        /\ issued[active[e]].ext = e
        /\ issued[active[e]].life = life

\* So is one that a revalidation has shown, active or not.
ShownOK ==
    \A r \in Reqs : req[r].route = "revalidate" =>
        /\ req[r].session \in Tokens
        /\ issued[req[r].session].ext = req[r].ext
        /\ issued[req[r].session].life = life

\* Under trust on first use, the extensions with sessions of this life are origins of
\* the boot window or the pinned one, which is an origin if there is one.
Pinned ==
    (~Decided /\ ~unpinned) =>
        /\ \A t \in Tokens : issued[t].life = life =>
              /\ issued[t].ext \in origins \cup {pin}
              /\ pin # NoExt
              /\ window => origins # {}
        /\ origins # {} => pin \in origins
        /\ \E a, b \in Exts \cup {NoExt} : origins \subseteq {a, b}

IInv ==
    /\ TypeOK
    /\ HistoryOK
    /\ NoncesKept
    /\ ActiveOK
    /\ ShownOK
    /\ Pinned
    /\ NonceOneShot
    /\ NewestIsActive
    /\ SessionsDescendFromExchange

LEMMA InitIInv == Init => IInv
<1> SUFFICES ASSUME Init PROVE IInv
  OBVIOUS
<1>1. Tokens = {} /\ issued \in Seq(Session)
  BY DEF Init, Tokens
<1>1a. Len(issued) = 0
  BY DEF Init
<1>1b. Idle \in Request /\ Idle.route = "none"
  BY DEF Request, Idle
<1>1c. /\ active \in [Exts -> Nat] /\ \A e \in Exts : active[e] = 0
       /\ left \in [Exts -> 0..Burst] /\ revalLeft \in [Exts -> 0..RevalBurst]
  BY BurstsArePositive DEF Init
<1>1d. req \in [Reqs -> Request] /\ \A r \in Reqs : req[r].route = "none"
  BY <1>1b DEF Init
<1>2. TypeOK
  <2>1. /\ life \in Nat /\ era \in Nat /\ window \in BOOLEAN /\ unpinned \in BOOLEAN
        /\ origins \in SUBSET Exts /\ pin \in Exts \cup {NoExt} /\ consumed \in SUBSET Nonces
    BY DEF Init
  <2>2. \A e \in Exts : active[e] <= Len(issued)
    BY <1>1a, <1>1c
  <2> QED BY <1>1, <1>1c, <1>1d, <2>1, <2>2 DEF TypeOK
<1>3. HistoryOK /\ NoncesKept /\ NonceOneShot /\ NewestIsActive /\ SessionsDescendFromExchange
  BY <1>1 DEF HistoryOK, NoncesKept, NonceOneShot, NewestIsActive, Current,
              SessionsDescendFromExchange
<1>4. ActiveOK /\ ShownOK
  BY DEF Init, ActiveOK, ShownOK, Idle
<1>5. Pinned
  BY <1>1 DEF Init, Pinned
<1> QED BY <1>2, <1>3, <1>4, <1>5 DEF IInv

\* Issue adds one session at the end, of this life and era, and makes it active.
LEMMA IssueAppends ==
    ASSUME TypeOK, NEW e \in Exts, NEW n \in Nonces, NEW from \in Nat, Issue(e, n, from)
    PROVE  LET new == Len(issued) + 1 IN
           /\ new \in Nat /\ Len(issued) \in Nat /\ Len(issued') = new
           /\ Tokens' = Tokens \cup {new} /\ new \notin Tokens
           /\ issued' \in Seq(Session)
           /\ \A t \in Tokens : issued'[t] = issued[t]
           /\ issued'[new].ext = e /\ issued'[new].nonce = n
           /\ issued'[new].life = life /\ issued'[new].era = era
           /\ issued'[new].from = from
           /\ active' = [active EXCEPT ![e] = new]
<1> DEFINE s == [ext |-> e, nonce |-> n, life |-> life, era |-> era,
                 from |-> from, ended |-> active[e]]
<1>1. s \in Session
  BY DEF TypeOK, Session
<1>2. issued' = Append(issued, s) /\ active' = [active EXCEPT ![e] = Len(issued) + 1]
  BY DEF Issue
<1>3. /\ s.ext = e /\ s.nonce = n /\ s.life = life /\ s.era = era /\ s.from = from
  OBVIOUS
<1> HIDE DEF s
<1>4. issued \in Seq(Session)
  BY DEF TypeOK
<1>5. /\ Len(issued) \in Nat /\ Len(issued') = Len(issued) + 1
      /\ issued' \in Seq(Session)
      /\ \A t \in 1..Len(issued) : issued'[t] = issued[t]
      /\ issued'[Len(issued) + 1] = s
  BY <1>1, <1>2, <1>4
<1>6. Tokens' = Tokens \cup {Len(issued) + 1} /\ Len(issued) + 1 \notin Tokens
  BY <1>5 DEF Tokens
<1> QED BY <1>2, <1>3, <1>5, <1>6 DEF Tokens

\* What the mutation of the nonces does to the history invariants: a nonce that was not
\* consumed is new in this life and era, and is remembered or starts the next era.
LEMMA NoncesStep ==
    ASSUME TypeOK, HistoryOK, NoncesKept, NonceOneShot, UNCHANGED life,
           NEW e \in Exts, NEW n \in Nonces, NEW from \in Nat,
           Issue(e, n, from), n \notin consumed, Consume(n)
    PROVE  HistoryOK' /\ NoncesKept' /\ NonceOneShot'
           /\ era' \in Nat /\ consumed' \in SUBSET Nonces
<1> DEFINE new == Len(issued) + 1
<1>1. /\ new \in Nat /\ Tokens' = Tokens \cup {new} /\ new \notin Tokens
      /\ \A t \in Tokens : issued'[t] = issued[t]
      /\ issued'[new].nonce = n /\ issued'[new].life = life /\ issued'[new].era = era
  BY IssueAppends
<1>2. \A t \in Tokens : issued[t] \in Session
  BY DEF TypeOK, Tokens
<1>2a. \A t \in Tokens : issued[t].era \in Nat /\ issued[t].life \in Nat
  BY <1>2 DEF Session
<1>3. era \in Nat /\ life \in Nat /\ consumed \in SUBSET Nonces
  BY DEF TypeOK
<1>4. \/ consumed' = {} /\ era' = era + 1
      \/ consumed' = consumed \cup {n} /\ era' = era
  BY DEF Consume
<1> HIDE DEF new
<1>5. HistoryOK'
  BY <1>1, <1>2a, <1>3, <1>4 DEF HistoryOK
<1>6. NoncesKept'
  BY <1>1, <1>2a, <1>3, <1>4 DEF HistoryOK, NoncesKept
<1>7. NonceOneShot'
  <2>1. ASSUME NEW t \in Tokens, issued[t].nonce = n, issued[t].life = life,
               issued[t].era = era
        PROVE  FALSE
    BY <2>1 DEF NoncesKept
  <2> QED BY <1>1, <2>1 DEF NonceOneShot
<1> QED BY <1>3, <1>4, <1>5, <1>6, <1>7

\* What it does to the invariants about sessions.
LEMMA SessionsStep ==
    ASSUME TypeOK, ActiveOK, ShownOK, NewestIsActive, SessionsDescendFromExchange,
           UNCHANGED life,
           NEW r \in Reqs, NEW e \in Exts, NEW n \in Nonces, NEW from \in Nat,
           Issue(e, n, from), Done(r),
           from # 0 => from \in Tokens /\ issued[from].ext = e /\ issued[from].life = life
    PROVE  /\ ActiveOK' /\ ShownOK' /\ NewestIsActive' /\ SessionsDescendFromExchange'
           /\ active' \in [Exts -> Nat] /\ \A x \in Exts : active'[x] <= Len(issued)'
           /\ issued' \in Seq(Session)
           /\ req' \in [Reqs -> Request]
           /\ \A q \in Reqs : req'[q].route # "none" => req'[q].ext \in Exts
<1> DEFINE new == Len(issued) + 1
<1>1. /\ new \in Nat /\ Len(issued) \in Nat /\ Len(issued') = new
      /\ Tokens' = Tokens \cup {new} /\ new \notin Tokens
      /\ issued' \in Seq(Session)
      /\ \A t \in Tokens : issued'[t] = issued[t]
      /\ issued'[new].ext = e /\ issued'[new].life = life
      /\ issued'[new].from = from
      /\ active' = [active EXCEPT ![e] = new]
  BY IssueAppends
<1>2. Tokens = 1..Len(issued) /\ new = Len(issued) + 1
  BY DEF Tokens
<1> HIDE DEF new
<1>3. active \in [Exts -> Nat] /\ \A x \in Exts : active[x] <= Len(issued)
  BY DEF TypeOK
<1>4. \A x \in Exts : active'[x] = IF x = e THEN new ELSE active[x]
  BY <1>1, <1>3
<1>5. ActiveOK'
  BY <1>1, <1>4 DEF ActiveOK
<1>6. /\ req' \in [Reqs -> Request]
      /\ \A q \in Reqs : req'[q] = IF q = r THEN Idle ELSE req[q]
  BY DEF TypeOK, Done, Request, Idle
<1>7. \A q \in Reqs : req'[q].route # "none" => q # r /\ req'[q] = req[q]
  BY <1>6 DEF Idle
<1>8. ShownOK'
  <2> SUFFICES ASSUME NEW q \in Reqs, req'[q].route = "revalidate"
               PROVE  /\ req'[q].session \in Tokens'
                      /\ issued'[req'[q].session].ext = req'[q].ext
                      /\ issued'[req'[q].session].life = life'
    BY DEF ShownOK
  <2>1. req'[q] = req[q]
    BY <1>7
  <2> QED BY <1>1, <2>1 DEF ShownOK
<1>9. NewestIsActive'
  <2> SUFFICES ASSUME NEW x \in Exts, NEW t \in Tokens', issued'[t].life = life,
                      issued'[t].ext = x
               PROVE  active'[x] >= t /\ issued'[active'[x]].ext = x
    BY DEF NewestIsActive, Current
  <2>1. CASE t = new
    BY <1>1, <1>4, <2>1
  <2>2. CASE t \in Tokens
    <3>1. active[x] >= t /\ issued[active[x]].ext = x
      BY <1>1, <2>2 DEF NewestIsActive, Current
    <3>2. active[x] \in Tokens
      BY <1>2, <1>3, <2>2, <3>1
    <3> QED BY <1>1, <1>2, <1>3, <1>4, <2>2, <3>1, <3>2
  <2> QED BY <1>1, <2>1, <2>2
<1>10. SessionsDescendFromExchange'
  <2> SUFFICES ASSUME NEW t \in Tokens', issued'[t].from # 0
               PROVE  /\ issued'[t].from < t
                      /\ issued'[issued'[t].from].ext = issued'[t].ext
                      /\ issued'[issued'[t].from].life = issued'[t].life
    BY DEF SessionsDescendFromExchange
  <2>1. CASE t = new
    BY <1>1, <1>2, <2>1
  <2>2. CASE t \in Tokens
    <3>1. issued[t] \in Session /\ issued'[t] = issued[t]
      BY <1>1, <2>2 DEF TypeOK, Tokens
    <3>2. issued[t].from \in Nat /\ issued[t].from < t
      BY <2>2, <3>1 DEF SessionsDescendFromExchange, Session
    <3>3. issued[t].from \in Tokens
      BY <1>2, <2>2, <3>1, <3>2
    <3> QED BY <1>1, <2>2, <3>1, <3>2, <3>3 DEF SessionsDescendFromExchange
  <2> QED BY <1>1, <2>1, <2>2
<1>11. active' \in [Exts -> Nat] /\ \A x \in Exts : active'[x] <= Len(issued')
  BY <1>1, <1>2, <1>3, <1>4
<1>12. \A q \in Reqs : req'[q].route # "none" => req'[q].ext \in Exts
  BY <1>7 DEF TypeOK
<1> QED BY <1>1, <1>5, <1>6, <1>8, <1>9, <1>10, <1>11, <1>12

\* At most one element is at most one element.
LEMMA AtMostOne ==
    ASSUME NEW S, IsFiniteSet(S), Cardinality(S) <= 1
    PROVE  S = {} \/ \E a : S = {a}
<1>1. Cardinality(S) \in Nat
  BY FS_CardinalityType
<1>2. CASE Cardinality(S) = 0
  BY <1>2, FS_EmptySet
<1>3. CASE Cardinality(S) = 1
  BY <1>3, FS_Singleton
<1> QED BY <1>1, <1>2, <1>3

\* An exchange keeps to two extensions.  It may pin another one when none is pinned, and
\* then there is no session yet, or by the auto-reset, and then the window has seen at most
\* one origin.
LEMMA PinnedByExchange ==
    ASSUME TypeOK, Pinned, UNCHANGED <<life, window>>,
           NEW e \in Exts, NEW n \in Nonces, Issue(e, n, 0),
           Allowed(e), Pin(e), origins' = IF window THEN origins \cup {e} ELSE origins
    PROVE  Pinned'
<1> DEFINE new == Len(issued) + 1
<1> SUFFICES ASSUME ~Decided, ~unpinned'
             PROVE  /\ \A t \in Tokens' : issued'[t].life = life =>
                          /\ issued'[t].ext \in origins' \cup {pin'}
                          /\ pin' # NoExt
                          /\ window => origins' # {}
                    /\ origins' # {} => pin' \in origins'
                    /\ \E a, b \in Exts \cup {NoExt} : origins' \subseteq {a, b}
  BY DEF Pinned, Decided
<1>1. /\ new \in Nat /\ Tokens' = Tokens \cup {new} /\ new \notin Tokens
      /\ \A t \in Tokens : issued'[t] = issued[t]
      /\ issued'[new].ext = e
  <2>1. 0 \in Nat
    OBVIOUS
  <2> QED BY <2>1, IssueAppends
<1> HIDE DEF new
<1>2. ~unpinned /\ pin' = e
  <2>1. unpinned \in BOOLEAN
    BY DEF TypeOK
  <2> QED BY <2>1 DEF Pin, Renews
<1>3. /\ \A t \in Tokens : issued[t].life = life =>
              /\ issued[t].ext \in origins \cup {pin}
              /\ pin # NoExt
              /\ window => origins # {}
      /\ origins # {} => pin \in origins
      /\ \E a, b \in Exts \cup {NoExt} : origins \subseteq {a, b}
  BY <1>2 DEF Pinned
<1>4. e # NoExt /\ NoExt \notin origins
  BY NoExtIsNone DEF TypeOK
<1>5. CASE pin = NoExt
  BY <1>1, <1>2, <1>3, <1>4, <1>5
<1>6. CASE pin = e
  BY <1>1, <1>2, <1>3, <1>4, <1>6
<1>7. CASE pin \notin {NoExt, e}
  <2>1. window /\ Cardinality(origins) <= 1
    BY <1>7 DEF Allowed, AutoReset
  <2>2. IsFiniteSet(origins)
    <3>1. PICK a, b \in Exts \cup {NoExt} : origins \subseteq {a, b}
      BY <1>3
    <3>2. IsFiniteSet({a} \cup {b}) /\ {a, b} = {a} \cup {b}
      BY FS_AddElement, FS_Singleton
    <3> QED BY <3>1, <3>2, FS_Subset
  <2>3. origins = {} \/ \E a : origins = {a}
    BY <2>1, <2>2, AtMostOne
  <2>4. origins = {} \/ origins = {pin}
    BY <1>3, <2>3
  <2>5. origins' \subseteq {pin, e} /\ e \in origins' /\ origins \subseteq origins'
    BY <2>1, <2>4
  <2>6. pin \in Exts \cup {NoExt}
    BY DEF TypeOK
  <2>7. \A t \in Tokens : issued[t].life = life => issued[t].ext \in origins'
    BY <1>3, <2>1, <2>4, <2>5
  <2>8. \E a, b \in Exts \cup {NoExt} : origins' \subseteq {a, b}
    BY <2>5, <2>6
  <2>9. ASSUME NEW t \in Tokens', issued'[t].life = life
        PROVE  issued'[t].ext \in origins' \cup {pin'}
    <3>1. CASE t = new
      BY <1>1, <1>2, <3>1
    <3>2. CASE t \in Tokens
      BY <1>1, <2>7, <2>9, <3>2
    <3> QED BY <1>1, <3>1, <3>2
  <2> QED BY <1>2, <1>4, <2>5, <2>8, <2>9
<1> QED BY <1>5, <1>6, <1>7

LEMMA ExchangeIInv ==
    ASSUME IInv, NEW r \in Reqs, NEW n \in Nonces, Exchange(r, n)
    PROVE  IInv'
<1> DEFINE e == req[r].ext
<1>1. e \in Exts /\ UNCHANGED <<life, window, revalLeft>>
  BY DEF IInv, TypeOK, Exchange
<1>2. /\ Issue(e, n, 0) /\ Consume(n) /\ Done(r) /\ n \notin consumed
      /\ Allowed(e) /\ Pin(e) /\ origins' = IF window THEN origins \cup {e} ELSE origins
      /\ left' = [left EXCEPT ![e] = Burst]
  BY DEF Exchange
<1>3. 0 \in Nat /\ (0 # 0 => 0 \in Tokens /\ issued[0].ext = e /\ issued[0].life = life)
  OBVIOUS
<1> HIDE DEF e
<1>4. /\ HistoryOK' /\ NoncesKept' /\ NonceOneShot'
      /\ era' \in Nat /\ consumed' \in SUBSET Nonces
  BY <1>1, <1>2, <1>3, NoncesStep DEF IInv
<1>5. /\ ActiveOK' /\ ShownOK' /\ NewestIsActive' /\ SessionsDescendFromExchange'
      /\ active' \in [Exts -> Nat] /\ \A x \in Exts : active'[x] <= Len(issued)'
      /\ issued' \in Seq(Session)
      /\ req' \in [Reqs -> Request]
      /\ \A q \in Reqs : req'[q].route # "none" => req'[q].ext \in Exts
  BY <1>1, <1>2, <1>3, SessionsStep DEF IInv
<1>6. Pinned'
  BY <1>1, <1>2, PinnedByExchange DEF IInv
<1>7. TypeOK'
  <2>1. origins' \in SUBSET Exts /\ pin' \in Exts \cup {NoExt} /\ unpinned' \in BOOLEAN
    BY <1>1, <1>2 DEF IInv, TypeOK, Pin
  <2>2. left' \in [Exts -> 0..Burst]
    BY <1>1, <1>2, BurstsArePositive DEF IInv, TypeOK
  <2> QED BY <1>1, <1>4, <1>5, <2>1, <2>2 DEF IInv, TypeOK
<1> QED BY <1>4, <1>5, <1>6, <1>7 DEF IInv

LEMMA RevalidateIInv ==
    ASSUME IInv, NEW r \in Reqs, NEW n \in Nonces, Revalidate(r, n)
    PROVE  IInv'
<1> DEFINE e == req[r].ext
           s == req[r].session
<1>1. e \in Exts /\ UNCHANGED <<life, trust, left>>
  BY DEF IInv, TypeOK, Revalidate
<1>2. /\ Issue(e, n, s) /\ Consume(n) /\ Done(r) /\ n \notin consumed
      /\ revalLeft' = [revalLeft EXCEPT ![e] = RevalBurst]
  BY DEF Revalidate
<1>3. s \in Nat /\ s \in Tokens /\ issued[s].ext = e /\ issued[s].life = life
  BY DEF IInv, ShownOK, Revalidate, TypeOK, Request
<1> HIDE DEF e, s
<1>4. /\ HistoryOK' /\ NoncesKept' /\ NonceOneShot'
      /\ era' \in Nat /\ consumed' \in SUBSET Nonces
  BY <1>1, <1>2, <1>3, NoncesStep DEF IInv
<1>5. /\ ActiveOK' /\ ShownOK' /\ NewestIsActive' /\ SessionsDescendFromExchange'
      /\ active' \in [Exts -> Nat] /\ \A x \in Exts : active'[x] <= Len(issued)'
      /\ issued' \in Seq(Session)
      /\ req' \in [Reqs -> Request]
      /\ \A q \in Reqs : req'[q].route # "none" => req'[q].ext \in Exts
  BY <1>1, <1>2, <1>3, SessionsStep DEF IInv
<1>6. Pinned'
  <2>1. /\ Tokens' = Tokens \cup {Len(issued) + 1}
        /\ \A t \in Tokens : issued'[t] = issued[t]
        /\ issued'[Len(issued) + 1].ext = e
    BY <1>1, <1>2, <1>3, IssueAppends DEF IInv
  <2> QED BY <1>1, <1>3, <2>1 DEF IInv, Pinned, Decided, trust
<1>7. TypeOK'
  <2>1. revalLeft' \in [Exts -> 0..RevalBurst]
    BY <1>1, <1>2, BurstsArePositive DEF IInv, TypeOK
  <2> QED BY <1>1, <1>4, <1>5, <2>1 DEF IInv, TypeOK, trust
<1> QED BY <1>4, <1>5, <1>6, <1>7 DEF IInv

\* The steps that issue nothing: receipts, failures and refills.
LEMMA GatesIInv ==
    ASSUME IInv, UNCHANGED <<life, trust, active, consumed, issued, era>>,
           left' \in [Exts -> 0..Burst], revalLeft' \in [Exts -> 0..RevalBurst],
           req' \in [Reqs -> Request],
           \A r \in Reqs : req'[r].route # "none" => req'[r].ext \in Exts,
           ShownOK'
    PROVE  IInv'
<1>1. Tokens' = Tokens /\ Current' = Current
  BY DEF Tokens, Current
<1>2. TypeOK'
  BY DEF IInv, TypeOK, trust
<1>3. HistoryOK' /\ NoncesKept' /\ ActiveOK' /\ Pinned'
  BY <1>1 DEF IInv, HistoryOK, NoncesKept, ActiveOK, Pinned, Decided, trust
<1>4. NonceOneShot' /\ NewestIsActive' /\ SessionsDescendFromExchange'
  BY <1>1 DEF IInv, NonceOneShot, NewestIsActive, SessionsDescendFromExchange
<1> QED BY <1>2, <1>3, <1>4 DEF IInv

LEMMA RestartIInv ==
    ASSUME IInv, Restart
    PROVE  IInv'
<1>1. /\ life \in Nat /\ life' = life + 1 /\ Tokens' = Tokens /\ issued' = issued
      /\ \A t \in Tokens : issued[t] \in Session
  BY DEF IInv, TypeOK, Restart, Tokens
<1>2. \A t \in Tokens : issued[t].life \in Nat /\ issued[t].life < life'
  BY <1>1 DEF IInv, HistoryOK, Session
<1>3. \A t \in Tokens : issued[t].life # life'
  BY <1>1, <1>2
<1>4. HistoryOK' /\ NoncesKept' /\ NewestIsActive'
  BY <1>1, <1>2, <1>3 DEF HistoryOK, NoncesKept, NewestIsActive, Current
<1>5. ActiveOK' /\ ShownOK' /\ Pinned'
  BY <1>1, <1>3 DEF Restart, ActiveOK, ShownOK, Pinned, Idle
<1>6. NonceOneShot' /\ SessionsDescendFromExchange'
  BY <1>1 DEF IInv, NonceOneShot, SessionsDescendFromExchange
<1>7. TypeOK'
  <2>1. Idle \in Request /\ Idle.route = "none"
    BY DEF Request, Idle
  <2>2. /\ req' \in [Reqs -> Request]
        /\ \A r \in Reqs : req'[r].route = "none"
    BY <2>1 DEF Restart
  <2>3. /\ active' \in [Exts -> Nat] /\ \A e \in Exts : active'[e] = 0
        /\ left' \in [Exts -> 0..Burst] /\ revalLeft' \in [Exts -> 0..RevalBurst]
    BY BurstsArePositive DEF Restart
  <2>4. issued \in Seq(Session) /\ Len(issued) \in Nat /\ pin \in Exts \cup {NoExt}
    BY DEF IInv, TypeOK
  <2>5. \A e \in Exts : active'[e] <= Len(issued')
    BY <1>1, <2>3, <2>4
  <2>6. /\ life' \in Nat /\ era' \in Nat /\ window' \in BOOLEAN /\ unpinned' \in BOOLEAN
        /\ origins' \in SUBSET Exts /\ pin' \in Exts \cup {NoExt}
        /\ consumed' \in SUBSET Nonces
    <3>1. life' \in Nat
      BY <1>1
    <3>2. /\ window' = TRUE /\ unpinned' = FALSE /\ origins' = {} /\ consumed' = {}
          /\ era' = 0 /\ pin' = pin
      BY DEF Restart
    <3> QED BY <2>4, <3>1, <3>2
  <2>7. /\ issued' \in Seq(Session)
        /\ \A r \in Reqs : req'[r].route # "none" => req'[r].ext \in Exts
    BY <1>1, <2>2, <2>4
  <2> QED BY <2>2, <2>3, <2>5, <2>6, <2>7 DEF TypeOK
<1> QED BY <1>4, <1>5, <1>6, <1>7 DEF IInv

LEMMA NextIInv == IInv /\ [Next]_vars => IInv'
<1> SUFFICES ASSUME IInv, [Next]_vars PROVE IInv'
  OBVIOUS
<1>1. /\ left \in [Exts -> 0..Burst] /\ revalLeft \in [Exts -> 0..RevalBurst]
      /\ req \in [Reqs -> Request]
      /\ \A r \in Reqs : req[r].route # "none" => req[r].ext \in Exts
      /\ Burst \in Nat /\ RevalBurst \in Nat
  BY BurstsArePositive DEF IInv, TypeOK
<1>2. ASSUME NEW r \in Reqs, NEW e \in Exts, ReceiveExchange(r, e) PROVE IInv'
  <2> DEFINE new == [route |-> "exchange", ext |-> e, session |-> 0]
  <2>1. new \in Request /\ new.route = "exchange" /\ new.ext = e
    BY DEF Request
  <2>2. UNCHANGED <<life, trust, active, consumed, issued, era, revalLeft>>
    BY <1>2 DEF ReceiveExchange
  <2>3. left' \in [Exts -> 0..Burst]
    BY <1>1, <1>2 DEF ReceiveExchange
  <2>4. req' = [req EXCEPT ![r] = new]
    BY <1>2 DEF ReceiveExchange
  <2> HIDE DEF new
  <2>5. /\ req' \in [Reqs -> Request]
        /\ \A q \in Reqs : req'[q] = IF q = r THEN new ELSE req[q]
    BY <1>1, <2>1, <2>4
  <2>6. ShownOK'
    BY <2>1, <2>2, <2>5 DEF IInv, ShownOK, Tokens
  <2>7. \A q \in Reqs : req'[q].route # "none" => req'[q].ext \in Exts
    BY <1>1, <2>1, <2>5
  <2> QED BY <1>1, <2>2, <2>3, <2>5, <2>6, <2>7, GatesIInv
<1>3. ASSUME NEW r \in Reqs, NEW e \in Exts, NEW t \in Tokens, ReceiveRevalidate(r, e, t)
      PROVE  IInv'
  <2> DEFINE new == [route |-> "revalidate", ext |-> e, session |-> t]
  <2>0. t \in Nat
    BY DEF Tokens
  <2>1. new \in Request /\ new.route = "revalidate" /\ new.ext = e /\ new.session = t
    BY <2>0 DEF Request
  <2>2. UNCHANGED <<life, trust, active, consumed, issued, era, left>>
    BY <1>3 DEF ReceiveRevalidate
  <2>3. revalLeft' \in [Exts -> 0..RevalBurst]
    BY <1>1, <1>3 DEF ReceiveRevalidate
  <2>4. req' = [req EXCEPT ![r] = new]
    BY <1>3 DEF ReceiveRevalidate
  <2>5. issued[t].ext = e /\ issued[t].life = life
    BY <1>3 DEF ReceiveRevalidate, IsSessionActive, IInv, ActiveOK
  <2> HIDE DEF new
  <2>6. /\ req' \in [Reqs -> Request]
        /\ \A q \in Reqs : req'[q] = IF q = r THEN new ELSE req[q]
    BY <1>1, <2>1, <2>4
  <2>7. ShownOK'
    BY <2>1, <2>2, <2>5, <2>6 DEF IInv, ShownOK, Tokens
  <2>8. \A q \in Reqs : req'[q].route # "none" => req'[q].ext \in Exts
    BY <1>1, <2>1, <2>6
  <2> QED BY <1>1, <2>2, <2>3, <2>6, <2>7, <2>8, GatesIInv
<1>4. ASSUME NEW r \in Reqs, NEW n \in Nonces, Exchange(r, n) PROVE IInv'
  BY <1>4, ExchangeIInv
<1>5. ASSUME NEW r \in Reqs, NEW n \in Nonces, Revalidate(r, n) PROVE IInv'
  BY <1>5, RevalidateIInv
<1>6. ASSUME NEW r \in Reqs, Fail(r) PROVE IInv'
  <2>1. UNCHANGED <<life, trust, active, consumed, issued, era, left, revalLeft>>
    BY <1>6 DEF Fail
  <2>2. Idle \in Request /\ Idle.route = "none"
    BY DEF Request, Idle
  <2>3. req' = [req EXCEPT ![r] = Idle]
    BY <1>6 DEF Fail, Done
  <2>4. /\ req' \in [Reqs -> Request]
        /\ \A q \in Reqs : req'[q] = IF q = r THEN Idle ELSE req[q]
    BY <1>1, <2>2, <2>3
  <2>5. ShownOK'
    BY <2>1, <2>2, <2>4 DEF IInv, ShownOK, Tokens
  <2>6. \A q \in Reqs : req'[q].route # "none" => req'[q].ext \in Exts
    BY <1>1, <2>2, <2>4
  <2> QED BY <1>1, <2>1, <2>4, <2>5, <2>6, GatesIInv
<1>7. ASSUME NEW e \in Exts, Refill(e) PROVE IInv'
  <2>1. UNCHANGED <<life, trust, active, consumed, issued, era, req>>
    BY <1>7 DEF Refill
  <2>2. left' \in [Exts -> 0..Burst] /\ revalLeft' \in [Exts -> 0..RevalBurst]
    BY <1>1, <1>7 DEF Refill
  <2>3. ShownOK'
    BY <2>1 DEF IInv, ShownOK, Tokens
  <2> QED BY <1>1, <2>1, <2>2, <2>3, GatesIInv
<1>8. CASE WindowCloses
  <2>1. /\ UNCHANGED <<life, origins, pin, unpinned, active, consumed, issued, gates, era>>
        /\ window' = FALSE
    BY <1>8 DEF WindowCloses
  <2>2. Tokens' = Tokens /\ Current' = Current
    BY <2>1 DEF Tokens, Current
  <2>3. TypeOK'
    BY <2>1 DEF IInv, TypeOK, gates
  <2>4. HistoryOK' /\ NoncesKept' /\ ActiveOK' /\ ShownOK' /\ Pinned'
    BY <2>1, <2>2 DEF IInv, HistoryOK, NoncesKept, ActiveOK, ShownOK, Pinned, Decided, gates
  <2>5. NonceOneShot' /\ NewestIsActive' /\ SessionsDescendFromExchange'
    BY <2>1, <2>2 DEF IInv, NonceOneShot, NewestIsActive, SessionsDescendFromExchange
  <2> QED BY <2>3, <2>4, <2>5 DEF IInv
<1>9. CASE Restart
  BY <1>9, RestartIInv
<1>10. CASE UNCHANGED vars
  <2>1. /\ UNCHANGED <<life, trust, active, consumed, issued, era>>
        /\ UNCHANGED <<left, revalLeft, req>>
    BY <1>10 DEF vars, gates
  <2>2. ShownOK'
    BY <2>1 DEF IInv, ShownOK, Tokens
  <2> QED BY <1>1, <2>1, <2>2, GatesIInv
<1> QED BY <1>2, <1>3, <1>4, <1>5, <1>6, <1>7, <1>8, <1>9, <1>10 DEF Next
-----------------------------------------------------------------------------
LEMMA InvariantHolds == Spec => []IInv
<1> QED BY InitIInv, NextIInv, PTL DEF Spec

\* Every variable keeps its type, and the buckets stay within their burst.
THEOREM SessionsTyped == Spec => []TypeOK
<1>1. IInv => TypeOK
  BY DEF IInv
<1> QED BY <1>1, InvariantHolds, PTL

\* A nonce is used once in a life and era, over both routes.
THEOREM NoncesAreOneShot == Spec => []NonceOneShot
<1>1. IInv => NonceOneShot
  BY DEF IInv
<1> QED BY <1>1, InvariantHolds, PTL

\* The newest session of an extension, and no other, is active.
THEOREM NewestSessionIsActive == Spec => []NewestIsActive
<1>1. IInv => NewestIsActive
  BY DEF IInv
<1> QED BY <1>1, InvariantHolds, PTL

\* A revalidated session descends from an exchange of its extension and life.
THEOREM SessionsDescend == Spec => []SessionsDescendFromExchange
<1>1. IInv => SessionsDescendFromExchange
  BY DEF IInv
<1> QED BY <1>1, InvariantHolds, PTL

\* Trust on first use lets two extensions in, at most.
THEOREM TwoOriginsAtMost == Spec => []AtMostTwoOrigins
<1>1. IInv => AtMostTwoOrigins
  <2> SUFFICES ASSUME IInv, ~Decided, ~unpinned
               PROVE  \E a, b \in Exts \cup {NoExt} :
                          \A t \in Current : issued[t].ext \in {a, b}
    BY DEF AtMostTwoOrigins
  <2>1. /\ \A t \in Current : issued[t].ext \in origins \cup {pin}
        /\ origins # {} => pin \in origins
        /\ \E a, b \in Exts \cup {NoExt} : origins \subseteq {a, b}
        /\ pin \in Exts \cup {NoExt}
    BY DEF IInv, TypeOK, Pinned, Current
  <2>2. CASE origins = {}
    BY <2>1, <2>2
  <2>3. CASE origins # {}
    BY <2>1, <2>3
  <2> QED BY <2>2, <2>3
<1> QED BY <1>1, InvariantHolds, PTL
=============================================================================
