------------------------------ MODULE Sessions ------------------------------
(***************************************************************************)
(* The sessions of the daemon: routes/exchange.ts hands out a session for  *)
(* the bootstrap token, routes/revalidate.ts renews one, and both share    *)
(* the nonces, the active sessions and the extension that is trusted.      *)
(*                                                                         *)
(* Each handler checks its gates, awaits the body of the request, and goes *)
(* on; other requests run in between.  A session token is the number of    *)
(* its minting: `issued` is the history of all.                            *)
(***************************************************************************)
EXTENDS Integers, Sequences, FiniteSets

CONSTANTS
    Exts,           \* extension ids; the origin of a request is one of them
    NoExt,          \* no extension is pinned
    Nonces,         \* clientNonces
    Reqs,           \* requests at a time
    TrustAny,       \* option trustAnyExtension
    CliPin,         \* option pinnedExtensionId
    NonceCap,       \* consumed nonces kept: 10,000
    Burst,          \* FAILED_EXCHANGE_BURST
    RevalBurst,     \* FAILED_REVALIDATE_BURST
    MaxIssued,      \* bound of the model: sessions ever issued
    MaxLives        \* bound of the model: lives of the daemon

ASSUME OptionsAreOptions == /\ TrustAny \in BOOLEAN
                            /\ CliPin \in Exts \cup {NoExt}
ASSUME NoExtIsNone == NoExt \notin Exts
ASSUME BurstsArePositive == Burst \in Nat \ {0} /\ RevalBurst \in Nat \ {0}
ASSUME NonceCapIsNat == NonceCap \in Nat

VARIABLES
    life,           \* the daemon has been started so often
    window,         \* the daemon was booted at most 10 s ago
    origins,        \* bootWindowOrigins
    pin,            \* what the file trusted-ext-id says
    active,         \* activeSessions; 0 is none
    consumed,       \* consumedNonces
    issued,         \* history: the sessions, in the order of their minting
    left,           \* tokens in the bucket of failed exchanges, per extension
    revalLeft,      \* the same for failed revalidations
    req,            \* the requests whose body is awaited
    era,            \* history: consumedNonces was cleared so often in this life
    unpinned        \* history: the file could not be written in this life

gates == <<left, revalLeft, req>>
trust == <<window, origins, pin, unpinned>>
vars == <<life, trust, active, consumed, issued, gates, era>>

Tokens == 1..Len(issued)

\* What a session was minted from: `from` is the session a revalidation presented,
\* 0 for an exchange, and `ended` the one that was active till then.
Session == [ext : Exts, nonce : Nonces, life : Nat, era : Nat,
            from : Nat, ended : Nat]

\* A request whose body is awaited; a revalidation has shown a session.
Request == [route : {"none", "exchange", "revalidate"}, ext : Exts \cup {NoExt},
            session : Nat]
Idle == [route |-> "none", ext |-> NoExt, session |-> 0]

TypeOK ==
    /\ life \in Nat /\ era \in Nat
    /\ window \in BOOLEAN /\ unpinned \in BOOLEAN
    /\ origins \in SUBSET Exts
    /\ pin \in Exts \cup {NoExt}
    /\ active \in [Exts -> Nat]
    /\ \A e \in Exts : active[e] <= Len(issued)
    /\ consumed \in SUBSET Nonces
    /\ issued \in Seq(Session)
    /\ left \in [Exts -> 0..Burst]
    /\ revalLeft \in [Exts -> 0..RevalBurst]
    /\ req \in [Reqs -> Request]
    /\ \A r \in Reqs : req[r].route # "none" => req[r].ext \in Exts

\* createExchangeRoute(): nothing is remembered but the file, which may be there from
\* before.
Init ==
    /\ life = 1
    /\ pin \in Exts \cup {NoExt}
    /\ issued = <<>>
    /\ window = TRUE /\ origins = {} /\ unpinned = FALSE
    /\ active = [e \in Exts |-> 0]
    /\ consumed = {} /\ era = 0
    /\ left = [e \in Exts |-> Burst]
    /\ revalLeft = [e \in Exts |-> RevalBurst]
    /\ req = [r \in Reqs |-> Idle]
-----------------------------------------------------------------------------
\* consumedNonces.add() in handler() and consumeNonce(): remember the nonce, forget all when
\* they are too many.
Consume(n) ==
    LET more == consumed \cup {n}
    IN  IF Cardinality(more) > NonceCap
        THEN consumed' = {} /\ era' = era + 1
        ELSE consumed' = more /\ UNCHANGED era

\* Mutant of Issue: the session is minted, and the old one stays.
IssueOnly(e, n, from) ==
    /\ Len(issued) < MaxIssued
    /\ issued' = Append(issued, [ext |-> e, nonce |-> n, life |-> life, era |-> era,
                                 from |-> from, ended |-> active[e]])
    /\ active' = [active EXCEPT ![e] = IF @ = 0 THEN Len(issued) + 1 ELSE @]

\* Mint a session of e and make it the active one, as activeSessions.set() does.
Issue(e, n, from) ==
    /\ Len(issued) < MaxIssued
    /\ issued' = Append(issued, [ext |-> e, nonce |-> n, life |-> life, era |-> era,
                                 from |-> from, ended |-> active[e]])
    /\ active' = [active EXCEPT ![e] = Len(issued) + 1]

\* Mutant of AutoReset: any number of origins may take over within the window.
AutoResetAlways == window

\* evaluateTofu(): Renews is its `persist`.  The auto-reset comes last.
AutoReset == window /\ Cardinality(origins) <= 1
Decided == TrustAny \/ CliPin # NoExt
Allowed(e) ==
    IF Decided THEN TrustAny \/ CliPin = e
    ELSE pin \in {NoExt, e} \/ AutoReset
Renews(e) == ~Decided /\ pin # e

\* resetPersistedPin() and persistPin(): both only log when the file system fails, the
\* first leaving the old pin and the second none or the old one.
Pin(e) ==
    \/ ~Renews(e) /\ UNCHANGED <<pin, unpinned>>
    \/ Renews(e) /\ pin' = e /\ UNCHANGED unpinned
    \/ Renews(e) /\ pin' \in {pin, NoExt} /\ unpinned' = TRUE
-----------------------------------------------------------------------------
\* Mutant of ReceiveExchange: an empty bucket does not refuse.
ReceiveExchangeUnlimited(r, e) ==
    /\ req[r] = Idle
    /\ left' = [left EXCEPT ![e] = @ - 1]
    /\ req' = [req EXCEPT ![r] = [route |-> "exchange", ext |-> e, session |-> 0]]
    /\ UNCHANGED <<life, trust, active, consumed, issued, revalLeft, era>>

\* POST /__redesigner/exchange, up to the await of its body.  An attempt is charged
\* before it is known whether it fails.  With an empty bucket it is refused.
ReceiveExchange(r, e) ==
    /\ req[r] = Idle
    /\ left[e] >= 1
    /\ left' = [left EXCEPT ![e] = @ - 1]
    /\ req' = [req EXCEPT ![r] = [route |-> "exchange", ext |-> e, session |-> 0]]
    /\ UNCHANGED <<life, trust, active, consumed, issued, revalLeft, era>>

\* isSessionActive().
IsSessionActive(e, t) == t # 0 /\ active[e] = t

\* Mutant of ReceiveRevalidate: any session ever issued will do.
ReceiveRevalidateUnchecked(r, e, t) ==
    /\ req[r] = Idle
    /\ revalLeft[e] >= 1
    /\ revalLeft' = [revalLeft EXCEPT ![e] = @ - 1]
    /\ req' = [req EXCEPT ![r] = [route |-> "revalidate", ext |-> e, session |-> t]]
    /\ UNCHANGED <<life, trust, active, consumed, issued, left, era>>

\* POST /__redesigner/revalidate, up to the await of its body.
ReceiveRevalidate(r, e, t) ==
    /\ req[r] = Idle
    /\ IsSessionActive(e, t)
    /\ revalLeft[e] >= 1
    /\ revalLeft' = [revalLeft EXCEPT ![e] = @ - 1]
    /\ req' = [req EXCEPT ![r] = [route |-> "revalidate", ext |-> e, session |-> t]]
    /\ UNCHANGED <<life, trust, active, consumed, issued, left, era>>

Done(r) == req' = [req EXCEPT ![r] = Idle]

\* The rest of the exchange: the bootstrap token is that of this life.
Exchange(r, n) ==
    /\ req[r].route = "exchange"
    /\ n \notin consumed
    /\ Allowed(req[r].ext)
    /\ Pin(req[r].ext)
    /\ origins' = IF window THEN origins \cup {req[r].ext} ELSE origins
    /\ Issue(req[r].ext, n, 0)
    /\ Consume(n)
    /\ left' = [left EXCEPT ![req[r].ext] = Burst]
    /\ Done(r)
    /\ UNCHANGED <<life, window, revalLeft>>

\* Mutant of Revalidate: the nonce is marked, but not looked up.
RevalidateReplayed(r, n) ==
    /\ req[r].route = "revalidate"
    /\ Issue(req[r].ext, n, req[r].session)
    /\ Consume(n)
    /\ revalLeft' = [revalLeft EXCEPT ![req[r].ext] = RevalBurst]
    /\ Done(r)
    /\ UNCHANGED <<life, trust, left>>

\* The rest of the revalidation.  It compares no bootstrap token, and does not ask
\* again whether the session it was shown is active.
Revalidate(r, n) ==
    /\ req[r].route = "revalidate"
    /\ n \notin consumed
    /\ Issue(req[r].ext, n, req[r].session)
    /\ Consume(n)
    /\ revalLeft' = [revalLeft EXCEPT ![req[r].ext] = RevalBurst]
    /\ Done(r)
    /\ UNCHANGED <<life, trust, left>>

\* Every other end of both: the body breaks off, is too large, not JSON or not of the
\* schema; the bootstrap token is wrong; the nonce was consumed; the extension is not
\* allowed.  The charge stays.
Fail(r) ==
    /\ req[r] # Idle
    /\ Done(r)
    /\ UNCHANGED <<life, trust, active, consumed, issued, left, revalLeft, era>>
-----------------------------------------------------------------------------
\* Time passes: tokens come back, all of them at once when the bucket is evicted from
\* its map of 256.
Refill(e) ==
    /\ \/ /\ left[e] < Burst
          /\ left' = [left EXCEPT ![e] = @ + 1]
          /\ UNCHANGED revalLeft
       \/ /\ revalLeft[e] < RevalBurst
          /\ revalLeft' = [revalLeft EXCEPT ![e] = @ + 1]
          /\ UNCHANGED left
    /\ UNCHANGED <<life, trust, active, consumed, issued, req, era>>

WindowCloses ==
    /\ window
    /\ window' = FALSE
    /\ UNCHANGED <<life, origins, pin, unpinned, active, consumed, issued, gates, era>>

\* The daemon dies, with all but the file, and another is started.
Restart ==
    /\ life < MaxLives
    /\ life' = life + 1
    /\ window' = TRUE /\ origins' = {} /\ unpinned' = FALSE
    /\ active' = [e \in Exts |-> 0]
    /\ consumed' = {} /\ era' = 0
    /\ left' = [e \in Exts |-> Burst]
    /\ revalLeft' = [e \in Exts |-> RevalBurst]
    /\ req' = [r \in Reqs |-> Idle]
    /\ UNCHANGED <<pin, issued>>

Next ==
    \/ \E r \in Reqs, e \in Exts : ReceiveExchange(r, e)
    \/ \E r \in Reqs, e \in Exts, t \in Tokens : ReceiveRevalidate(r, e, t)
    \/ \E r \in Reqs, n \in Nonces : Exchange(r, n) \/ Revalidate(r, n)
    \/ \E r \in Reqs : Fail(r)
    \/ \E e \in Exts : Refill(e)
    \/ WindowCloses
    \/ Restart

Spec == Init /\ [][Next]_vars
-----------------------------------------------------------------------------
Current == {t \in Tokens : issued[t].life = life}

\* A clientNonce is one-shot, over both routes and however their requests interleave,
\* until consumedNonces is cleared: no two sessions of one life and one era have the
\* same (exchange.ts, "clientNonce is one-shot per bootstrap epoch").
NonceOneShot ==
    \A s, t \in Tokens :
        /\ issued[s].nonce = issued[t].nonce
        /\ issued[s].life = issued[t].life
        /\ issued[s].era = issued[t].era
        => s = t

\* The active session of an extension is the last one it was given in this life, by
\* whichever route, though a request that was received earlier may end later.
NewestIsActive ==
    \A e \in Exts, t \in Current :
        issued[t].ext = e => active[e] >= t /\ issued[active[e]].ext = e

\* Trust is implied by the session (revalidate.ts, "TOFU validation is implicit"): a
\* session that a revalidation mints descends from one of the same extension and the
\* same life, so in the end from an exchange, which asked for trust.
SessionsDescendFromExchange ==
    \A t \in Tokens :
        issued[t].from # 0 =>
            /\ issued[t].from < t
            /\ issued[issued[t].from].ext = issued[t].ext
            /\ issued[issued[t].from].life = issued[t].life

\* Trust on first use: unless the options say otherwise or the file cannot be written,
\* no more than two extensions get sessions in one life, the pinned one and one that
\* takes over within ten seconds of the boot (exchange.ts, the auto-reset window).
AtMostTwoOrigins ==
    (~Decided /\ ~unpinned) =>
        \E a, b \in Exts \cup {NoExt} : \A t \in Current : issued[t].ext \in {a, b}

\* What revalidate.ts says of itself, "The request must carry a valid, currently-active
\* session token": the session a revalidation replaces is the one it was shown.
RevalidatePresentsActive ==
    \A t \in Tokens : issued[t].from # 0 => issued[t].from = issued[t].ended
=============================================================================
