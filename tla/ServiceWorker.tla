----------------------------- MODULE ServiceWorker -----------------------------
(***************************************************************************)
(* From a click in the page to the panel: the content script's commit and  *)
(* its messages (packages/ext/src/content/index.ts, handshake.ts), the     *)
(* service worker that routes them, with its per-tab handshakes and        *)
(* sessions (sw/index.ts, messageRouter.ts, postExchange of rest.ts), and  *)
(* the panel's port (PanelPort).                                           *)
(*                                                                         *)
(* A pick is cut at its awaits: the exchange, the manifest fetch, and the  *)
(* extraction in the page.  The daemon is seen through its answers: one    *)
(* session of the extension is active, that of the latest exchange, which  *)
(* takes the bootstrap token of the daemon that runs.                      *)
(*                                                                         *)
(* Bounds: Picks, Daemons one after the other, Sleeps of the worker,       *)
(* MaxUnderWay snapshots when a page registers again.                      *)
(***************************************************************************)
EXTENDS PanelPort

CONSTANTS
    Tabs, PanelTab,   \* tabs with a content script; the one the panel shows
    Picks,            \* commits of the picker, 1..Picks
    Daemons, Sleeps,
    MaxUnderWay       \* snapshots under way when a tab registers again

ASSUME WorkerBounds ==
    /\ PanelTab \in Tabs
    /\ Picks \in Nat /\ Daemons \in Nat \ {0} /\ Sleeps \in Nat /\ MaxUnderWay \in Nat

VARIABLES
    daemon, active,           \* which daemon runs, and its active session
    tabHandshakes,            \* the daemon of the bootstrap token a tab has registered, or 0
    tabSessions,              \* the cached session of a tab
    picks, sleeps

routerVars == <<tabHandshakes, tabSessions>>
vars == <<portVars, daemon, active, routerVars, picks, sleeps>>

\* A session is the pick it was exchanged for and the daemon that minted it.
NoSession == [by |-> 0, daemon |-> 0]
Fresh == [tab |-> PanelTab, at |-> "idle", handshake |-> 0, session |-> NoSession]
Ended == [Fresh EXCEPT !.at = "done"]
InWorker == {"exchange", "minted", "fetch"}

SessionRecords == [by : 0..Picks, daemon : 0..Daemons]
Snapshots == [status : {"hydrating", "connected", "resync", "disconnected"}, selection : 0..Picks]
PanelMessages ==
    [event : {"snapshot"}, port : 1..MaxPorts, snapshot : Snapshots]
        \cup [event : {"lost"}, port : 1..MaxPorts]

TypeOK ==
    /\ subs \in 0..MaxSubs /\ port \in 0..MaxPorts /\ opened \in 0..MaxPorts
    /\ ports \in 0..MaxPorts /\ greeted \subseteq 1..MaxPorts
    /\ shown \in Snapshots /\ cache \in Snapshots
    /\ toWorker \in Seq([event : {"hello", "bye"}, port : 1..MaxPorts])
    /\ toPanel \in Seq(PanelMessages)
    /\ daemon \in 1..Daemons /\ sleeps \in 0..Sleeps
    /\ active \in SessionRecords /\ tabSessions \in [Tabs -> SessionRecords]
    /\ tabHandshakes \in [Tabs -> 0..Daemons]
    /\ picks \in [1..Picks -> [tab : Tabs, at : InWorker \cup {"idle", "extract", "done"},
                              handshake : 0..Daemons, session : SessionRecords]]

Init ==
    /\ PanelInit
    /\ daemon = 1 /\ active = NoSession
    /\ tabHandshakes = [t \in Tabs |-> 0]
    /\ tabSessions = [t \in Tabs |-> NoSession]
    /\ picks = [k \in 1..Picks |-> Fresh]
    /\ sleeps = 0
-----------------------------------------------------------------------------
Becomes(k, at) == picks' = [picks EXCEPT ![k].at = at]
Ends(k) == picks' = [picks EXCEPT ![k] = Ended]

\* panelPort.push() for a tab.
Push(t, snapshot) ==
    IF t = PanelTab
    THEN PushTo(ports, snapshot) /\ UNCHANGED <<panelVars, toWorker, ports, greeted>>
    ELSE UNCHANGED portVars

\* readBootstrap(): the token in the handoff file, if there is one to be read.
ReadBootstrap == {0, daemon}

\* handshake.json of the Vite plugin: that token, unless a gate or the schema refuses.
HandshakeJson == {0} \cup ReadBootstrap

\* The meta tag, written when the page was loaded and perhaps since.
InMeta == 0..daemon

\* fetchHandshake(): the answer may come when a later daemon runs.
Fetched == HandshakeJson \cup InMeta

\* performHandshake(): what was fetched, else what is in the meta tag, if it is complete.
Handshakes == (Fetched \cup InMeta) \ {0}

\* "register": the page has loaded, or its meta tag has changed.
Register(t) ==
    /\ Len(toPanel) < MaxUnderWay
    /\ \E d \in Handshakes : tabHandshakes' = [tabHandshakes EXCEPT ![t] = d]
    /\ Push(t, [cache EXCEPT !.status = "connected"])
    /\ UNCHANGED <<daemon, active, tabSessions, picks, sleeps>>

\* ensureSession(): the cached session, unless there is none or it is within a minute of its
\* expiry; an exchange with the tab's token otherwise.
EnsureSession(t) ==
    {[at |-> "exchange", session |-> NoSession]}
        \cup {[at |-> "fetch", session |-> s] : s \in {tabSessions[t]} \ {NoSession}}

\* The picker commits and the page asks for the manifest, which is refused to a tab that has
\* not registered.
Pick(k, t) ==
    /\ picks[k].at = "idle" /\ \A j \in 1..(k - 1) : picks[j].at # "idle"
    /\ IF tabHandshakes[t] = 0
       THEN Ends(k)
       ELSE \E e \in EnsureSession(t) :
              picks' = [picks EXCEPT ![k] = [tab |-> t, handshake |-> tabHandshakes[t],
                                             at |-> e.at, session |-> e.session]]
    /\ UNCHANGED <<portVars, daemon, active, routerVars, sleeps>>

\* The daemon accepts POST /__redesigner/exchange, which ends the session before.
Mint(k) ==
    /\ picks[k].at = "exchange" /\ picks[k].handshake = daemon
    /\ active' = [by |-> k, daemon |-> daemon]
    /\ picks' = [picks EXCEPT ![k].at = "minted", ![k].session = active']
    /\ UNCHANGED <<portVars, daemon, routerVars, sleeps>>

\* The response arrives: the session is cached, and the manifest fetched with it.
Keep(k) ==
    /\ picks[k].at = "minted"
    /\ tabSessions' = [tabSessions EXCEPT ![picks[k].tab] = picks[k].session]
    /\ Becomes(k, "fetch")
    /\ UNCHANGED <<portVars, daemon, active, tabHandshakes, sleeps>>

\* Mutant of Fails: an error of the exchange is not answered to the page.
FailsSilently(k) ==
    /\ picks[k].at = "fetch"
    /\ Ends(k)
    /\ UNCHANGED <<portVars, daemon, active, routerVars, sleeps>>

\* The exchange or the fetch is refused or times out: the page gets an error and gives up.
Fails(k) ==
    /\ picks[k].at \in InWorker
    /\ Ends(k)
    /\ UNCHANGED <<portVars, daemon, active, routerVars, sleeps>>

Serve(k) ==
    /\ picks[k].at = "fetch" /\ picks[k].session = active
    /\ picks' = [picks EXCEPT ![k] = [Fresh EXCEPT !.tab = picks[k].tab, !.at = "extract"]]
    /\ UNCHANGED <<portVars, daemon, active, routerVars, sleeps>>

\* The handle has been extracted, in the page, and is sent; or there is none.
Select(k) ==
    /\ picks[k].at = "extract"
    /\ Ends(k)
    /\ \/ Push(picks[k].tab, [cache EXCEPT !.selection = k])
       \/ UNCHANGED portVars
    /\ UNCHANGED <<daemon, active, routerVars, sleeps>>

\* The daemon is replaced.
Replace ==
    /\ daemon < Daemons /\ daemon' = daemon + 1
    /\ active' = NoSession
    /\ UNCHANGED <<portVars, routerVars, picks, sleeps>>

\* The worker is stopped: its maps and its ports are gone, and the messages it has not
\* answered fail in the page.
Sleep ==
    /\ sleeps < Sleeps /\ sleeps' = sleeps + 1
    /\ PortsSleep
    /\ tabHandshakes' = [t \in Tabs |-> 0]
    /\ tabSessions' = [t \in Tabs |-> NoSession]
    /\ picks' = [k \in 1..Picks |-> IF picks[k].at \in InWorker THEN Ended ELSE picks[k]]
    /\ UNCHANGED <<daemon, active>>

Advance(k) == Mint(k) \/ Keep(k) \/ Fails(k) \/ Serve(k) \/ Select(k)

Next ==
    \/ (Panel \/ Worker) /\ UNCHANGED <<daemon, active, routerVars, picks, sleeps>>
    \/ \E t \in Tabs : Register(t) \/ \E k \in 1..Picks : Pick(k, t)
    \/ \E k \in 1..Picks : Advance(k)
    \/ Replace \/ Sleep

\* Messages on the ports are delivered; requests have their timeouts.
Fairness ==
    /\ WF_vars(Worker /\ UNCHANGED <<daemon, active, routerVars, picks, sleeps>>)
    /\ WF_vars(Delivered /\ UNCHANGED <<daemon, active, routerVars, picks, sleeps>>)
    /\ \A k \in 1..Picks : WF_vars(Advance(k))

Spec == Init /\ [][Next]_vars /\ Fairness
-----------------------------------------------------------------------------
\* A pick comes to an end in the page, whatever fails on the way: the message channel the
\* worker keeps open for its answer (sw/index.ts:74) is always answered or broken.
PickEnds == \A k \in 1..Picks : picks[k].at # "idle" ~> picks[k].at = "done"

\* "SW stores the new bootstrapToken per-tab. Next `get-manifest` triggers a fresh exchange
\* with the new token. No additional code needed.",
\* docs/superpowers/plans/2026-04-20-daemon-vite-token-sync.md:461: no manifest is asked for
\* with a session that an older token than the tab's was exchanged for.
RotationIsFollowed ==
    \A k \in 1..Picks :
        picks[k].at = "fetch" => picks[k].session.daemon >= picks[k].handshake
=============================================================================
