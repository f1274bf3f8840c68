# reDesigner: a TLA+ model

reDesigner lets a developer pick a React component in the browser and hand it to
a coding agent. Four programs work together, and this directory models the parts
of them whose correctness depends on the order in which things happen:

    Vite plugin --spawns--> daemon <--HTTP-- MCP shim (agent)
        |  writes             ^  ^
        v                     |  | WebSocket + HTTP
     manifest.json --watched--+  Chrome extension (service worker, content scripts, panel)

Paths below are relative to `src/packages`.

## 1. Inventory

| Component | State | Operations | Interacts with |
|---|---|---|---|
| Browser-tool proxy (`daemon/src/routes/browserTools.ts`, `ws/rpcCorrelation.ts`) | pending calls, slot counter | POST handler, timer, answer, rejectAll | event bus (request frame), WebSocket endpoint (answers, close), shutdown |
| WebSocket endpoint (`daemon/src/ws/events.ts`) | the one subscriber slot, ping timers | upgrade and its gates, hello, gap, message, close | event bus, selection, watcher, sessions |
| Event bus (`daemon/src/state/eventBus.ts`) | sequence number, ring of 1024, subscribers with pause state | mint, record, broadcast, drain, resync decision | everything that broadcasts |
| Manifest watcher (`daemon/src/state/manifestWatcher.ts`) | cached manifest and its mtime, timers, single-flight flags | start, restart, change, debounce, stat poll, reread, stop | the file the plugin writes; onValidated |
| Selection (`daemon/src/state/selectionState.ts`, `routes/selection.ts`) | current, history of 50, counters of 256 tabs | PUT selection, rescan | watcher (staleness), event bus |
| Boot and shutdown (`daemon/src/child.ts`, `index.ts`, `lifecycle.ts`, `routes/shutdown.ts`) | phase of the process | boot, ready line, shutdown from four triggers | all of the above, handoff file, bridge |
| Handoff file (`daemon/src/handoff.ts`) | a file with pid, port, tokens | exclusive create, reclaim, discover, unlink | bridge, MCP shim |
| Sessions (`daemon/src/routes/exchange.ts`, `revalidate.ts`, `tofu.ts`, `rateLimit.ts`, `server.ts`) | one session per extension, consumed nonces, trust pin, failure buckets | exchange, revalidate, gate of every request | the service worker of the extension |
| Daemon bridge (`vite/src/integration/daemonBridge.ts`) | handle of the child | start, shutdown with escalation | daemon, handoff |
| Plugin and manifest writer (`vite/src/plugin.ts`, `integration/manifestWriter.ts`) | batches, debounce and max-wait timers, owner lock | start, transform, commit, flush, shutdown | watcher, through the file |
| MCP shim (`mcp/src/daemonBackend.ts`) | handoff cache, unreachable window, authentication breaker | four tools with retries | handoff, daemon |
| Service worker (`ext/src/sw/index.ts`, `messageRouter.ts`, `panelPort.ts`, `rest.ts`) | per-tab handshakes, sessions and manifests; one port and one snapshot per panel | register, get-manifest, selection; hello, push, disconnect | daemon, content scripts, panel |
| Side panel (`ext/src/panel/hooks/usePanelPort.ts`) | port, subscriptions, snapshot shown | subscribe, unsubscribe, reconnect | service worker |
| Content scripts (`ext/src/content/index.ts`, `handshake.ts`, `picker.ts`, `hitTest.ts`) | everything the picker arms in a page | register, arm, move, frame, click, disarm, mutation | the page, service worker |
| WebSocket client (`ext/src/sw/wsClient.ts`, `closeReducer.ts`) | reducer, `connecting`, timer, socket | open, close, token, hello, onclose, revalidate | daemon |
| Pool, exchange controller, manifest cache, alarms, rpc (`ext/src/sw/`) | refcounts, in-flight promises, persisted calls | | nothing: `sw/index.ts` does not wire them |
| Babel transform, fibre reading, rendering, schemas | none | pure functions | |

What is hard here, and hard to test: handlers that await in the middle of a
decision (a request body, a token, a file read, a transform) while their premise changes; a
subscriber that stalls, closes or is replaced; answers that come late or twice; a
file that is replaced, or unlinked and created again, while another process looks at it, with
notifications that get lost; timers that race what they time; a process that is killed
between two system calls, or whose parent is; a service worker that loses its memory;
shutdown at any of those moments. PROJECT.json lists
each hazard at its line with the properties that watch it.

What makes each modelled component correct:

- *proxy*: a slot is held exactly by a call that needs it; a waiting call was sent to the subscriber of
  that moment or to nobody, and the end of a connection fails no call that another was asked to
  answer; every call that waits is answered, unless the daemon exits first.
- *event bus*: the ring has no hole; the resync decision agrees with the ring;
  numbers grow; a slow subscriber costs a bounded buffer; who is never paused
  misses nothing.
- *watcher*: content and mtime are of one version; never backwards; the last good
  version is cached in the end, with or without watch events.
- *selection*: history well-formed; stale only while uncovered; a record's place is
  that of the click; a subscriber that applies every frame is up to date.
- *sessions*: a nonce is used once, whatever interleaves, until the set of used ones is cleared at
  10,000; every session goes back to an exchange of its extension; trust on first use lets two
  extensions in at most.
- *WebSocket client*: one connection; never stranded; closed for good; no circle of
  waiting.
- *handoff, boot and bridge*: a daemon that is up can be found; a bridge that has closed has
  seen the end of the daemon it started or killed it, unless the system refused to; closing ends;
  no daemon outlives its Vite process.
- *plugin and writer*: one owner of the manifest; nobody else writes it; what is committed
  reaches the disk.
- *MCP shim*: a call that one daemon serves throughout does not end in vain because of what is cached
  of another. It may all the same: if that daemon times out twice or turns it away (429, an error
  status), in the second after this, and once the breaker is open.
- *service worker and panel*: the panel shows what the worker has; a panel that lost its port
  comes back; every pick ends.
- *picker*: it leaves nothing behind; it commits what was hovered; a modal ends it.

## 2. Modules

| Module | Models | Extends |
|---|---|---|
| `RpcCorrelation` | the correlation table, as operators | |
| `Events` | the subscriber slot and the bus's subscriber set, which must agree | |
| `BrowserTools` | the proxy: handlers, subscriber, shutdown | `RpcCorrelation`, `Events` |
| `EventBus`, `MCEventBus` | sequence numbers, ring, resync, backpressure | `Events` |
| `ManifestFeed` | abstract: what readers of the manifest cache may rely on | |
| `ManifestWatcher` | the watcher; implements `ManifestFeed` | instance of `ManifestFeed` |
| `SelectionState`, `MCSelectionState` | the selection over any cache that `ManifestFeed` allows | `ManifestFeed` |
| `CloseReducer` | the pure close-code reducer | |
| `WsClient` | the client around it | `CloseReducer` |
| `Sessions`, `MCSessions` | exchange and revalidation, over restarts of the daemon | |
| `Handoff` | the daemons of a project, their handoff file and the bridges that fork and stop them | |
| `DevServer` | the dev servers of a project, their transforms and their manifest writers | |
| `McpBackend` | the shim's calls against daemons that come and go | |
| `PanelPort` | the ports between panel and worker | |
| `ServiceWorker` | router and picks around them, with a daemon that is replaced | `PanelPort` |
| `Picker`, `MCPicker` | the picker in a page of its own mind | |
| `BrowserToolsProofs`, `EventBusProofs`, `SelectionStateProofs`, `SessionsProofs`, `WsClientProofs` | theorems | the module they are about |
| `ManifestWatcherProofs` | theorems on the reader of `manifest.json` and on those who write it | `ManifestWatcher`, `DevServer` |
| `HandoffProofs` | theorems on the handoff file's writers and on its reader | `Handoff`, `McpBackend` |
| `ServiceWorkerProofs` | theorems on the extension: panel, worker and page | `ServiceWorker`, `Picker` |

The specifications of `DevServer`, `McpBackend` and `Picker` are called `ServersSpec`, `ShimSpec`
and `PickerSpec`, with `ServersInit` and so on, so that one module can have theorems about
two components.

An action is the code between two awaits (or two callbacks) of one handler,
because JavaScript runs that without interruption. For example a browser-tool call
is `Begin` (up to `await readJsonBody`), `BodyFails` or `Forward` (up to
`await register`), and then whatever settles it: `Timer`, `Answer`, `Disconnect`
or `Shutdown`. Likewise an exchange is `ReceiveExchange`, then `Exchange` or `Fail`. The
continuation of a settled promise runs as a microtask before
any other event, so settling and answering are one action. `Handoff` has several
processes, which interleave between system calls, not between awaits: claiming the file is
`Open`, `Examine`, `UnlinkStale`, `Reopen`, `Guard`, `Write`, each of which another process
may see, and before each of which the process may be killed.

What carries the composition. `Events` is shared: `BrowserTools` and
`EventBus` both extend it, so that the slot is the same in both, and each adds its
own view of a paused subscriber. `BrowserTools` lets a broadcast pause any reachable
subscriber at any time, which covers what `EventBus` does. `SelectionState` takes the manifest
cache from `ManifestFeed`, and the refinement shows that the real watcher allows no
other behaviour of the cache. `ServiceWorker` extends `PanelPort`: the router pushes through
the same port table that hellos, disconnects and a stopped worker change. The daemons that
`McpBackend` sees are those of `Handoff` seen from outside: listening, published, draining,
gone or crashed, with the order of these steps and the file they leave.

What stands for code outside the repository, and what is assumed of it:

- *`ws`*: `ws.close()` keeps the socket in its set until `'close'`; frames received
  while closing are still delivered; frames sent while closing are kept and never
  sent, so `bufferedAmount` does not fall. Whether and when a `'drain'` event comes
  is left open.
- *`fs.watch`*: may miss any event. On an error Node closes the watcher.
- *the manifest file*: replaced by rename, so that a descriptor reads one version; versions
  have growing mtimes. A bad version stands for one too large, cut short, not JSON or not
  of the schema.
- *the handoff file*: `open` with `wx` is atomic; a write goes to the descriptor, whatever has
  the name by then; the pid of a dead daemon is not given to another process.
- *processes*: SIGTERM before the handlers are registered kills; a child that is up hears of
  the end of its parent, by the `disconnect` event or the poll of its ppid; one that
  still boots dies when it writes its ready line to a closed pipe. A signal of the bridge may fail
  (the code swallows the error) and `taskkill` may exit non-zero (the code warns that "manual
  cleanup may be required"): the bridge is then `refused` and not `closed`, and its daemon may go
  on. That `taskkill` cannot even be spawned, which the code does not handle, is not in the model.
- *time*: a timer may fire at any moment after it is armed. In `CloseReducer`,
  whether the give-up window is over is a choice (`late`), except at the first failure. In
  `McpBackend` any of the delays may be the shorter: the unreachable window ends, and a retry
  wakes up, at any moment, also while the daemon of the cached handoff drains.
- *requests*: `Sessions` lets any client ask anything: an exchange or a revalidation of any
  extension with any nonce, at any time. A session token is the number of its
  minting, and `issued` remembers what it was minted from. That an exchange showed the
  wrong bootstrap token, a bad body or a used nonce is one action, `Fail`, as all of them
  leave the same state. The daemon enforces no expiry of a session, so none is in the model.
- *buckets*: a function from extensions to tokens left. The peer is always the loopback. A
  refill may bring any number of tokens, one after the other, which covers the eviction of a
  bucket from its map.
- *the pin file*: may fail to be written or removed. A comment (`exchange.ts:219`) says the
  pin then applies in memory; the code reads the file each time, so it does not, and
  `AtMostTwoOrigins` speaks of lives in which the file could be written (`unpinned`).
- *handles*: an id with a place (file and line range); a manifest covers a place or
  not (`Covers`).
- *Chrome*: the messages of one panel reach the worker in the order they were sent, also over
  two ports; a port that one side has disconnected delivers nothing more to it; a stopped
  worker loses its memory and its ports, and messages it has not answered fail in the page.
- *the page*: a script may move the focus, remove elements, open and close modals and dispatch
  clicks at any time; the mutation observer is called as a microtask, so before the next
  frame, timer or message. A shadow root may list its own host, as it does in a browser, and
  elements behind it. That it lists no other element which it is inside of, so that the recursion
  of the hit test ends, is an assumption (`DomIsWellFormed`). Modals inside of shadow roots, which
  neither the query of the picker nor its observer reaches, are outside of the model.
- *requests of the shim*: a fetch answers, throws, or times out, whoever listens; a body that
  breaks off after its headers counts as a fetch that throws.
- *Babel*: an await of any length, with or without a batch at its end.

## 3. Runs

`tlc -config X.cfg M` with the module and configuration that PROJECT.json names.
Deadlock checking is off in all but the runs of the picker: bounded histories end, a daemon may
exit, and a closed bridge does nothing more.

| Run | Instance | Shows |
|---|---|---|
| `browser_tools` | 3 calls that repeat for ever, 2 slots, 2 connections | slots, blame, waiting; under fairness every call is answered and slots come back |
| `event_bus` | 6 frames, ring 2, marks 2 and 3 units, 2 connections, drain limit 3 | ring, resync, buffer, order, completeness |
| `manifest_watcher` | 3 versions of 2 contents or bad, one restart | cache is of one version, refinement, catches up |
| `selection` | 4 clicks, 4 ids, 3 tabs, history 3, 2 counters, 2 versions | history, staleness, wire, LRU counters, click moment |
| `sessions` | 3 extensions, 2 requests at a time, 2 nonces, memory of 1 nonce, 3 sessions, 2 lives, any pin at the start | nonces, descent, trust |
| `ws_client` | caps 3 and 2, 2 revalidations at a time | one connection, never stranded, closed for good, waiting ends |
| `handoff` | 2 bridges, each with a daemon, both platforms, a stale file or none | who is up is found, who was closed (and not refused) is dead, no orphans, closing ends |
| `dev_server` | 2 servers, 2 files, 2 edits each | one owner, writes are owned, commits reach the disk |
| `mcp_backend` | 2 calls at a time, 2 daemons, 2 ports, breaker at 5, 2 mishaps (a timeout, 429 or error of a daemon that serves) | steady calls do not end in vain but for these and the breaker, the shim recovers |
| `service_worker` | 2 picks, 2 daemons, 3 ports, 1 sleep, 1 snapshot under way | panel mirrors worker, resync ends, picks end |
| `picker` | 3 elements, one with an open shadow root that lists its own host, 2 points, 2 pointer types, 3 modals | clean, committed what was hovered, gives up over modals |
| `open_modal_is_no_obstacle` | as `picker` | section 4 |

Bounds and why they suffice. Three calls over two slots is the least at which one call is
refused for lack of a slot while two others settle in any order; two connections
let one replace or be refused by the other. A ring of two overflows after three
frames, so six give every resync case, at and around the boundary, several times; four
units of buffer lie below, between and above both watermarks. Three versions let one be
read, one arrive during the read and one after; one watcher failure doubles the
stat poll. Four clicks fill a history of three and evict, promote and repeat;
three tabs overflow two counters. Three extensions are one more than trust on first use
may let in; two nonces over a memory of one make the memory overflow at every other
session, and three sessions use a nonce again after that; two requests interleave in every
order. In `WsClient` nothing but the two caps is bounded
and the number of revalidations under way. `Handoff` and `Picker` bound nothing but their
sets: two bridges are two claims that interleave at every system call, with a third daemon,
dead, as the author of the first file; three elements are one that is hovered, one behind it
and one in its shadow. Two servers are one that closes late and its successor, and the
second edit of a file is what a late flush would lose. Two daemons
over two ports let the second have the port of the first or not; two calls share a cache
that either may refill or empty under the other, and two mishaps are the two timeouts that make a
call give up on a daemon that serves, or one before and one after the window it opens. Three ports let one be closed, one lost and
one be current, one sleep loses everything once, and two picks interleave at every await.
The proofs of section 5 do away with most of these bounds.

Fairness, all of it weak, on what the event loop or the system runs by itself.
`BrowserTools`: Node fires the timer of a registered call, and ends or
breaks off a request body; nothing is assumed of the extension.
`ManifestWatcher`: timers fire, file operations end, the stat-poll interval runs;
nothing is assumed of watch events, nor of the plugin. `WsClient`: timers fire, and token
fetches and revalidations end, as they have timeouts of their own. `Handoff`: a process that
runs gets on with its boot and its drain, and the timers of the bridge fire; nobody has to
start, close or kill anything. `DevServer`: the max-wait timer fires; the debounce, which
every commit starts again, need not. `McpBackend`: every fetch has its timeout, every sleep
its timer, every drain its deadline, and the unreachable window runs out, as the calls that it
refuses do not open it again; that the shim goes on being asked and that one
daemon stays are premises of `Recovers` itself. `ServiceWorker`: messages on ports are
delivered, requests have their timeouts. `EventBus`, `SelectionState`, `Sessions`
and `Picker` promise nothing about time and have safety properties only; symmetry is
used in the first three of these and nowhere else.

Type invariants. Those of all modules (`TypeOK`, in `DevServer`, `McpBackend` and `Picker`
`ServersTypeOK`, `ShimTypeOK` and `PickerTypeOK`) are proved (section 5) and need no run; add
them as an `INVARIANT` to a configuration to have TLC confirm them. The same goes for other
invariants that are proved and that no configuration lists: `PendingIsWaiting`,
`SlotMatchesBus`, `NewestIsActive`, `NeverOlder`, `FiredTimerIsCleared`.

## 4. Where the code and its documents disagree

One disagreement is a run that must find a violation; PROJECT.json quotes the lines.

- `open_modal_is_no_obstacle`: the observer ends a picking that was armed inside of an open dialog
  at the first mutation of the page, be it the picker's own announcement, though the design
  (`docs/superpowers/specs/2026-04-19-chrome-extension-v0-design.md:245`) says that attaching
  there "preserves pick functionality when debugging modal-heavy apps".

The others have a configuration to run by hand, named after the module and the property,
which TLC finds violated. `DD` is `docs/superpowers/specs/2026-04-19-daemon-v0-design.md`,
`XD` the design of the extension quoted above.

- `BrowserTools_TimeoutMeansProxied`: a call whose subscriber went away, or was paused, while its
  body was read is answered 504 after the timeout (`browserTools.ts:94`), as if the extension
  had been asked; `DD:256` says of 504 "we proxied to ext and it didn't respond".
- `BrowserTools_ShutdownLeavesNoneWaiting`: a call that is still reading its body when the shutdown
  rejects the pending ones (`lifecycle.ts:62`) is never answered; `DD:159` says "in-flight
  browser-tool RPCs respond McpError(Shutdown), not hang".
- `EventBus_ResumedIsInSync`: a subscriber that resumes after a drain (`eventBus.ts:102`) gets no
  hello, and does not learn that it missed frames; `DD:393` says "daemon unpauses and
  broadcasts a fresh `hello` frame".
- `SelectionState_FrameTellsProvenance`: promoting a selection (`selection.ts:107`) announces a
  staleness that its record does not get; `DD:483` calls the staleness of the frame
  "the one provenance field on the wire".
- `WsClient_AuthLoopEnds`: 1002 for ever leads to reconnects for ever, without delay
  (`closeReducer.ts:199`); `XD:282` says the revalidations are capped "to prevent infinite
  revalidate↔1002 loop".
- `Sessions_RevalidatePresentsActive`: the session that a revalidation shows is checked before
  its body is awaited (`revalidate.ts:204`), and may have been ended when it is replaced;
  `revalidate.ts:11` says it must be "currently-active".
- `ServiceWorker_RotationIsFollowed`: a tab that registers a new bootstrap token keeps the session of
  the old one until it nears its expiry (`messageRouter.ts:37`);
  `docs/superpowers/plans/2026-04-20-daemon-vite-token-sync.md:461` says "Next `get-manifest`
  triggers a fresh exchange with the new token".
- `Picker_CommitIsConnected`: a click commits the element that the last frame hovered, though the page
  has removed it since (`picker.ts:483`); `XD:248` says "Check `lastHoverTarget.isConnected`; if
  false (HMR swapped subtree between hover and click), re-resolve via `elementsFromPoint` at last
  mouse coords".
- `McpBackend_RespawnIsBenign`: one daemon that is replaced on the same port is enough for concurrent
  calls to collect five 401s before one of them finds the new handoff; they all count against
  the instance that is still cached, and the breaker opens for good. `daemonBackend.ts:195`
  says "daemon respawn rotates token benignly".

Also seen while modelling, and given no configuration:

- *Daemon*: a reread in flight at `stop()` fills the manifest cache again. Attempts at an
  exchange are charged before they fail, so that six at once from one origin leave one
  refused though none failed (`exchange.ts:15` says only failed ones count). The map of
  buckets may outgrow its cap, as a reset does not look at it. `GET /selection` never
  answers 503.
- *Handoff*: a handoff file that a crash has left cut short is never reclaimed, since a file
  that does not parse ends the boot (`Examine`). Two boots that claim a stale file at the same time may leave
  a daemon that nobody can find (`overlap`). The shim looks for the file elsewhere than the
  daemon puts it on Linux when `XDG_RUNTIME_DIR` is not set (`daemonBackend.ts:80`,
  `handoff.ts:29`).
- *Bridge*: a bridge whose daemon has crashed asks the daemon of another bridge to stop
  (`Posted`). After the ready timeout the child is left to itself. There is no respawn.
  The daemon has no handler for the stdin message that the bridge sends on Windows, so that
  path always ends in `taskkill`. The SIGINT handler of the bridge suppresses the default
  exit.
- *Plugin*: `closeBundle` sets the client to null, and a transform that ends afterwards throws
  a TypeError. A rename that is given up is not tried again before the next commit. A crash,
  or a first write that fails, leaves the owner lock.
- *Extension*: the listener for `toggle` does nothing (`picker.ts:24` says modals are
  detected by it); `pointercancel`
  leaves the pending frame, which hovers again. The result of `hydrate` is not used, and
  the modules of the last but one row of the inventory are not wired.

## 5. Proofs

`tlapm M.tla` proves every obligation of the eight `*Proofs` modules. Nothing is
assumed but the named assumptions about constants: finite sets of calls, positive
caps, watermarks in order, null values that are not values, and in `Picker` that
the page is a DOM (`DomIsWellFormed`: its own host apart, no shadow root lists an element that it
is inside of, however deep; the overlay's host and highlight are no elements of the page). TLC evaluates each of them.

- `BrowserToolsProofs`: the inductive invariant is the conjunction of the checked
  invariants. None of them is inductive alone: the count of slots needs the table
  to hold exactly the waiting calls, since a disconnect settles the table; and that
  calls wait on the present subscriber only needs slot and bus to agree, since a new
  connection is accepted only when the slot is free, and then no call may be waiting on
  an old one. `SettleCounts` does the cardinality once.
- `EventBusProofs`: adds that no number sent is from the future and that a
  subscriber that was paused is not lossless. `ResyncIsExact` needs no induction of its
  own: `RingDecides` derives it from the exact ring.
- `ManifestWatcherProofs`: adds the single flight (one reread, and `inFlight` says so)
  and that an open descriptor is not older than the cache. From these follow
  `CacheNeverOlder` and, step by step, the refinement `WatcherImplementsFeed`.
- `WsClientProofs`: adds that give-up latches before the count of failures passes the cap and
  that a disposed client has no timer. One lemma (`NextStateOK`) says all that
  is needed about the reducer.
- `SessionsProofs`: adds that the history holds nothing from the future (`HistoryOK`), that
  the nonces of this life and era are remembered (`NoncesKept`), that active and
  shown sessions are of this life and their extension, and `Pinned`: the extensions with
  sessions are origins of the boot window or the pinned one, and the pin is an origin if
  there is one. That makes the auto-reset safe: with at most one origin so far, that origin
  is the pin. `IssueAppends`, `NoncesStep` and `SessionsStep` serve both routes.

- `HandoffProofs`: `UpIsFound` needs what the file is at every step of a claim (`FileIsRight`): as long as
  no two claims have overlapped, a file that has been created is its creator's, half written
  until `Write` and whole from then on; a claim that found the file stale has seen a writer that is
  dead, and stays so (`WriterHasStarted`, since a daemon is forked once: `OffHasNone`); one
  that has unlinked it finds no file. Steps fall into five kinds (`PlainMove`, `ClaimingMove`,
  `SignalMoves`, `OutsideMoves`, `NoMove`), and each action is one of them. `ClosedIsDead`
  holds because a bridge closes on the end of its own daemon's output or by a kill that works, and
  nothing leads away from "dead". It needs no assumption on overlaps, and says nothing of a
  bridge whose kill was refused.
  For the shim, `SteadyIsAnswered` needs to know where a steady call stands (`SteadyCalls`): the daemon
  that serves has served since the call began, and what the call has looked up
  again since is this daemon's handoff. A 401 or a lost connection can then only come of an older
  handoff, and the attempt after it reaches the daemon, as nobody else has its port
  (`SteadyListens`, from `OneAtATime`). The proof must also know who has opened the unreachable window,
  which refuses calls (`WindowIsExcused`): no steady call does, short of the breaker, unless its
  daemon has let it down; `excused` is the history that says so. An attempt at the proof that an open breaker stays open
  failed for a good reason: the model let the 401 of a concurrent call, counted for another
  instance, close it again, which `markUnreachable` never does. The model was corrected
  (`Unauthorized`).
- `ManifestWatcherProofs` also has the dev servers. `OneServes` is inductive with the types: who serves has
  the lock, timers are only armed by who serves, and the lock of who serves is never removed.
  `WritesAreOwned` follows, since only timers, the constructor and `shutdown()` write.
- `SelectionStateProofs`: first what the list operations do, index by index
  (`RemoveAtOK` and the lemmas on pushing and cutting), as a promotion removes, pushes and cuts in
  one step. `HistoryWellFormed`, `StaleMeansUncovered` and `WireIsCurrent` are inductive together with the
  types (`SelectionOK`), each kept by every kind of click and by the rescan that follows a new
  manifest. `TabSeqIsLRU` is the hard one: the counters kept must be those of the tabs used last. The history of
  clicks gives every tab a last use, the order of the counters is the order of these
  (`TabsInOrder`), a tab that was evicted was used before all that are left (`EvictedAreOlder`), and
  as long as no more tabs were used than there are counters, nobody is evicted (`NoneEvicted`, by
  cardinalities) and each counter is the number of its tab's clicks (`CountersCount`).
- `ServiceWorkerProofs`: `QuietMirrors` speaks of the moments when nothing is under way. The invariant
  says what is under way at the others: hellos and byes alternate (`Alternates`), the last of them
  tells which port the panel has (`LastIsPort`), the first one which port the worker still pushes to,
  a panel whose port a stopped worker has lost is going to be told (`WorkerFollows`), and the last
  snapshot on its way on a live port is the cached one (`Mirrors`). The router needs only its types.
  The picker is proved for every page that `DomIsWellFormed` allows. What a frame hovers is what `hitTest` computes by
  recursion into open shadow roots; that this recursion has a value
  (`SolutionExists`), and that its value is an element at the point (`HitIsThere`), are proved by a least
  counterexample over what shadow roots list, their own hosts apart, which `DomIsWellFormed` gives. The invariant adds
  that an armed picker listens and observes (`ArmedObserves`) and that what is hovered, or is
  going to be, was visited since this arming (`HoverIsFresh`).

So every safety invariant and every action property that a passing run checks is a theorem. What is
only model-checked is liveness (`EveryCallIsAnswered`, `SlotsComeBack`, `CatchesUp`, `WaitingEnds`,
`NoneOutlives`, `ClosingEnds`, `CommitsReachDisk`, `Recovers`, `ResyncEnds`, `PickEnds`): the prover
does not handle fairness.

## 6. Not modelled, and the plan

PROJECT.json gives a status to every component. Left out for good: the Babel transform,
DOM and fibre reading, rendering, schemas, logging, and the read-only routes; they have
no state that the order of events could spoil. The gates on headers and versions before an
upgrade or a route decide which requests get in, and change nothing. `connPool.ts`, `exchange.ts`,
`manifestCache.ts`, `alarms.ts` and `rpc.ts` of the extension are not wired in `sw/index.ts`:
no run of the program reaches them, and a model of how they would be used would be a guess.

Next, in this order:

1. The composition of `WsClient` with `Events` over a lossy network, where 4409 meets a slot
   that is not free yet, once the client is wired in the worker.
2. `Handoff` as an implementation of the daemons that `McpBackend` assumes, and `DevServer` of
   the environment of `ManifestFeed`.
3. The pool, the exchange controller and the manifest cache, once they are wired.
