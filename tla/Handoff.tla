------------------------------ MODULE Handoff ------------------------------
(***************************************************************************)
(* The daemons of one project and the file that tells where they listen:   *)
(* packages/daemon/src/{handoff,child,lifecycle,index}.ts and the bridge   *)
(* of the Vite plugin, packages/vite/src/integration/daemonBridge.ts.      *)
(*                                                                         *)
(* A bridge starts at most one daemon, so a daemon is known by its bridge. *)
(* Each action is what one process does between two system calls that the  *)
(* other processes can see: claiming the file takes open, read and kill,   *)
(* unlink, open again, lstat, write, in this order.  A process may die     *)
(* before any of them.  The pid of a dead daemon is not given to another   *)
(* process.                                                                *)
(***************************************************************************)

CONSTANTS
    Bridges,  \* Vite servers of the project, one after the other or side by side
    Ghost,    \* a daemon of an earlier day that died without removing the file
    Missing   \* the writer of a file that is not there

ASSUME ProcessValues ==
    Ghost \notin Bridges /\ Missing \notin Bridges /\ Ghost # Missing

VARIABLES
    platform, \* process.platform
    file,     \* the handoff file: who created it, whether its JSON is all there
    child,    \* where each daemon stands
    ready,    \* the daemons that have written their ready line
    bridge,   \* where each DaemonBridge stands: its shutdown() is over when "closed", and when
              \* "refused", where the system would not kill; "gone" when its Vite process is
    asked,    \* whom tryPostShutdown takes from the file
    called,   \* shutdownCalled
    overlap   \* history: two daemons have been claiming the file at the same time

vars == <<platform, file, child, ready, bridge, asked, called, overlap>>
bridgeVars == <<bridge, asked, called>>

Claiming == {"open", "exists", "stale", "reopen", "guard", "write", "announce"}
Booting == {"boot"} \cup Claiming
Running == {"up", "orphan"}      \* listening, with its handlers; an orphan has lost its parent
ChildStates == {"none", "dead", "draining"} \cup Booting \cup Running
BridgeStates ==
    {"off", "starting", "without", "running", "posting", "posted", "term", "ack", "closed",
     "refused", "gone"}

TypeOK ==
    /\ platform \in {"posix", "win32"}
    /\ file \in [by : Bridges \cup {Ghost, Missing}, whole : BOOLEAN]
    /\ child \in [Bridges -> ChildStates]
    /\ ready \subseteq Bridges
    /\ bridge \in [Bridges -> BridgeStates]
    /\ asked \in [Bridges -> Bridges \cup {Ghost, Missing}]
    /\ called \subseteq Bridges
    /\ overlap \in BOOLEAN

NoFile == [by |-> Missing, whole |-> FALSE]

Init ==
    /\ platform \in {"posix", "win32"}
    /\ file \in {NoFile, [by |-> Ghost, whole |-> TRUE]}
    /\ child = [b \in Bridges |-> "none"]
    /\ ready = {}
    /\ bridge = [b \in Bridges |-> "off"]
    /\ asked = [b \in Bridges |-> Missing]
    /\ called = {}
    /\ overlap = FALSE
-----------------------------------------------------------------------------
\* process.kill(pid, 0) finds a process.
Alive(d) == d \in Bridges /\ child[d] \notin {"none", "dead"}

\* The daemon moves on; the history notes whether two are at the file.
Goes(b, to) ==
    /\ child' = [child EXCEPT ![b] = to]
    /\ overlap' = \/ overlap
                  \/ \E d, e \in Bridges : d # e /\ {child'[d], child'[e]} \subseteq Claiming

Dies(b) == Goes(b, "dead")

BridgeGoes(b, to) == bridge' = [bridge EXCEPT ![b] = to]

-----------------------------------------------------------------------------
(***************************************************************************)
(* The daemon: main() of child.ts                                          *)
(***************************************************************************)
\* Manifest watcher warmed, port found, server listening; the handoff is next.
Listening(b) ==
    /\ child[b] = "boot"
    /\ Goes(b, "open")
    /\ UNCHANGED <<platform, file, ready, bridgeVars>>

\* openSync(path, 'wx') creates the file, empty, or fails with EEXIST.
Open(b) ==
    /\ child[b] = "open"
    /\ \/ file = NoFile /\ file' = [by |-> b, whole |-> FALSE] /\ Goes(b, "guard")
       \/ file # NoFile /\ Goes(b, "exists") /\ UNCHANGED file
    /\ UNCHANGED <<platform, ready, bridgeVars>>

\* Mutant of Examine: the file is taken over whoever wrote it.
ExamineUnprobed(b) ==
    /\ child[b] = "exists"
    /\ IF file.whole THEN Goes(b, "stale") ELSE Dies(b)
    /\ UNCHANGED <<platform, file, ready, bridgeVars>>

\* The file of another is read and its pid probed: a file that is gone again, that
\* does not parse, or whose daemon lives, ends the boot.
Examine(b) ==
    /\ child[b] = "exists"
    /\ IF file.whole /\ ~Alive(file.by) THEN Goes(b, "stale") ELSE Dies(b)
    /\ UNCHANGED <<platform, file, ready, bridgeVars>>

UnlinkStale(b) ==
    /\ child[b] = "stale"
    /\ IF file = NoFile THEN Dies(b) ELSE Goes(b, "reopen")
    /\ file' = NoFile
    /\ UNCHANGED <<platform, ready, bridgeVars>>

Reopen(b) ==
    /\ child[b] = "reopen"
    /\ \/ file = NoFile /\ file' = [by |-> b, whole |-> FALSE] /\ Goes(b, "guard")
       \/ file # NoFile /\ Dies(b) /\ UNCHANGED file
    /\ UNCHANGED <<platform, ready, bridgeVars>>

\* lstat(path) must find the inode that was opened; Windows does not look.
Guard(b) ==
    /\ child[b] = "guard"
    /\ IF platform = "win32" \/ file.by = b THEN Goes(b, "write") ELSE Dies(b)
    /\ UNCHANGED <<platform, file, ready, bridgeVars>>

\* The bytes go to the descriptor, which need not be the file of that name any more.
Write(b) ==
    /\ child[b] = "write"
    /\ file' = IF file.by = b THEN [file EXCEPT !.whole = TRUE] ELSE file
    /\ Goes(b, "announce")
    /\ UNCHANGED <<platform, ready, bridgeVars>>

\* A failed write removes whatever has the name, and ends the boot.
WriteFails(b) ==
    /\ child[b] = "write"
    /\ file' = NoFile
    /\ Dies(b)
    /\ UNCHANGED <<platform, ready, bridgeVars>>

\* Mutant of Announce: a ready line nobody can read is not an error.
AnnounceToNobody(b) ==
    /\ child[b] = "announce"
    /\ ready' = ready \cup {b}
    /\ IF file = NoFile THEN Dies(b) ELSE Goes(b, "up")
    /\ UNCHANGED <<platform, file, bridgeVars>>

\* The handlers are registered and the ready line is written, which fails when the
\* parent is gone; then realpath(handoffPath) fails when the file is.
Announce(b) ==
    /\ child[b] = "announce"
    /\ \/ /\ bridge[b] = "gone"
          /\ Dies(b)
          /\ UNCHANGED ready
       \/ /\ bridge[b] # "gone"
          /\ ready' = ready \cup {b}
          /\ IF file = NoFile THEN Dies(b) ELSE Goes(b, "up")
    /\ UNCHANGED <<platform, file, bridgeVars>>

\* An 'error' of the manifest or the port before all this: main() rejects.
BootFails(b) ==
    /\ child[b] = "boot"
    /\ Dies(b)
    /\ UNCHANGED <<platform, file, ready, bridgeVars>>

\* SIGTERM or SIGINT: the handlers exist only in a daemon that is up.
Signalled(d) == IF child[d] \in Running THEN "draining" ELSE child[d]
Terminated(d) == IF child[d] \in Booting THEN "dead" ELSE Signalled(d)

\* process.kill(pid, 'SIGTERM') of the bridge, which swallows what the system says to it.
Sigterm(b) == Goes(b, Terminated(b)) \/ UNCHANGED <<child, overlap>>

\* Ctrl-C at the terminal of the Vite server reaches its daemon as well.
Interrupt(b) ==
    /\ child[b] \in Booting \cup Running
    /\ Goes(b, Terminated(b))
    /\ UNCHANGED <<platform, file, ready, bridgeVars>>

\* The 'disconnect' event or the ppid poll of a daemon that was up when its parent ended.
Orphaned(b) ==
    /\ child[b] = "orphan"
    /\ Goes(b, "draining")
    /\ UNCHANGED <<platform, file, ready, bridgeVars>>

\* The end of shutdownGracefully, after the drain: the name is unlinked, whose file it
\* may be, and the process exits.
Finish(b) ==
    /\ child[b] = "draining"
    /\ file' = NoFile
    /\ Dies(b)
    /\ UNCHANGED <<platform, ready, bridgeVars>>

\* SIGKILL, or the machine.
Crash(b) ==
    /\ Alive(b)
    /\ Dies(b)
    /\ UNCHANGED <<platform, file, ready, bridgeVars>>
-----------------------------------------------------------------------------
(***************************************************************************)
(* The bridge                                                              *)
(***************************************************************************)
\* start(): the package is imported and startDaemon() forks the daemon, or the import
\* fails and the plugin goes on without.
Start(b) ==
    /\ bridge[b] = "off"
    /\ \/ BridgeGoes(b, "starting") /\ Goes(b, "boot")
       \/ BridgeGoes(b, "without") /\ UNCHANGED <<child, overlap>>
    /\ UNCHANGED <<platform, file, ready, asked, called>>

\* startDaemon() resolves, and start() keeps the handle.
Ready(b) ==
    /\ bridge[b] = "starting" /\ b \in ready
    /\ BridgeGoes(b, "running")
    /\ UNCHANGED <<platform, file, child, ready, asked, called, overlap>>

\* startDaemon() rejects: the daemon has exited, or two seconds have passed, after which
\* it is left to itself.
NotReady(b) ==
    /\ bridge[b] = "starting"
    /\ BridgeGoes(b, "without")
    /\ UNCHANGED <<platform, file, child, ready, asked, called, overlap>>

\* shutdown(): only the first call does anything, and only with a handle.
Close(b) ==
    /\ bridge[b] \in {"off", "starting", "without", "running"} /\ b \notin called
    /\ called' = called \cup {b}
    /\ \/ /\ bridge[b] # "running"
          /\ UNCHANGED <<child, overlap, bridge, asked>>
       \/ /\ bridge[b] = "running" /\ platform = "win32"
          /\ BridgeGoes(b, "ack")
          /\ UNCHANGED <<child, overlap, asked>>
       \/ /\ bridge[b] = "running" /\ platform = "posix" /\ file.whole
          /\ BridgeGoes(b, "posting")
          /\ asked' = [asked EXCEPT ![b] = file.by]
          /\ UNCHANGED <<child, overlap>>
       \/ /\ bridge[b] = "running" /\ platform = "posix" /\ ~file.whole
          /\ BridgeGoes(b, "term")
          /\ Sigterm(b)
          /\ UNCHANGED asked
    /\ UNCHANGED <<platform, file, ready>>

\* POST /shutdown reaches the daemon of the file, which accepts its own token and
\* instanceId, answers, and drains; this daemon need not be the one of the bridge.
Posted(b) ==
    /\ bridge[b] = "posting" /\ asked[b] \in Bridges /\ child[asked[b]] \in Running
    /\ BridgeGoes(b, "posted")
    /\ Goes(asked[b], "draining")
    /\ UNCHANGED <<platform, file, ready, asked, called>>

\* The request fails, or its answer, or the daemon's output does not end in half a second.
Unposted(b) ==
    /\ bridge[b] \in {"posting", "posted"}
    /\ BridgeGoes(b, "term")
    /\ Sigterm(b)
    /\ UNCHANGED <<platform, file, ready, asked, called>>

\* Mutant of Ended: an acknowledged request is taken for the end of the daemon.
EndedWhenPosted(b) ==
    /\ bridge[b] \in {"posted", "term"}
    /\ bridge[b] = "term" => child[b] = "dead"
    /\ BridgeGoes(b, "closed")
    /\ UNCHANGED <<platform, file, child, ready, asked, called, overlap>>

\* The output of the daemon has ended.
Ended(b) ==
    /\ bridge[b] \in {"posted", "term"} /\ child[b] = "dead"
    /\ BridgeGoes(b, "closed")
    /\ UNCHANGED <<platform, file, child, ready, asked, called, overlap>>

\* The system kills, or it does not: taskkill exits non-zero, which is a warning, or the
\* error of the signal is swallowed.  Either way shutdown() is over.
Killed(b) ==
    \/ BridgeGoes(b, "closed") /\ Dies(b)
    \/ BridgeGoes(b, "refused") /\ UNCHANGED <<child, overlap>>

\* Mutant of Kill: on Windows the acknowledgement is waited for without a limit.
KillNotWindows(b) ==
    /\ bridge[b] = "term"
    /\ Killed(b)
    /\ UNCHANGED <<platform, file, ready, asked, called>>

\* SIGKILL after two seconds; taskkill after an acknowledgement no daemon ever gives.
Kill(b) ==
    /\ bridge[b] \in {"term", "ack"}
    /\ Killed(b)
    /\ UNCHANGED <<platform, file, ready, asked, called>>

\* The Vite process ends, closed or not.  A daemon that is up will hear of it.
ViteExits(b) ==
    /\ bridge[b] \notin {"off", "gone"}
    /\ BridgeGoes(b, "gone")
    /\ IF child[b] = "up" THEN Goes(b, "orphan") ELSE UNCHANGED <<child, overlap>>
    /\ UNCHANGED <<platform, file, ready, asked, called>>

Boot(b) ==
    \/ Listening(b) \/ BootFails(b)
    \/ Open(b) \/ Examine(b) \/ UnlinkStale(b) \/ Reopen(b)
    \/ Guard(b) \/ Write(b) \/ WriteFails(b) \/ Announce(b)

Escalate(b) == Posted(b) \/ Unposted(b) \/ Ended(b) \/ Kill(b)

Next == \E b \in Bridges :
    \/ Boot(b) \/ Interrupt(b) \/ Orphaned(b) \/ Finish(b) \/ Crash(b)
    \/ Start(b) \/ Ready(b) \/ NotReady(b) \/ Close(b) \/ Escalate(b) \/ ViteExits(b)

\* A process that runs gets on with its boot and its drain, and its events and timers
\* come; nobody has to start, close, interrupt or crash anything.
Fairness == \A b \in Bridges :
    /\ WF_vars(Boot(b)) /\ WF_vars(Orphaned(b)) /\ WF_vars(Finish(b))
    /\ WF_vars(Ready(b) \/ NotReady(b)) /\ WF_vars(Escalate(b))

Spec == Init /\ [][Next]_vars /\ Fairness
-----------------------------------------------------------------------------
\* A daemon that is up can be found: the file is its own and whole.  Two daemons that
\* claim a stale file at the same time break this (one unlinks the file the other has
\* just created, handoff.ts:142), so it is stated for boots that did not overlap.
UpIsFound ==
    ~overlap => \A b \in Bridges :
        child[b] \in Running => file = [by |-> b, whole |-> TRUE]

\* A shutdown() that is over has seen the end of the daemon it started, or has killed it,
\* though the request to stop may have gone to another one, or to a file that is gone
\* (daemonBridge.ts:285).  Of one whose kill the system has refused nothing is promised:
\* the code only warns of it.
ClosedIsDead == \A b \in Bridges : bridge[b] = "closed" => child[b] = "dead"

\* No daemon outlives the Vite process that forked it, wherever in its boot the parent
\* went: also one that shutdown() never knew of (daemonBridge.ts:240, index.ts:33), or was
\* not allowed to kill.
NoneOutlives == \A b \in Bridges : bridge[b] = "gone" ~> child[b] \in {"none", "dead"}

\* shutdown() comes to an end, whoever answers or does not.
ClosingEnds == \A b \in Bridges :
    bridge[b] \in {"posting", "posted", "term", "ack"}
        ~> bridge[b] \in {"closed", "refused", "gone"}
=============================================================================
