--------------------------- MODULE ManifestWatcher ---------------------------
(***************************************************************************)
(* packages/daemon/src/state/manifestWatcher.ts: directory watch events    *)
(* (which get lost), a debounce timer, a stat poll and restarts of the     *)
(* watcher all lead to reread(), of which one runs at a time.  Each action *)
(* is the code between two awaits.  The file is replaced by rename, so an  *)
(* open descriptor reads one version however long it takes.                *)
(***************************************************************************)
EXTENDS Naturals, Sequences

CONSTANTS Contents, Bad, NoManifest, MaxWrites,
    MaxPolls    \* bound of the model: stat-poll intervals, one more per restart

ASSUME ContentValues ==
    /\ Bad \notin Contents /\ NoManifest \notin Contents /\ Bad # NoManifest
    /\ MaxPolls \in Nat

VARIABLES
    published, cached, at,
    starter,    \* where start() or restart() stands
    restarting, \* start() was called by restart()
    watching,   \* the directory watcher is open
    notice,     \* a 'change' event is on its way
    debounce,   \* "none" (null), "armed", or "fired": not null, but it will not fire
    inFlight,
    reads,      \* the rereads under way: where each stands, the version its descriptor is of
    again,      \* rereadPending
    polls,      \* intervals that run statPollCheck
    polled,     \* the mtime a statPollCheck has got and not compared yet, 0 for none
    stopped

vars == <<published, cached, at, starter, restarting, watching, notice, debounce,
          inFlight, reads, again, polls, polled, stopped>>
startVars == <<starter, restarting, watching, notice>>
readVars == <<inFlight, reads, again>>
pollVars == <<polls, polled>>

Feed == INSTANCE ManifestFeed WITH live <- ~stopped

TypeOK ==
    /\ Feed!FeedTypeOK
    /\ starter \in {"stat", "await", "watch", "idle", "error"}
    /\ restarting \in BOOLEAN /\ watching \in BOOLEAN /\ notice \in BOOLEAN
    /\ debounce \in {"none", "armed", "fired"}
    /\ inFlight \in BOOLEAN /\ again \in BOOLEAN
    /\ reads \subseteq [pc : {"open", "read", "close"}, fd : 0..Len(published)]
    /\ polls \in Nat /\ polled \in 0..Len(published)
    /\ stopped \in BOOLEAN

Init ==
    /\ stopped = FALSE
    /\ Feed!FeedInit
    /\ starter = "stat" /\ restarting = FALSE
    /\ watching = FALSE /\ notice = FALSE
    /\ debounce = "none"
    /\ inFlight = FALSE /\ reads = {} /\ again = FALSE
    /\ polls = 0 /\ polled = 0
-----------------------------------------------------------------------------
(***************************************************************************)
(* reread()                                                                *)
(***************************************************************************)
Begun == [pc |-> "open", fd |-> 0]

\* Mutant of Call: reread() does not look at inFlight.
CallAlways(d) ==
    /\ inFlight' = TRUE /\ reads' = reads \cup {Begun} /\ debounce' = "none"
    /\ UNCHANGED again

\* The synchronous head of reread(), called while debounceTimer is d.
Call(d) ==
    \/ /\ inFlight
       /\ again' = TRUE /\ debounce' = d
       /\ UNCHANGED <<inFlight, reads>>
    \/ /\ ~inFlight
       /\ inFlight' = TRUE /\ reads' = reads \cup {Begun} /\ debounce' = "none"
       /\ UNCHANGED again

\* Mutant of Finish: `rereadPending` is left for the next event.
FinishForgetting(r) ==
    /\ starter' = IF starter = "await" THEN "watch" ELSE starter
    /\ inFlight' = FALSE /\ reads' = reads \ {r}
    /\ UNCHANGED <<again, debounce>>

\* The finally block of r: another round if one was asked for.  start() resumes
\* when it awaits this round.
Finish(r) ==
    /\ starter' = IF starter = "await" THEN "watch" ELSE starter
    /\ inFlight' = again
    /\ reads' = (reads \ {r}) \cup IF again THEN {Begun} ELSE {}
    /\ debounce' = IF again THEN "none" ELSE debounce
    /\ again' = FALSE

Open(r) ==
    /\ r.pc = "open"
    /\ \/ /\ published = <<>>       \* ENOENT
          /\ Finish(r)
       \/ /\ published # <<>>
          /\ reads' = (reads \ {r}) \cup {[pc |-> "read", fd |-> Len(published)]}
          /\ UNCHANGED <<starter, inFlight, again, debounce>>
    /\ UNCHANGED <<published, cached, at, restarting, watching, notice, pollVars, stopped>>

\* Mutant of Take: the time of the last version is noted, not that of the one read.
TakeStampingNow(n) == cached' = published[n] /\ at' = Len(published)

\* Mutant of Take: what does not validate empties the cache.
TakeRejected(n) ==
    /\ cached' = IF published[n] = Bad THEN NoManifest ELSE published[n]
    /\ at' = n

\* Validate, compare the hash, commit: what is rejected changes nothing; the same
\* bytes only move the time.
Take(n) ==
    \/ published[n] = Bad /\ UNCHANGED <<cached, at>>
    \/ published[n] # Bad /\ cached' = published[n] /\ at' = n

\* Stat and read through the descriptor.
Read(r) ==
    /\ r.pc = "read"
    /\ Take(r.fd)
    /\ reads' = (reads \ {r}) \cup {[r EXCEPT !.pc = "close"]}
    /\ UNCHANGED <<published, startVars, debounce, inFlight, again, pollVars, stopped>>

Close(r) ==
    /\ r.pc = "close"
    /\ Finish(r)
    /\ UNCHANGED <<published, cached, at, restarting, watching, notice, pollVars, stopped>>
-----------------------------------------------------------------------------
(***************************************************************************)
(* What asks for a reread: watch events, the stat poll.                    *)
(***************************************************************************)
\* The plugin replaces the file; a watcher may or may not notice.
Write(x) ==
    /\ Len(published) < MaxWrites
    /\ published' = Append(published, x)
    /\ notice' \in IF watching THEN {notice, TRUE} ELSE {notice}
    /\ UNCHANGED <<cached, at, starter, restarting, watching, debounce, readVars,
                   pollVars, stopped>>

\* 'change' -> scheduleReread().
Change ==
    /\ notice
    /\ notice' = FALSE
    /\ debounce' = "armed"
    /\ UNCHANGED <<published, cached, at, starter, restarting, watching, readVars,
                   pollVars, stopped>>

DebounceFires ==
    /\ debounce = "armed"
    /\ Call("fired")
    /\ UNCHANGED <<published, cached, at, startVars, pollVars, stopped>>

\* statPollCheck() until its await, and the rest.
PollStat ==
    /\ polls > 0 /\ polled = 0 /\ published # <<>>
    /\ polled' = Len(published)
    /\ UNCHANGED <<published, cached, at, startVars, debounce, readVars, polls, stopped>>

\* Mutant of PollCheck: the event queue is trusted, and the poll only looks.
PollCheckNever ==
    /\ polled > 0 /\ polled' = 0
    /\ UNCHANGED <<published, cached, at, startVars, debounce, readVars, polls, stopped>>

PollCheck ==
    /\ polled > 0
    /\ debounce' = IF polled > at /\ ~inFlight /\ ~again /\ debounce = "none"
                   THEN "armed" ELSE debounce
    /\ polled' = 0
    /\ UNCHANGED <<published, cached, at, startVars, readVars, polls, stopped>>
-----------------------------------------------------------------------------
(***************************************************************************)
(* start(), restart() and stop()                                           *)
(***************************************************************************)
\* fsStat: a file is read before start() goes on, unless a reread is in flight.
StartStat ==
    /\ starter = "stat"
    /\ \/ /\ published = <<>>
          /\ starter' = "watch"
          /\ UNCHANGED <<readVars, debounce>>
       \/ /\ published # <<>>
          /\ starter' = IF inFlight THEN "watch" ELSE "await"
          /\ Call(debounce)
    /\ UNCHANGED <<published, cached, at, restarting, watching, notice, pollVars, stopped>>

\* fsWatch and setInterval; restart() then calls reread() once more.
StartWatch ==
    /\ starter = "watch"
    /\ starter' = "idle"
    /\ watching' = TRUE
    /\ polls' = polls + 1
    /\ restarting' = FALSE
    /\ IF restarting THEN Call(debounce) ELSE UNCHANGED <<readVars, debounce>>
    /\ UNCHANGED <<published, cached, at, notice, polled, stopped>>

\* The watcher fails and is closed by Node; a restart is due in a second.
WatchError ==
    /\ watching /\ starter = "idle" /\ polls < MaxPolls
    /\ watching' = FALSE /\ notice' = FALSE
    /\ starter' = "error"
    /\ UNCHANGED <<published, cached, at, restarting, debounce, readVars, pollVars, stopped>>

Restart ==
    /\ starter = "error"
    /\ IF stopped THEN starter' = "idle" /\ UNCHANGED restarting
       ELSE starter' = "stat" /\ restarting' = TRUE
    /\ UNCHANGED <<published, cached, at, watching, notice, debounce, readVars,
                   pollVars, stopped>>

\* stop() clears one debounce timer, the last interval, the watcher and the cache.
\* What is in flight goes on.
Stop ==
    /\ ~stopped /\ polls > 0
    /\ stopped' = TRUE
    /\ cached' = NoManifest
    /\ debounce' = IF debounce = "armed" THEN "fired" ELSE debounce
    /\ polls' = polls - 1
    /\ watching' = FALSE /\ notice' = FALSE
    /\ UNCHANGED <<published, at, starter, restarting, readVars, polled>>

Next ==
    \/ \E x \in Contents \cup {Bad} : Write(x)
    \/ Change \/ DebounceFires \/ PollStat \/ PollCheck
    \/ \E r \in reads : Open(r) \/ Read(r) \/ Close(r)
    \/ StartStat \/ StartWatch \/ WatchError \/ Restart
    \/ Stop

\* Timers fire and file operations end.  Nothing is assumed of watch events.
Fairness ==
    /\ WF_vars(DebounceFires) /\ WF_vars(PollStat) /\ WF_vars(PollCheck)
    /\ WF_vars(\E r \in reads : Open(r) \/ Read(r) \/ Close(r))
    /\ WF_vars(StartStat) /\ WF_vars(StartWatch) /\ WF_vars(Restart)

Spec == Init /\ [][Next]_vars

FairSpec == Spec /\ Fairness
-----------------------------------------------------------------------------
(***************************************************************************)
(* Properties.                                                             *)
(***************************************************************************)
\* The watcher implements the feed, with the same cache and the same time.
ImplementsFeed == Feed!FeedSpec

\* The cache and its time are of one version, whatever was renamed into place
\* while the version was being read.
CachedIsDisk == Feed!CachedIsDisk

\* Readers of the cache never see an older version after a newer one.
NeverOlder == Feed!NeverOlder

\* A timer that has fired stands in the way of the stat poll only until the reread
\* in flight ends, which then runs another round and clears it: the early return
\* of reread() leaves debounceTimer set, and only rereadPending cleans up after it.
FiredTimerIsCleared == debounce = "fired" /\ ~stopped => inFlight /\ again

\* Once the plugin has stopped writing, its last good version is cached, even if no
\* watch event ever arrives and the watcher fails: the stat poll finds it, and
\* neither debouncing nor the single flight loses the last request.
CatchesUp ==
    <>[](\/ stopped
         \/ published = <<>>
         \/ published[Len(published)] = Bad
         \/ cached = published[Len(published)])
=============================================================================
