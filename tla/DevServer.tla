------------------------------ MODULE DevServer ------------------------------
(***************************************************************************)
(* The Vite dev servers of a project and the manifest they write:          *)
(* packages/vite/src/plugin.ts and integration/manifestWriter.ts.          *)
(*                                                                         *)
(* A server owns manifest.json while its owner lock, a file that is only   *)
(* created and removed by name, is there.  A transform is cut at its one   *)
(* await, that of Babel; a flush is not cut, since what it awaits has been *)
(* done when it awaits it.  A server may die at any moment, and then the   *)
(* lock stays until somebody removes it.                                   *)
(*                                                                         *)
(* Bound: MaxEdits versions of a source file.                              *)
(***************************************************************************)
EXTENDS Naturals

CONSTANTS Servers, Files, Nobody, MaxEdits

ASSUME DevServerValues == Nobody \notin Servers /\ MaxEdits \in Nat

VARIABLES
    lock,        \* whose owner lock is there
    disk,        \* manifest.json: its writer, and which version of each file it knows
    phase,       \* client of a server's plugin: null before ("off") and after ("closed")
    state,       \* of its writer: the version of each file's batch, 0 for none
    timers,      \* of its writer
    transforms,  \* under way: file and version
    sources,     \* the version of each file in the editor
    failed       \* history: a server's last write did not come through

serverVars == <<lock, disk, phase, state, timers, transforms, sources, failed>>

NoBatches == [f \in Files |-> 0]
Batches == [Files -> 0..MaxEdits]

ServersTypeOK ==
    /\ lock \in Servers \cup {Nobody}
    /\ disk \in [by : Servers \cup {Nobody}, files : Batches]
    /\ phase \in [Servers -> {"off", "serving", "closed", "dead"}]
    /\ state \in [Servers -> Batches]
    /\ timers \in [Servers -> SUBSET {"flush", "maxWait"}]
    /\ transforms \in [Servers -> SUBSET (Files \X (1..MaxEdits))]
    /\ sources \in Batches
    /\ failed \in [Servers -> BOOLEAN]

ServersInit ==
    /\ lock = Nobody /\ disk = [by |-> Nobody, files |-> NoBatches]
    /\ phase = [s \in Servers |-> "off"]
    /\ state = [s \in Servers |-> NoBatches]
    /\ timers = [s \in Servers |-> {}]
    /\ transforms = [s \in Servers |-> {}]
    /\ sources = NoBatches
    /\ failed = [s \in Servers |-> FALSE]
-----------------------------------------------------------------------------
(***************************************************************************)
(* The writer                                                              *)
(***************************************************************************)
BuildManifest(s) == [by |-> s, files |-> state[s]]

\* The rename succeeds, at once or after retries, or is given up and logged.
AtomicWrite(s) ==
    \/ disk' = BuildManifest(s) /\ failed' = [failed EXCEPT ![s] = FALSE]
    \/ disk' = disk /\ failed' = [failed EXCEPT ![s] = TRUE]

\* Mutant of Construct: the lock of another server is no reason not to start.
ConstructAnyway(s) ==
    /\ lock' = s
    /\ AtomicWrite(s)

\* The lock must not be there; the first manifest has no components.
Construct(s) ==
    /\ lock = Nobody /\ lock' = s
    /\ AtomicWrite(s)

\* Mutant of ScheduleFlush: only the debounce, which every commit starts again.
ScheduleDebounce(s) == timers' = [timers EXCEPT ![s] = @ \cup {"flush"}]

\* The debounce starts again, the longest wait does not.
ScheduleFlush(s) == timers' = [timers EXCEPT ![s] = {"flush", "maxWait"}]

CommitFile(s, f, version) ==
    /\ state' = [state EXCEPT ![s][f] = version]
    /\ ScheduleFlush(s)

DoFlush(s) ==
    /\ timers' = [timers EXCEPT ![s] = {}]
    /\ AtomicWrite(s)

\* shutdown(): a last manifest, then the lock goes.
Shutdown(s) ==
    /\ timers' = [timers EXCEPT ![s] = {}]
    /\ AtomicWrite(s)
    /\ lock' = Nobody
    /\ state' = [state EXCEPT ![s] = NoBatches]
-----------------------------------------------------------------------------
(***************************************************************************)
(* The plugin                                                              *)
(***************************************************************************)
ConfigResolved(s) ==
    /\ phase[s] = "off"
    /\ Construct(s)
    /\ phase' = [phase EXCEPT ![s] = "serving"]
    /\ UNCHANGED <<state, timers, transforms, sources>>

\* The disk is full when the first manifest is written: Vite does not start, and the lock
\* is taken.
StartFails(s) ==
    /\ phase[s] = "off" /\ lock = Nobody
    /\ lock' = s
    /\ phase' = [phase EXCEPT ![s] = "dead"]
    /\ UNCHANGED <<disk, state, timers, transforms, sources, failed>>

Edit(f) ==
    /\ sources[f] < MaxEdits
    /\ sources' = [sources EXCEPT ![f] = @ + 1]
    /\ UNCHANGED <<lock, disk, phase, state, timers, transforms, failed>>

\* transform() is called with the code of a file, and goes to Babel with it.
Transform(s, f) ==
    /\ phase[s] = "serving" /\ sources[f] > 0
    /\ transforms' = [transforms EXCEPT ![s] = @ \cup {<<f, sources[f]>>}]
    /\ UNCHANGED <<lock, disk, phase, state, timers, sources, failed>>

\* Mutant of Transformed: the client that was there when the transform began.
TransformedLate(s, t) ==
    /\ t \in transforms[s]
    /\ transforms' = [transforms EXCEPT ![s] = @ \ {t}]
    /\ CommitFile(s, t[1], t[2])
    /\ UNCHANGED <<lock, disk, phase, sources, failed>>

\* Babel has an answer: a batch, which a client that has become null cannot take (a
\* TypeError), or none.
Transformed(s, t) ==
    /\ t \in transforms[s]
    /\ transforms' = [transforms EXCEPT ![s] = @ \ {t}]
    /\ \/ phase[s] = "serving" /\ CommitFile(s, t[1], t[2])
       \/ UNCHANGED <<state, timers>>
    /\ UNCHANGED <<lock, disk, phase, sources, failed>>

FlushTimer(s) ==
    /\ "flush" \in timers[s] /\ DoFlush(s)
    /\ UNCHANGED <<lock, phase, state, transforms, sources>>

MaxWaitTimer(s) ==
    /\ "maxWait" \in timers[s] /\ DoFlush(s)
    /\ UNCHANGED <<lock, phase, state, transforms, sources>>

\* closeBundle(), of which a second call finds no client.
CloseBundle(s) ==
    /\ phase[s] = "serving"
    /\ phase' = [phase EXCEPT ![s] = "closed"]
    /\ Shutdown(s)
    /\ UNCHANGED <<transforms, sources>>

\* The process ends without closeBundle.
Crash(s) ==
    /\ phase[s] \in {"serving", "closed"}
    /\ phase' = [phase EXCEPT ![s] = "dead"]
    /\ timers' = [timers EXCEPT ![s] = {}]
    /\ transforms' = [transforms EXCEPT ![s] = {}]
    /\ UNCHANGED <<lock, disk, state, sources, failed>>

\* The developer removes the lock of a server that is no more.
RemoveLock ==
    /\ lock # Nobody /\ phase[lock] = "dead"
    /\ lock' = Nobody
    /\ UNCHANGED <<disk, phase, state, timers, transforms, sources, failed>>

ServersNext ==
    \/ \E f \in Files : Edit(f)
    \/ \E s \in Servers :
         \/ ConfigResolved(s) \/ StartFails(s) \/ CloseBundle(s) \/ Crash(s)
         \/ FlushTimer(s) \/ MaxWaitTimer(s)
         \/ \E f \in Files : Transform(s, f)
         \/ \E t \in transforms[s] : Transformed(s, t)
    \/ RemoveLock

\* A timer that nobody starts again fires.  The debounce may be started again for ever.
ServersFairness == \A s \in Servers : WF_serverVars(MaxWaitTimer(s))

ServersSpec == ServersInit /\ [][ServersNext]_serverVars /\ ServersFairness
-----------------------------------------------------------------------------
\* manifest.json is only written by the server whose lock is there.  A transform that ends
\* after closeBundle must not schedule a flush: it would come when another server may own
\* the file, and write what little a closed writer knows (plugin.ts:292, manifestWriter.ts:226).
WritesAreOwned == [][disk' # disk => disk'.by \in {lock, lock'}]_serverVars

\* The lock makes servers exclude each other, however they started, closed and died.
OneServes ==
    /\ \A s \in Servers : phase[s] = "serving" => lock = s
    /\ \A s \in Servers : timers[s] # {} => phase[s] = "serving"

\* A batch that a transform has committed gets into manifest.json, however fast others
\* follow, unless the rename is given up, which is not tried again (manifestWriter.ts:159).
CommitsReachDisk == \A s \in Servers :
    (phase[s] = "serving" /\ disk # BuildManifest(s))
        ~> (disk = BuildManifest(s) \/ failed[s] \/ phase[s] # "serving")
=============================================================================
