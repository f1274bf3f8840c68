------------------------ MODULE ManifestWatcherProofs ------------------------
(***************************************************************************)
(* Proofs about manifest.json: about the daemon's watcher that reads it    *)
(* (ManifestWatcher), for every set of contents and every number of writes *)
(* and restarts, and about the dev servers that write it (DevServer).      *)
(*                                                                         *)
(* That the cache never goes back rests on the single flight: a descriptor *)
(* is not older than the cache when it is opened, and no other reread      *)
(* moves the cache before it is read.                                      *)
(***************************************************************************)
EXTENDS ManifestWatcher, DevServer, SequenceTheorems, TLAPS

\* One reread at a time, and inFlight says whether there is one.
SingleFlight ==
    /\ inFlight <=> reads # {}
    /\ \A a, b \in reads : a = b

\* A reread that is about to read has a version open, none older than the cached one.
OpenIsNoOlder == \A r \in reads : r.pc = "read" => r.fd \in 1..Len(published) /\ r.fd >= at

IInv ==
    /\ TypeOK
    /\ SingleFlight
    /\ OpenIsNoOlder
    /\ CachedIsDisk
    /\ FiredTimerIsCleared

LEMMA InitIInv == Init => IInv
<1> SUFFICES ASSUME Init PROVE IInv
  OBVIOUS
<1>1. Len(published) \in Nat /\ published \in Seq(Contents \cup {Bad})
  <2>1. published \in {<<>>} \cup {<<x>> : x \in Contents \cup {Bad}}
    BY DEF Init, Feed!FeedInit
  <2>2. CASE published = <<>>
    BY <2>2
  <2>3. ASSUME NEW x \in Contents \cup {Bad}, published = <<x>>
        PROVE  Len(published) \in Nat /\ published \in Seq(Contents \cup {Bad})
    BY <2>3
  <2> QED BY <2>1, <2>2, <2>3
<1>2. Feed!FeedTypeOK
  BY <1>1 DEF Init, Feed!FeedInit, Feed!FeedTypeOK
<1>3. TypeOK
  <2>1. polled \in 0..Len(published) /\ polls \in Nat
    BY <1>1 DEF Init
  <2> QED BY <1>2, <2>1 DEF Init, TypeOK
<1> QED BY <1>3 DEF IInv, Init, Feed!FeedInit, SingleFlight, OpenIsNoOlder,
                  CachedIsDisk, Feed!CachedIsDisk, FiredTimerIsCleared

\* A call of reread() starts a round only when there is none.
LEMMA CallSingle ==
    ASSUME IInv, NEW d \in {"none", "armed", "fired"}, Call(d), UNCHANGED published
    PROVE  /\ SingleFlight'
           /\ \A r \in reads' : r \in reads \/ r = Begun
           /\ inFlight' \in BOOLEAN /\ again' \in BOOLEAN
           /\ debounce' \in {"none", d}
           /\ debounce' = "fired" => inFlight' /\ again'
           /\ reads' \subseteq [pc : {"open", "read", "close"}, fd : 0..Len(published)]
<1>1. Begun \in [pc : {"open", "read", "close"}, fd : 0..Len(published)]
  BY DEF Begun, IInv, TypeOK, Feed!FeedTypeOK
<1>2. CASE inFlight
  BY <1>2 DEF Call, IInv, TypeOK, SingleFlight
<1>3. CASE ~inFlight
  <2>1. reads = {} /\ reads' = {Begun}
    BY <1>3 DEF Call, IInv, SingleFlight
  <2> QED BY <1>1, <1>3, <2>1 DEF Call, IInv, TypeOK, SingleFlight
<1> QED BY <1>2, <1>3

\* The end of a round leaves no round, or the one that was asked for.
LEMMA FinishSingle ==
    ASSUME IInv, NEW r \in reads, Finish(r), UNCHANGED <<published, stopped>>
    PROVE  /\ SingleFlight'
           /\ reads' \subseteq {Begun}
           /\ inFlight' \in BOOLEAN /\ again' \in BOOLEAN
           /\ starter' \in {"stat", "await", "watch", "idle", "error"}
           /\ debounce' \in {"none", "armed", "fired"}
           /\ debounce' = "fired" /\ ~stopped => inFlight' /\ again'
           /\ reads' \subseteq [pc : {"open", "read", "close"}, fd : 0..Len(published)]
<1>1. Begun \in [pc : {"open", "read", "close"}, fd : 0..Len(published)]
  BY DEF Begun, IInv, TypeOK, Feed!FeedTypeOK
<1>2. reads \ {r} = {}
  BY DEF IInv, SingleFlight
<1>3. reads' = IF again THEN {Begun} ELSE {}
  BY <1>2 DEF Finish
<1> QED BY <1>1, <1>3 DEF Finish, IInv, TypeOK, SingleFlight, FiredTimerIsCleared

\* A version read through an open descriptor is taken over whole or not at all.
LEMMA TakeIsDisk ==
    ASSUME IInv, NEW n \in 1..Len(published), n >= at, Take(n), UNCHANGED published
    PROVE  /\ at' \in 0..Len(published) /\ at' >= at
           /\ cached' \in Contents \cup {NoManifest}
           /\ cached' = NoManifest => cached = NoManifest
           /\ CachedIsDisk'
<1>1. published[n] \in Contents \cup {Bad}
  BY DEF IInv, TypeOK, Feed!FeedTypeOK
<1>2. CASE published[n] = Bad /\ UNCHANGED <<cached, at>>
  BY <1>2 DEF IInv, TypeOK, Feed!FeedTypeOK, CachedIsDisk, Feed!CachedIsDisk
<1>3. CASE published[n] # Bad /\ cached' = published[n] /\ at' = n
  BY <1>1, <1>3, ContentValues
  DEF IInv, TypeOK, Feed!FeedTypeOK, CachedIsDisk, Feed!CachedIsDisk
<1> QED BY <1>2, <1>3 DEF Take

\* Appending a version leaves those there are where they are.
LEMMA WriteIInv == ASSUME IInv, NEW x \in Contents \cup {Bad}, Write(x) PROVE IInv'
<1>1. /\ published \in Seq(Contents \cup {Bad}) /\ Len(published) \in Nat
      /\ published' = Append(published, x)
  BY DEF IInv, TypeOK, Feed!FeedTypeOK, Write
<1>2. /\ published' \in Seq(Contents \cup {Bad})
      /\ Len(published') = Len(published) + 1
      /\ \A n \in 1..Len(published) : published'[n] = published[n]
  BY <1>1
<1>3. Feed!FeedTypeOK'
  BY <1>1, <1>2 DEF Write, IInv, TypeOK, Feed!FeedTypeOK
<1>4. \A r \in reads : r \in [pc : {"open", "read", "close"}, fd : 0..Len(published')]
  BY <1>1, <1>2 DEF IInv, TypeOK
<1>5. TypeOK'
  <2>1. polled \in 0..Len(published')
    BY <1>1, <1>2 DEF IInv, TypeOK
  <2>2. notice' \in BOOLEAN
    BY DEF Write, IInv, TypeOK
  <2> QED BY <1>3, <1>4, <2>1, <2>2 DEF Write, IInv, TypeOK, readVars, pollVars
<1>6. CachedIsDisk'
  BY <1>1, <1>2 DEF Write, IInv, TypeOK, Feed!FeedTypeOK, CachedIsDisk, Feed!CachedIsDisk
<1>7. OpenIsNoOlder'
  BY <1>1, <1>2 DEF Write, IInv, OpenIsNoOlder, readVars
<1> QED BY <1>5, <1>6, <1>7 DEF Write, IInv, SingleFlight, FiredTimerIsCleared, readVars

\* What is left alone by a step that changes neither the versions, the cache nor the
\* rereads, and leaves the rest of the state well typed.
LEMMA QuietIInv ==
    ASSUME IInv, TypeOK', UNCHANGED <<published, cached, at, inFlight, reads>>,
           FiredTimerIsCleared'
    PROVE  IInv'
BY DEF IInv, SingleFlight, OpenIsNoOlder, CachedIsDisk, Feed!CachedIsDisk

\* A step that calls reread(), all else but where start() stands being left alone.
LEMMA CallIInv ==
    ASSUME IInv, NEW d \in {"none", "armed", "fired"}, Call(d),
           UNCHANGED <<published, cached, at, stopped>>,
           starter' \in {"stat", "await", "watch", "idle", "error"},
           restarting' \in BOOLEAN, watching' \in BOOLEAN, notice' \in BOOLEAN,
           polls' \in Nat, polled' \in 0..Len(published)
    PROVE  IInv'
<1>1. TypeOK'
  BY CallSingle DEF IInv, TypeOK, Feed!FeedTypeOK
<1>2. OpenIsNoOlder'
  BY CallSingle DEF IInv, OpenIsNoOlder, Begun
<1> QED BY <1>1, <1>2, CallSingle DEF IInv, CachedIsDisk, Feed!CachedIsDisk, FiredTimerIsCleared

\* A step that ends a round.
LEMMA FinishIInv ==
    ASSUME IInv, NEW r \in reads, Finish(r),
           UNCHANGED <<published, cached, at, restarting, watching, notice, pollVars, stopped>>
    PROVE  IInv'
<1>1. TypeOK'
  BY FinishSingle DEF IInv, TypeOK, Feed!FeedTypeOK, pollVars
<1>2. OpenIsNoOlder'
  BY FinishSingle DEF IInv, OpenIsNoOlder, Begun
<1> QED BY <1>1, <1>2, FinishSingle
     DEF IInv, CachedIsDisk, Feed!CachedIsDisk, FiredTimerIsCleared

\* One step of the round that is under way.
LEMMA RoundIInv ==
    ASSUME IInv, NEW r \in reads, Open(r) \/ Read(r) \/ Close(r)
    PROVE  IInv'
<1>0. /\ r \in [pc : {"open", "read", "close"}, fd : 0..Len(published)]
      /\ reads = {r} /\ inFlight /\ Len(published) \in Nat /\ at \in 0..Len(published)
  BY DEF IInv, TypeOK, Feed!FeedTypeOK, SingleFlight
<1>1. CASE Open(r) /\ published # <<>>
  <2> DEFINE opened == [pc |-> "read", fd |-> Len(published)]
  <2>1. reads' = {opened} /\ Len(published) \in 1..Len(published)
    <3>1. Len(published) \in Nat \ {0}
      BY <1>1, EmptySeq DEF IInv, TypeOK, Feed!FeedTypeOK
    <3>2. reads' = (reads \ {r}) \cup {opened}
      BY <1>1, Zenon DEF Open
    <3> QED BY <1>0, <3>1, <3>2
  <2>2. /\ UNCHANGED <<published, cached, at, restarting, watching, notice, polls, polled, stopped>>
        /\ UNCHANGED <<starter, inFlight, again, debounce>>
    BY <1>1 DEF Open, pollVars
  <2>3. opened \in [pc : {"open", "read", "close"}, fd : 0..Len(published)]
    BY <2>1
  <2>4. TypeOK'
    BY <2>1, <2>2, <2>3 DEF IInv, TypeOK, Feed!FeedTypeOK
  <2>5. OpenIsNoOlder'
    BY <1>0, <2>1, <2>2 DEF OpenIsNoOlder
  <2> QED BY <1>0, <2>1, <2>2, <2>4, <2>5
       DEF IInv, SingleFlight, CachedIsDisk, Feed!CachedIsDisk, FiredTimerIsCleared
<1>2. CASE Read(r)
  <2>1. r.fd \in 1..Len(published) /\ r.fd >= at /\ Take(r.fd)
    BY <1>2 DEF Read, IInv, OpenIsNoOlder
  <2>2. /\ UNCHANGED <<published, starter, restarting, watching, notice, debounce>>
        /\ UNCHANGED <<inFlight, again, polls, polled, stopped>>
        /\ reads' = {[r EXCEPT !.pc = "close"]}
    BY <1>0, <1>2 DEF Read, startVars, pollVars
  <2>3. /\ at' \in 0..Len(published) /\ cached' \in Contents \cup {NoManifest}
        /\ CachedIsDisk'
    BY <2>1, <2>2, TakeIsDisk
  <2>4. [r EXCEPT !.pc = "close"] \in [pc : {"open", "read", "close"}, fd : 0..Len(published)]
    BY <1>0
  <2>5. TypeOK'
    BY <2>2, <2>3, <2>4 DEF IInv, TypeOK, Feed!FeedTypeOK
  <2>6. OpenIsNoOlder'
    BY <1>0, <2>2 DEF OpenIsNoOlder
  <2> QED BY <1>0, <2>2, <2>3, <2>5, <2>6 DEF IInv, SingleFlight, FiredTimerIsCleared
<1>3. CASE Close(r) \/ (Open(r) /\ published = <<>>)
  BY <1>3, FinishIInv DEF Open, Close
<1> QED BY <1>1, <1>2, <1>3

LEMMA NextIInv == IInv /\ [Next]_vars => IInv'
<1> SUFFICES ASSUME IInv, [Next]_vars PROVE IInv'
  OBVIOUS
<1>0. TypeOK /\ Feed!FeedTypeOK /\ FiredTimerIsCleared
  BY DEF IInv, TypeOK
<1>1. CASE \E x \in Contents \cup {Bad} : Write(x)
  BY <1>1, WriteIInv
<1>2. CASE Change
  <2>1. TypeOK'
    BY <1>0, <1>2 DEF Change, TypeOK, Feed!FeedTypeOK, readVars, pollVars
  <2> QED BY <1>0, <1>2, <2>1, QuietIInv DEF Change, readVars, FiredTimerIsCleared
<1>3. CASE DebounceFires
  BY <1>0, <1>3, CallIInv DEF DebounceFires, TypeOK, startVars, pollVars
<1>4. CASE PollStat \/ PollCheck
  <2>1. TypeOK'
    BY <1>0, <1>4 DEF PollStat, PollCheck, TypeOK, Feed!FeedTypeOK, startVars, readVars
  <2> QED BY <1>0, <1>4, <2>1, QuietIInv DEF PollStat, PollCheck, readVars, FiredTimerIsCleared
<1>5. CASE \E r \in reads : Open(r) \/ Read(r) \/ Close(r)
  BY <1>5, RoundIInv
<1>6. CASE StartStat
  <2>1. CASE published = <<>>
    <3>1. TypeOK'
      BY <1>0, <1>6, <2>1 DEF StartStat, TypeOK, Feed!FeedTypeOK, readVars, pollVars
    <3> QED BY <1>0, <1>6, <2>1, <3>1, QuietIInv DEF StartStat, readVars, FiredTimerIsCleared
  <2>2. CASE published # <<>>
    <3>1. /\ Call(debounce)
          /\ UNCHANGED <<published, cached, at, restarting, watching, notice, polls, polled,
                         stopped>>
          /\ starter' = IF inFlight THEN "watch" ELSE "await"
      BY <1>6, <2>2, Zenon DEF StartStat, pollVars
    <3> QED BY <1>0, <3>1, CallIInv DEF TypeOK
  <2> QED BY <2>1, <2>2
<1>7. CASE StartWatch
  <2>0. /\ UNCHANGED <<published, cached, at, notice, polled, stopped>>
        /\ starter' = "idle" /\ polls' = polls + 1
        /\ watching' \in BOOLEAN /\ restarting' \in BOOLEAN
    BY <1>7, Zenon DEF StartWatch
  <2>1. CASE restarting
    <3>1. Call(debounce)
      BY <1>7, <2>1, Zenon DEF StartWatch
    <3> QED BY <1>0, <2>0, <3>1, CallIInv DEF TypeOK
  <2>2. CASE ~restarting
    <3>0. UNCHANGED <<inFlight, reads, again, debounce>>
      BY <1>7, <2>2, Zenon DEF StartWatch, readVars
    <3>1. TypeOK'
      BY <1>0, <2>0, <3>0 DEF TypeOK, Feed!FeedTypeOK
    <3> QED BY <1>0, <2>0, <3>0, <3>1, QuietIInv DEF FiredTimerIsCleared
  <2> QED BY <2>1, <2>2
<1>8. CASE WatchError \/ Restart
  <2>1. TypeOK'
    <3>1. CASE WatchError
      BY <1>0, <3>1 DEF WatchError, TypeOK, Feed!FeedTypeOK, readVars, pollVars
    <3>2. CASE Restart
      <4>1. /\ starter' \in {"idle", "stat"} /\ restarting' \in BOOLEAN
            /\ UNCHANGED <<published, cached, at, watching, notice, debounce, inFlight,
                           reads, again, polls, polled, stopped>>
        <5>1. \/ starter' = "idle" /\ UNCHANGED restarting
              \/ starter' = "stat" /\ restarting' = TRUE
          BY <3>2, Zenon DEF Restart
        <5> QED BY <1>0, <3>2, <5>1 DEF Restart, TypeOK, readVars, pollVars
      <4> QED BY <1>0, <4>1 DEF TypeOK, Feed!FeedTypeOK
    <3> QED BY <1>8, <3>1, <3>2
  <2>2. UNCHANGED <<published, cached, at, debounce, inFlight, reads, again, stopped>>
    BY <1>8, Zenon DEF WatchError, Restart, readVars
  <2> QED BY <1>0, <2>1, <2>2, QuietIInv DEF FiredTimerIsCleared
<1>9. CASE Stop
  <2>1. /\ UNCHANGED <<published, at, starter, restarting, polled, inFlight, reads, again>>
        /\ cached' = NoManifest /\ stopped' = TRUE /\ polls > 0 /\ polls' = polls - 1
        /\ stopped' \in BOOLEAN /\ watching' \in BOOLEAN /\ notice' \in BOOLEAN
        /\ debounce' = IF debounce = "armed" THEN "fired" ELSE debounce
    BY <1>9, Zenon DEF Stop, readVars
  <2>2. TypeOK'
    BY <1>0, <2>1 DEF TypeOK, Feed!FeedTypeOK
  <2>3. CachedIsDisk' /\ FiredTimerIsCleared'
    BY <2>1, Zenon DEF CachedIsDisk, Feed!CachedIsDisk, FiredTimerIsCleared
  <2> QED BY <2>1, <2>2, <2>3 DEF IInv, SingleFlight, OpenIsNoOlder
<1>10. CASE UNCHANGED vars
  <2>1. TypeOK'
    BY <1>0, <1>10 DEF vars, TypeOK, Feed!FeedTypeOK
  <2> QED BY <1>0, <1>10, <2>1, QuietIInv DEF vars, FiredTimerIsCleared
<1> QED BY <1>1, <1>2, <1>3, <1>4, <1>5, <1>6, <1>7, <1>8, <1>9, <1>10 DEF Next

\* Every state the watcher reaches satisfies the inductive invariant.
THEOREM Inductive == Spec => []IInv
BY InitIInv, NextIInv, PTL DEF Spec

\* Every variable keeps its type.
THEOREM TypeCorrect == Spec => []TypeOK
BY Inductive, PTL DEF IInv

\* The cache and its time are of one version.
THEOREM CacheIsDisk == Spec => []CachedIsDisk
BY Inductive, PTL DEF IInv

\* A fired debounce timer never disables the stat poll for good.
THEOREM TimerIsCleared == Spec => []FiredTimerIsCleared
BY Inductive, PTL DEF IInv
-----------------------------------------------------------------------------
(***************************************************************************)
(* Refinement.                                                             *)
(***************************************************************************)
LEMMA InitRefines == Init => Feed!FeedInit
BY DEF Init

\* A reread that takes over what it read is a commit or a confirmation of the feed.
LEMMA ReadRefines ==
    ASSUME IInv, NEW r \in reads, Read(r)
    PROVE  [Feed!FeedNext]_(Feed!feedVars)
<1>1. /\ r.fd \in 1..Len(published) /\ r.fd >= at
      /\ published[r.fd] \in Contents \cup {Bad}
  BY DEF Read, IInv, OpenIsNoOlder, TypeOK, Feed!FeedTypeOK
<1>2. UNCHANGED <<published, stopped>> /\ Take(r.fd)
  BY DEF Read
<1>3. CASE UNCHANGED <<cached, at>>
  BY <1>2, <1>3 DEF Feed!feedVars
<1>4. CASE published[r.fd] # Bad /\ cached' = published[r.fd] /\ at' = r.fd
  <2>1. CASE published[r.fd] # cached
    <3>1. Feed!Commit(r.fd)
      BY <1>1, <1>2, <1>4, <2>1 DEF Feed!Commit
    <3> QED BY <1>1, <3>1 DEF Feed!FeedNext
  <2>2. CASE published[r.fd] = cached
    <3>1. Feed!Confirm(r.fd)
      BY <1>1, <1>2, <1>4, <2>2 DEF Feed!Confirm
    <3> QED BY <1>1, <3>1 DEF Feed!FeedNext
  <2> QED BY <2>1, <2>2
<1> QED BY <1>2, <1>3, <1>4 DEF Take

\* Every step of the watcher is a step of the feed or leaves the feed alone.
LEMMA NextRefines == IInv /\ [Next]_vars => [Feed!FeedNext]_(Feed!feedVars)
<1> SUFFICES ASSUME IInv, [Next]_vars PROVE [Feed!FeedNext]_(Feed!feedVars)
  OBVIOUS
<1>1. ASSUME NEW x \in Contents \cup {Bad}, Write(x) PROVE Feed!FeedNext
  <2>1. Feed!Publish(x)
    BY <1>1 DEF Write, Feed!Publish
  <2> QED BY <2>1 DEF Feed!FeedNext
<1>2. ASSUME NEW r \in reads, Open(r) \/ Read(r) \/ Close(r)
      PROVE  [Feed!FeedNext]_(Feed!feedVars)
  <2>1. CASE Read(r)
    BY <2>1, ReadRefines
  <2>2. CASE Open(r) \/ Close(r)
    BY <2>2 DEF Open, Close, Feed!feedVars
  <2> QED BY <1>2, <2>1, <2>2
<1>3. CASE Stop
  <2>1. Feed!Drop
    BY <1>3 DEF Stop, Feed!Drop
  <2> QED BY <2>1 DEF Feed!FeedNext
<1>4. CASE \/ Change \/ DebounceFires \/ PollStat \/ PollCheck
           \/ StartStat \/ StartWatch \/ WatchError \/ Restart \/ UNCHANGED vars
  <2>1. UNCHANGED <<published, cached, at, stopped>>
    BY <1>4, Zenon DEF Change, DebounceFires, PollStat, PollCheck, StartStat, StartWatch,
                       WatchError, Restart, vars
  <2> QED BY <2>1 DEF Feed!feedVars
<1> QED BY <1>1, <1>2, <1>3, <1>4 DEF Next

\* The watcher with its timers, its lost events and its restarts implements the feed
\* its readers rely on.
THEOREM WatcherImplementsFeed == Spec => ImplementsFeed
<1>1. IInv /\ [Next]_vars => [Feed!FeedNext]_(Feed!feedVars)
  BY NextRefines
<1> QED BY InitRefines, Inductive, <1>1, PTL DEF Spec, ImplementsFeed, Feed!FeedSpec

\* What the feed does to its readers' view: time moves forward, and only stop() empties
\* the cache.
THEOREM CacheNeverOlder == Spec => NeverOlder
<1>1. IInv /\ IInv' /\ [Next]_vars =>
        [/\ at' >= at
         /\ cached' = NoManifest =>
              cached = NoManifest \/ (~stopped /\ ~(~stopped'))]_(Feed!feedVars)
  <2> SUFFICES ASSUME IInv, IInv', [Next]_vars, ~ UNCHANGED Feed!feedVars
               PROVE  /\ at' >= at
                      /\ cached' = NoManifest => cached = NoManifest \/ (~stopped /\ ~(~stopped'))
    OBVIOUS
  <2>1. at \in Nat /\ published \in Seq(Contents \cup {Bad})
    BY DEF IInv, TypeOK, Feed!FeedTypeOK
  <2>2. Feed!FeedNext
    BY NextRefines
  <2>3. ASSUME NEW n \in 1..Len(published), Feed!Commit(n) \/ Feed!Confirm(n)
        PROVE  at' >= at /\ (cached' = NoManifest => cached = NoManifest)
    BY <2>1, <2>3, ContentValues DEF Feed!Commit, Feed!Confirm
  <2>4. ASSUME NEW x \in Contents \cup {Bad}, Feed!Publish(x)
        PROVE  at' >= at /\ (cached' = NoManifest => cached = NoManifest)
    BY <2>1, <2>4 DEF Feed!Publish
  <2>5. CASE Feed!Drop
    <3>1. at' = at /\ ~stopped /\ ~(~stopped')
      BY <2>5, Zenon DEF Feed!Drop
    <3>2. at' >= at
      BY <2>1, <3>1
    <3> QED BY <3>1, <3>2, Zenon
  <2> QED BY <2>2, <2>3, <2>4, <2>5 DEF Feed!FeedNext
<1> QED BY Inductive, <1>1, PTL DEF Spec, NeverOlder, Feed!NeverOlder
-----------------------------------------------------------------------------
(***************************************************************************)
(* The writers of the file (DevServer), for any servers, files and bound   *)
(* on edits.  OneServes is inductive together with the types; that nobody  *)
(* writes the manifest of another follows from it.                         *)
(***************************************************************************)
ServersIInv == ServersTypeOK /\ OneServes

\* Only constants matter for what a batch or a manifest is.
LEMMA NoBatchesTyped == NoBatches \in Batches
<1>1. MaxEdits \in Nat
  BY DevServerValues
<1> QED BY <1>1 DEF NoBatches, Batches

LEMMA ServersInitHolds == ServersInit => ServersIInv
BY NoBatchesTyped DEF ServersInit, ServersIInv, ServersTypeOK, OneServes

\* A write of the manifest leaves it to the writer or as it was.
LEMMA WriteTyped ==
    ASSUME ServersTypeOK, NEW s \in Servers, AtomicWrite(s)
    PROVE  /\ disk' \in [by : Servers \cup {Nobody}, files : Batches]
           /\ failed' \in [Servers -> BOOLEAN]
           /\ disk' # disk => disk'.by = s
<1>1. state[s] \in Batches
  BY DEF ServersTypeOK
<1>2. /\ BuildManifest(s) \in [by : Servers \cup {Nobody}, files : Batches]
      /\ BuildManifest(s).by = s
  BY <1>1 DEF BuildManifest
<1> QED BY <1>2 DEF AtomicWrite, ServersTypeOK

LEMMA ServersStep ==
    ServersIInv /\ [ServersNext]_serverVars => ServersIInv'
<1> SUFFICES ASSUME ServersIInv, [ServersNext]_serverVars PROVE ServersIInv'
  OBVIOUS
<1> USE DevServerValues DEF ServersIInv
<1>1. ASSUME NEW f \in Files, Edit(f) PROVE ServersIInv'
  <2>1. sources' \in Batches
    BY <1>1 DEF Edit, ServersTypeOK, Batches
  <2> QED BY <1>1, <2>1 DEF Edit, ServersTypeOK, OneServes
<1>2. ASSUME NEW s \in Servers, ConfigResolved(s) PROVE ServersIInv'
  <2>1. AtomicWrite(s) /\ lock = Nobody /\ lock' = s
    BY <1>2 DEF ConfigResolved, Construct
  <2>2. \A r \in Servers : phase[r] # "serving" /\ timers[r] = {}
    BY <2>1 DEF OneServes
  <2>3. ServersTypeOK'
    BY <1>2, <2>1, WriteTyped DEF ConfigResolved, ServersTypeOK
  <2>4. OneServes'
    BY <1>2, <2>1, <2>2 DEF ConfigResolved, OneServes, ServersTypeOK
  <2> QED BY <2>3, <2>4
<1>3. ASSUME NEW s \in Servers, StartFails(s) PROVE ServersIInv'
  BY <1>3 DEF StartFails, ServersTypeOK, OneServes
<1>4. ASSUME NEW s \in Servers, CloseBundle(s) PROVE ServersIInv'
  <2>1. AtomicWrite(s) /\ lock = s /\ lock' = Nobody
    BY <1>4 DEF CloseBundle, Shutdown, OneServes
  <2>2. ServersTypeOK'
    BY <1>4, <2>1, WriteTyped, NoBatchesTyped DEF CloseBundle, Shutdown, ServersTypeOK
  <2>3. \A r \in Servers \ {s} : phase[r] # "serving"
    BY <2>1 DEF OneServes
  <2>4. OneServes'
    BY <1>4, <2>3 DEF CloseBundle, Shutdown, OneServes, ServersTypeOK
  <2> QED BY <2>2, <2>4
<1>5. ASSUME NEW s \in Servers, Crash(s) PROVE ServersIInv'
  BY <1>5 DEF Crash, ServersTypeOK, OneServes
<1>6. ASSUME NEW s \in Servers, FlushTimer(s) \/ MaxWaitTimer(s) PROVE ServersIInv'
  <2>1. /\ AtomicWrite(s)
        /\ timers' = [timers EXCEPT ![s] = {}]
        /\ UNCHANGED <<lock, phase, state, transforms, sources>>
    BY <1>6 DEF FlushTimer, MaxWaitTimer, DoFlush
  <2>2. ServersTypeOK'
    BY <2>1, WriteTyped DEF ServersTypeOK
  <2>3. OneServes'
    BY <2>1 DEF OneServes, ServersTypeOK
  <2> QED BY <2>2, <2>3
<1>7. ASSUME NEW s \in Servers, NEW f \in Files, Transform(s, f) PROVE ServersIInv'
  <2>1. sources[f] \in 1..MaxEdits
    BY <1>7 DEF Transform, ServersTypeOK, Batches
  <2>2. transforms' \in [Servers -> SUBSET (Files \X (1..MaxEdits))]
    BY <1>7, <2>1 DEF Transform, ServersTypeOK
  <2> QED BY <1>7, <2>2 DEF Transform, ServersTypeOK, OneServes
<1>8. ASSUME NEW s \in Servers, NEW t \in transforms[s], Transformed(s, t) PROVE ServersIInv'
  <2>1. t[1] \in Files /\ t[2] \in 0..MaxEdits
    BY DEF ServersTypeOK
  <2>2. transforms' \in [Servers -> SUBSET (Files \X (1..MaxEdits))]
    BY <1>8 DEF Transformed, ServersTypeOK
  <2>3. CASE UNCHANGED <<state, timers>>
    BY <1>8, <2>2, <2>3 DEF Transformed, ServersTypeOK, OneServes
  <2>4. CASE phase[s] = "serving" /\ CommitFile(s, t[1], t[2])
    <3>1. state' \in [Servers -> Batches]
      BY <2>1, <2>4 DEF CommitFile, ServersTypeOK, Batches
    <3>2. ServersTypeOK'
      BY <1>8, <2>2, <2>4, <3>1 DEF Transformed, CommitFile, ScheduleFlush, ServersTypeOK
    <3>3. OneServes'
      BY <1>8, <2>4
         DEF Transformed, CommitFile, ScheduleFlush, OneServes, ServersTypeOK
    <3> QED BY <3>2, <3>3
  <2> QED BY <1>8, <2>3, <2>4 DEF Transformed
<1>9. CASE RemoveLock
  <2>1. \A r \in Servers : phase[r] # "serving"
    BY <1>9 DEF RemoveLock, OneServes
  <2> QED BY <1>9, <2>1 DEF RemoveLock, ServersTypeOK, OneServes
<1>10. CASE UNCHANGED serverVars
  BY <1>10 DEF serverVars, ServersTypeOK, OneServes
<1> QED BY <1>1, <1>2, <1>3, <1>4, <1>5, <1>6, <1>7, <1>8, <1>9, <1>10 DEF ServersNext

LEMMA ServersInductive == ServersSpec => []ServersIInv
BY ServersInitHolds, ServersStep, PTL DEF ServersSpec

\* Every variable of the dev servers keeps its type.
THEOREM ServersTypeCorrect == ServersSpec => []ServersTypeOK
<1>1. ServersIInv => ServersTypeOK
  BY DEF ServersIInv
<1> QED BY <1>1, ServersInductive, PTL

\* A server that serves has the owner lock, so that there is one at most, and no timer is
\* left behind by one that does not (manifestWriter.ts:60-68, 226-254).
THEOREM ServersExcludeEachOther == ServersSpec => []OneServes
<1>1. ServersIInv => OneServes
  BY DEF ServersIInv
<1> QED BY <1>1, ServersInductive, PTL

\* The manifest is written by the owner of the lock and by nobody else: a transform that
\* ends after closeBundle writes nothing (plugin.ts:292).
THEOREM OnlyOwnersWrite == ServersSpec => WritesAreOwned
<1>1. ServersIInv /\ [ServersNext]_serverVars
        => [disk' # disk => disk'.by \in {lock, lock'}]_serverVars
  <2> SUFFICES ASSUME ServersIInv, ServersNext, disk' # disk PROVE disk'.by \in {lock, lock'}
    OBVIOUS
  <2>1. ASSUME NEW s \in Servers, AtomicWrite(s) PROVE disk'.by = s
    BY <2>1, WriteTyped DEF ServersIInv
  <2>2. CASE \E s \in Servers : ConfigResolved(s)
    BY <2>1, <2>2 DEF ConfigResolved, Construct
  <2>3. CASE \E s \in Servers : CloseBundle(s)
    BY <2>1, <2>3 DEF CloseBundle, Shutdown, ServersIInv, OneServes
  <2>4. CASE \E s \in Servers : FlushTimer(s) \/ MaxWaitTimer(s)
    BY <2>1, <2>4 DEF FlushTimer, MaxWaitTimer, DoFlush, ServersIInv, OneServes
  <2> QED BY <2>2, <2>3, <2>4
       DEF ServersNext, Edit, StartFails, Crash, Transform, Transformed,
           RemoveLock
<1> QED BY <1>1, ServersInductive, PTL DEF ServersSpec, WritesAreOwned
=============================================================================
