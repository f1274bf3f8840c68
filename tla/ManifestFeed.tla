---------------------------- MODULE ManifestFeed ----------------------------
(***************************************************************************)
(* What the manifest watcher of the daemon promises to the parts that read *)
(* its cache (routes/manifest.ts, routes/selection.ts, the hello frame):   *)
(* the Vite plugin replaces the file by rename, one version after another, *)
(* and the cache holds one of the good versions, never an older one than   *)
(* it held before.  ManifestWatcher implements this specification.         *)
(***************************************************************************)
EXTENDS Naturals, Sequences

CONSTANTS
    Contents,   \* the manifests that validate, by contentHash
    Bad,        \* a file that does not: too large, cut short, not JSON, wrong schema
    NoManifest, \* the null of the cache
    MaxWrites   \* bound of the model: versions written

ASSUME ContentValues ==
    /\ Bad \notin Contents /\ NoManifest \notin Contents /\ Bad # NoManifest
    /\ MaxWrites \in Nat

VARIABLES
    published,  \* every version of the file so far; its index is its mtime
    cached,     \* ManifestWatcher.cached
    at,         \* cachedMtimeMs
    live        \* stop() has not been called

feedVars == <<published, cached, at, live>>

FeedTypeOK ==
    /\ published \in Seq(Contents \cup {Bad})
    /\ cached \in Contents \cup {NoManifest}
    /\ at \in 0..Len(published)
    /\ live \in BOOLEAN

\* The daemon starts with or without a file.
FeedInit ==
    /\ published \in {<<>>} \cup {<<x>> : x \in Contents \cup {Bad}}
    /\ cached = NoManifest
    /\ at = 0
    /\ live = TRUE

\* The plugin renames a new version into place.
Publish(x) ==
    /\ Len(published) < MaxWrites
    /\ published' = Append(published, x)
    /\ UNCHANGED <<cached, at, live>>

\* A version is taken over: it validates and differs from the cached one.
Commit(n) ==
    /\ n >= at /\ published[n] \in Contents /\ published[n] # cached
    /\ cached' = published[n]
    /\ at' = n
    /\ UNCHANGED <<published, live>>

\* The bytes are those of the cached version: only the time moves on.
Confirm(n) ==
    /\ n >= at /\ published[n] = cached
    /\ at' = n
    /\ UNCHANGED <<published, cached, live>>

\* stop() drops the cache; a version that is being read may still be committed.
Drop ==
    /\ live
    /\ live' = FALSE
    /\ cached' = NoManifest
    /\ UNCHANGED <<published, at>>

FeedNext ==
    \/ \E x \in Contents \cup {Bad} : Publish(x)
    \/ \E n \in 1..Len(published) : Commit(n) \/ Confirm(n)
    \/ Drop

FeedSpec == FeedInit /\ [][FeedNext]_feedVars
-----------------------------------------------------------------------------
\* The cache holds what was on disk at the time it notes: content and mtime are
\* never of two different versions, so the stat poll compares against the right one.
CachedIsDisk == cached # NoManifest => at > 0 /\ published[at] = cached

\* A reader of the cache never goes back to an older version of the manifest, and
\* a rejected version never makes it lose the good one it has: only stop() empties the cache.
NeverOlder ==
    [][/\ at' >= at
       /\ cached' = NoManifest => cached = NoManifest \/ (live /\ ~live')]_feedVars
=============================================================================
