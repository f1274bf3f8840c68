--------------------------- MODULE SelectionState ---------------------------
(***************************************************************************)
(* The selection of the daemon: PUT /tabs/{tabId}/selection                *)
(* (routes/selection.ts), the state it changes (state/selectionState.ts),  *)
(* the rescan on a new manifest (onValidated in child.ts), and the frames  *)
(* they broadcast.  The manifest cache is the one ManifestFeed promises.   *)
(* A handle is an id with a place (file path and line range); a manifest   *)
(* covers a place or not.  Handlers run to the end once the body is read.  *)
(***************************************************************************)
EXTENDS ManifestFeed, FiniteSets, SequencesExt

CONSTANTS
    Ids,        \* handle ids, the key that deduplicates
    Places,     \* filePath and lineRange of a handle
    Covers,     \* [Contents -> SUBSET Places]: places inside a component of the manifest
    Tabs,
    NoSelection,\* the null of `current`
    HistoryCap, \* HISTORY_CAP
    TabCap,     \* TAB_SEQ_MAP_CAP
    MaxPuts     \* bound of the model: PUT requests

ASSUME SelectionConstants ==
    /\ Covers \in [Contents -> SUBSET Places]
    /\ NoSelection \notin Ids
    /\ HistoryCap \in Nat \ {0} /\ TabCap \in Nat \ {0} /\ MaxPuts \in Nat

VARIABLES
    current,    \* the id of the current record, which is one of history
    history,    \* the records, most recent first
    tabSeq,     \* tabSeqMap in its insertion order
    emitted,    \* the frames the last action broadcast
    wire,       \* what a subscriber knows that has applied every frame
    puts        \* history: the tabs of the requests so far

selVars == <<current, history, tabSeq, puts>>
vars == <<feedVars, selVars, emitted, wire>>

Handle == [id : Ids, place : Places]

Record == [id : Ids, place : Places, stale : BOOLEAN, hash : Contents \cup {NoManifest}]

HandleOf(r) == [id |-> r.id, place |-> r.place]

TypeOK ==
    /\ FeedTypeOK
    /\ current \in Ids \cup {NoSelection}
    /\ history \in Seq(Record) /\ Len(history) <= HistoryCap
    /\ tabSeq \in Seq([tab : Tabs, n : Nat \ {0}]) /\ Len(tabSeq) <= TabCap
    /\ wire \in [current : SUBSET Handle, manifest : Contents \cup {NoManifest}]
    /\ puts \in Seq(Tabs)

Init ==
    /\ FeedInit
    /\ current = NoSelection /\ history = <<>>
    /\ tabSeq = <<>>
    /\ emitted = <<>>
    /\ wire = [current |-> {}, manifest |-> NoManifest]
    /\ puts = <<>>
-----------------------------------------------------------------------------
(***************************************************************************)
(* Frames and the subscriber that applies them.                            *)
(***************************************************************************)
Selected(h, stale) == [type |-> "selection.updated", current |-> h, stale |-> stale]
Resolved(n) == [type |-> "staleManifest.resolved", count |-> n]
Updated(m) == [type |-> "manifest.updated", contentHash |-> m]

\* The subscriber replaces what a frame is about.
Apply(w, f) ==
    CASE f.type = "selection.updated" -> [w EXCEPT !.current = {f.current}]
      [] f.type = "manifest.updated"  -> [w EXCEPT !.manifest = f.contentHash]
      [] OTHER                        -> w

\* At most two frames come of one action.
Broadcast(fs) ==
    /\ emitted' = fs
    /\ wire' = CASE Len(fs) = 0 -> wire
                 [] Len(fs) = 1 -> Apply(wire, fs[1])
                 [] OTHER       -> Apply(Apply(wire, fs[1]), fs[2])
-----------------------------------------------------------------------------
(***************************************************************************)
(* nextTabSeq()                                                            *)
(***************************************************************************)
\* Mutant of EvictIfFull: the map grows.
EvictNever(s) == s

\* A new tab evicts the head of a map that is full.
EvictIfFull(s) == IF Len(s) >= TabCap THEN Tail(s) ELSE s

\* Mutant of NextTabSeq: a tab that is known keeps its position.
NextTabSeqUntouched(t) ==
    IF \E i \in 1..Len(tabSeq) : tabSeq[i].tab = t
    THEN [i \in 1..Len(tabSeq) |->
            IF tabSeq[i].tab = t THEN [tabSeq[i] EXCEPT !.n = @ + 1] ELSE tabSeq[i]]
    ELSE Append(EvictIfFull(tabSeq), [tab |-> t, n |-> 1])

\* A known tab moves to the tail.
NextTabSeq(t) ==
    LET known == {i \in 1..Len(tabSeq) : tabSeq[i].tab = t}
        i == CHOOSE i \in known : TRUE
    IN  IF known = {}
        THEN Append(EvictIfFull(tabSeq), [tab |-> t, n |-> 1])
        ELSE Append(RemoveAt(tabSeq, i), [tab |-> t, n |-> tabSeq[i].n + 1])
-----------------------------------------------------------------------------
(***************************************************************************)
(* PUT /tabs/{tabId}/selection                                             *)
(***************************************************************************)
\* The handler looks the handle up in the cached manifest.
IsStale(place) == cached = NoManifest \/ place \notin Covers[cached]

IndexOf(id) == {i \in 1..Len(history) : history[i].id = id}

Noop(h) ==
    /\ current = h.id
    /\ UNCHANGED <<current, history>>
    /\ Broadcast(<<>>)

\* Mutant of Promote: the record is put in front and left where it was.
PromoteCopy(h) ==
    /\ current # h.id
    /\ \E i \in IndexOf(h.id) :
          /\ history' = SubSeq(<<history[i]>> \o history, 1,
                               IF Len(history) < HistoryCap THEN Len(history) + 1 ELSE HistoryCap)
          /\ Broadcast(<<Selected(HandleOf(history[i]), IsStale(h.place))>>)
    /\ current' = h.id

\* Mutant of Promote: the ext is told nothing.
PromoteSilently(h) ==
    /\ current # h.id
    /\ \E i \in IndexOf(h.id) : history' = <<history[i]>> \o RemoveAt(history, i)
    /\ current' = h.id
    /\ Broadcast(<<>>)

\* The record of the first click comes back to the front, its place included; the
\* staleness that goes out with it is that of the place just clicked.
Promote(h) ==
    /\ current # h.id
    /\ \E i \in IndexOf(h.id) :
          /\ history' = <<history[i]>> \o RemoveAt(history, i)
          /\ Broadcast(<<Selected(HandleOf(history[i]), IsStale(h.place))>>)
    /\ current' = h.id

\* A record is pushed in front; the oldest falls off.
Insert(h) ==
    /\ current # h.id /\ IndexOf(h.id) = {}
    /\ LET r == [id |-> h.id, place |-> h.place, stale |-> IsStale(h.place), hash |-> cached]
           all == <<r>> \o history
       IN  history' = IF Len(all) > HistoryCap THEN SubSeq(all, 1, HistoryCap) ELSE all
    /\ current' = h.id
    /\ Broadcast(<<Selected(h, IsStale(h.place))>>)

Put(t, h) ==
    /\ Len(puts) < MaxPuts
    /\ puts' = Append(puts, t)
    /\ tabSeq' = NextTabSeq(t)
    /\ Noop(h) \/ Promote(h) \/ Insert(h)
    /\ UNCHANGED feedVars
-----------------------------------------------------------------------------
(***************************************************************************)
(* A new manifest: rescan, then the frames.                                *)
(***************************************************************************)
\* Mutant of Rescanned: every record is looked up again.
RescannedAll(m) ==
    [i \in 1..Len(history) |->
        [history[i] EXCEPT !.stale = history[i].place \notin Covers[m], !.hash = m]]

\* Only stale records are looked up again, and only those found change.
Rescanned(m) ==
    [i \in 1..Len(history) |->
        IF history[i].stale /\ history[i].place \in Covers[m]
        THEN [history[i] EXCEPT !.stale = FALSE, !.hash = m] ELSE history[i]]

\* Mutant of OnValidated: the records are not looked up again.
OnValidatedOnly(m) ==
    /\ UNCHANGED history
    /\ Broadcast(<<Updated(m)>>)

OnValidated(m) ==
    LET resolved == {i \in 1..Len(history) :
                        history[i].stale /\ history[i].place \in Covers[m]}
    IN  /\ history' = Rescanned(m)
        /\ Broadcast(IF resolved = {} THEN <<Updated(m)>>
                     ELSE <<Resolved(Cardinality(resolved)), Updated(m)>>)

Validated(n) ==
    /\ Commit(n)
    /\ OnValidated(published[n])
    /\ UNCHANGED <<current, tabSeq, puts>>

\* What else happens to the cache reaches nobody.
Quiet ==
    /\ \/ \E x \in Contents \cup {Bad} : Publish(x)
       \/ \E n \in 1..Len(published) : Confirm(n)
       \/ Drop
    /\ emitted' = <<>>
    /\ UNCHANGED <<selVars, wire>>

Next ==
    \/ \E t \in Tabs, h \in Handle : Put(t, h)
    \/ \E n \in 1..Len(published) : Validated(n)
    \/ Quiet

Spec == Init /\ [][Next]_vars
-----------------------------------------------------------------------------
(***************************************************************************)
(* Properties.                                                             *)
(***************************************************************************)
\* The daemon design: current is null or the record at history[0], and an id
\* occurs once, across noops, promotions, insertions over the cap and rescans.
HistoryWellFormed ==
    /\ (current = NoSelection) = (history = <<>>)
    /\ history # <<>> => history[1].id = current
    /\ \A i, j \in 1..Len(history) : history[i].id = history[j].id => i = j

\* Intake and rescan leave no gap: a record is stale only while the cached manifest
\* does not cover its place, whichever of the two came first.
StaleMeansUncovered ==
    \A i \in 1..Len(history) :
        history[i].stale /\ cached # NoManifest => history[i].place \notin Covers[cached]

\* "Preserves 'handle captures the click moment'": while a record is in the history
\* its place never changes, it never becomes stale again, and it ceases to be stale
\* only by the manifest that is cached now, covers it and is noted in it.
ClickMomentKept ==
    [][\A i \in 1..Len(history), j \in 1..Len(history') :
         history[i].id = history'[j].id =>
            \/ history'[j] = history[i]
            \/ /\ history[i].stale
               /\ cached' # NoManifest /\ history[i].place \in Covers[cached']
               /\ history'[j] = [history[i] EXCEPT !.stale = FALSE, !.hash = cached']]_vars

\* A subscriber that applies every frame has the daemon's selection and manifest:
\* no change of either goes out late, not at all, or with another record's handle.
WireIsCurrent ==
    /\ wire.current = IF history = <<>> THEN {} ELSE {HandleOf(history[1])}
    /\ live => wire.manifest = cached

\* In a sequence p of requests: the last of a tab, the tabs that have one, and their order.
LastUse(p, t) == {i \in 1..Len(p) : p[i] = t /\ \A j \in i + 1..Len(p) : p[j] # t}
Used(p) == {t \in Tabs : LastUse(p, t) # {}}
Before(p, t, u) == \E i \in LastUse(p, t), j \in LastUse(p, u) : i < j

\* The tabs that hold a counter are the TabCap used last, oldest first, and as long
\* as no tab was evicted a counter is the number of its requests.
TabSeqIsLRU ==
    /\ {tabSeq[i].tab : i \in 1..Len(tabSeq)} =
          {t \in Used(puts) : Cardinality({u \in Used(puts) : Before(puts, t, u)}) < TabCap}
    /\ \A i, j \in 1..Len(tabSeq) : i < j => Before(puts, tabSeq[i].tab, tabSeq[j].tab)
    /\ Cardinality(Used(puts)) <= TabCap =>
          \A i \in 1..Len(tabSeq) :
              tabSeq[i].n = Cardinality({k \in 1..Len(puts) : puts[k] = tabSeq[i].tab})

\* The daemon design: staleManifest is "the one provenance field on the wire", so
\* what selection.updated says of the selection is what its record says.
FrameTellsProvenance ==
    \A k \in 1..Len(emitted) :
        emitted[k].type = "selection.updated" => emitted[k].stale = history[1].stale
=============================================================================
