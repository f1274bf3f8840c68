------------------------- MODULE SelectionStateProofs -------------------------
(***************************************************************************)
(* Proofs about the selection (SelectionState), for any history and tab    *)
(* caps, any ids, places and tabs, and any manifests.                      *)
(***************************************************************************)
EXTENDS SelectionState, FiniteSetTheorems, TLAPS

Wires == [current : SUBSET Handle, manifest : Contents \cup {NoManifest}]

-----------------------------------------------------------------------------
(***************************************************************************)
(* Sequences                                                               *)
(***************************************************************************)
LEMMA RemoveAtOK ==
    ASSUME NEW S, NEW s \in Seq(S), NEW i \in 1..Len(s)
    PROVE  /\ RemoveAt(s, i) \in Seq(S)
           /\ Len(RemoveAt(s, i)) = Len(s) - 1
           /\ \A j \in 1..(Len(s) - 1) : RemoveAt(s, i)[j] = IF j < i THEN s[j] ELSE s[j + 1]
<1> DEFINE front == SubSeq(s, 1, i - 1)
           back == SubSeq(s, i + 1, Len(s))
<1>1. front \in Seq(S) /\ Len(front) = i - 1 /\ \A j \in 1..(i - 1) : front[j] = s[j]
  OBVIOUS
<1>2. back \in Seq(S) /\ Len(back) = Len(s) - i
      /\ \A j \in 1..(Len(s) - i) : back[j] = s[i + j]
  OBVIOUS
<1>3. RemoveAt(s, i) = front \o back
  BY DEF RemoveAt
<1> HIDE DEF front, back
<1>4. front \o back \in Seq(S) /\ Len(front \o back) = Len(s) - 1
  BY <1>1, <1>2
<1>5. ASSUME NEW j \in 1..(Len(s) - 1)
      PROVE (front \o back)[j] = IF j < i THEN s[j] ELSE s[j + 1]
  <2>1. CASE j < i
    BY <1>1, <1>2, <2>1
  <2>2. CASE ~(j < i)
    <3>1. (front \o back)[j] = back[j - (i - 1)]
      BY <1>1, <1>2, <2>2
    <3>2. j - (i - 1) \in 1..(Len(s) - i) /\ i + (j - (i - 1)) = j + 1
      BY <2>2
    <3> QED BY <1>2, <2>2, <3>1, <3>2
  <2> QED BY <2>1, <2>2
<1> QED BY <1>3, <1>4, <1>5

\* A record in front of a sequence, and the cut at a cap.
LEMMA PushOK ==
    ASSUME NEW S, NEW s \in Seq(S), NEW e \in S
    PROVE  /\ <<e>> \o s \in Seq(S) /\ Len(<<e>> \o s) = Len(s) + 1
           /\ (<<e>> \o s)[1] = e
           /\ \A j \in 2..(Len(s) + 1) : (<<e>> \o s)[j] = s[j - 1]
OBVIOUS

LEMMA CutOK ==
    ASSUME NEW S, NEW s \in Seq(S), NEW n \in Nat, n <= Len(s)
    PROVE  /\ SubSeq(s, 1, n) \in Seq(S) /\ Len(SubSeq(s, 1, n)) = n
           /\ \A j \in 1..n : SubSeq(s, 1, n)[j] = s[j]
OBVIOUS
-----------------------------------------------------------------------------
(***************************************************************************)
(* Frames                                                                  *)
(***************************************************************************)
LEMMA ApplyOK ==
    ASSUME NEW w \in Wires
    PROVE  /\ \A h \in Handle, b \in BOOLEAN : Apply(w, Selected(h, b)) = [w EXCEPT !.current = {h}]
           /\ \A n : Apply(w, Resolved(n)) = w
           /\ \A m \in Contents : Apply(w, Updated(m)) = [w EXCEPT !.manifest = m]
BY DEF Apply, Selected, Resolved, Updated

LEMMA NoFrame == Broadcast(<<>>) => wire' = wire
BY DEF Broadcast

LEMMA OneFrame == ASSUME NEW f, Broadcast(<<f>>) PROVE wire' = Apply(wire, f)
<1>1. Len(<<f>>) = 1 /\ <<f>>[1] = f
  OBVIOUS
<1> QED BY <1>1 DEF Broadcast

LEMMA TwoFrames == ASSUME NEW f, NEW g, Broadcast(<<f, g>>) PROVE wire' = Apply(Apply(wire, f), g)
<1>1. Len(<<f, g>>) = 2 /\ <<f, g>>[1] = f /\ <<f, g>>[2] = g
  OBVIOUS
<1> QED BY <1>1 DEF Broadcast
-----------------------------------------------------------------------------
(***************************************************************************)
(* The history                                                             *)
(***************************************************************************)
HistoryTyped == history \in Seq(Record) /\ Len(history) <= HistoryCap

\* Where the record at j comes from when the one at i is promoted.
From(i, j) == IF j = 1 THEN i ELSE IF j <= i THEN j - 1 ELSE j

LEMMA FromOK ==
    ASSUME NEW n \in Nat, NEW i \in 1..n
    PROVE  /\ \A j \in 1..n : From(i, j) \in 1..n
           /\ \A j, k \in 1..n : From(i, j) = From(i, k) => j = k
BY DEF From

LEMMA PromoteMoves ==
    ASSUME HistoryTyped, NEW i \in 1..Len(history),
           history' = <<history[i]>> \o RemoveAt(history, i)
    PROVE  /\ HistoryTyped' /\ Len(history') = Len(history)
           /\ \A j \in 1..Len(history') : history'[j] = history[From(i, j)]
<1> DEFINE r == history[i]
           others == RemoveAt(history, i)
<1>1. r \in Record /\ Len(history) \in Nat
  BY DEF HistoryTyped
<1>2. /\ others \in Seq(Record) /\ Len(others) = Len(history) - 1
      /\ \A j \in 1..(Len(history) - 1) :
            others[j] = IF j < i THEN history[j] ELSE history[j + 1]
  BY RemoveAtOK DEF HistoryTyped
<1> HIDE DEF r, others
<1>3. /\ <<r>> \o others \in Seq(Record) /\ Len(<<r>> \o others) = Len(history)
      /\ (<<r>> \o others)[1] = r
      /\ \A j \in 2..Len(history) : (<<r>> \o others)[j] = others[j - 1]
  BY <1>1, <1>2, PushOK
<1>4. history' = <<r>> \o others
  BY DEF r, others
<1>5. HistoryTyped' /\ Len(history') = Len(history)
  BY <1>3, <1>4 DEF HistoryTyped
<1>6. ASSUME NEW j \in 1..Len(history) PROVE history'[j] = history[From(i, j)]
  <2>1. CASE j = 1
    BY <1>3, <1>4, <2>1 DEF From, r
  <2>2. CASE j # 1
    <3>1. j \in 2..Len(history) /\ j - 1 \in 1..(Len(history) - 1)
      BY <1>1, <2>2
    <3>2. history'[j] = IF j - 1 < i THEN history[j - 1] ELSE history[(j - 1) + 1]
      BY <1>2, <1>3, <1>4, <3>1
    <3>3. (j - 1) + 1 = j /\ (j - 1 < i <=> j <= i)
      BY <1>1
    <3> QED BY <2>2, <3>2, <3>3 DEF From
  <2> QED BY <2>1, <2>2
<1> QED BY <1>5, <1>6

LEMMA InsertPushes ==
    ASSUME HistoryTyped, NEW r \in Record,
           history' = LET all == <<r>> \o history
                      IN  IF Len(all) > HistoryCap THEN SubSeq(all, 1, HistoryCap) ELSE all
    PROVE  /\ HistoryTyped' /\ Len(history') >= 1 /\ Len(history') <= Len(history) + 1
           /\ history'[1] = r
           /\ \A j \in 2..Len(history') : history'[j] = history[j - 1]
<1> DEFINE all == <<r>> \o history
<1>1. HistoryCap \in Nat /\ HistoryCap >= 1 /\ Len(history) \in Nat
  BY SelectionConstants DEF HistoryTyped
<1>2. /\ all \in Seq(Record) /\ Len(all) = Len(history) + 1 /\ all[1] = r
      /\ \A j \in 2..(Len(history) + 1) : all[j] = history[j - 1]
  BY PushOK DEF HistoryTyped
<1>3. history' = IF Len(all) > HistoryCap THEN SubSeq(all, 1, HistoryCap) ELSE all
  OBVIOUS
<1> HIDE DEF all
<1>4. CASE Len(all) > HistoryCap
  <2>1. /\ history' \in Seq(Record) /\ Len(history') = HistoryCap
        /\ \A j \in 1..HistoryCap : history'[j] = all[j]
    BY <1>1, <1>2, <1>3, <1>4, CutOK
  <2> QED BY <1>1, <1>2, <1>4, <2>1 DEF HistoryTyped
<1>5. CASE ~(Len(all) > HistoryCap)
  BY <1>1, <1>2, <1>3, <1>5 DEF HistoryTyped
<1> QED BY <1>4, <1>5

LEMMA RescanKeeps ==
    ASSUME HistoryTyped, NEW m \in Contents, history' = Rescanned(m)
    PROVE  /\ HistoryTyped' /\ Len(history') = Len(history)
           /\ \A j \in 1..Len(history) :
                 \/ /\ history'[j] = history[j]
                    /\ ~(history[j].stale /\ history[j].place \in Covers[m])
                 \/ /\ history[j].stale /\ history[j].place \in Covers[m]
                    /\ history'[j] = [history[j] EXCEPT !.stale = FALSE, !.hash = m]
<1>1. \A j \in 1..Len(history) : history[j] \in Record
  BY DEF HistoryTyped
<1>2. \A j \in 1..Len(history) :
         [history[j] EXCEPT !.stale = FALSE, !.hash = m] \in Record
  BY <1>1 DEF Record
<1>3. \A j \in 1..Len(history) : Rescanned(m)[j] \in Record
  BY <1>1, <1>2 DEF Rescanned
<1>4. Len(history) \in Nat
  BY DEF HistoryTyped
<1>5. Rescanned(m) \in [1..Len(history) -> Record]
  BY <1>3 DEF Rescanned
<1>6. Rescanned(m) \in Seq(Record) /\ Len(Rescanned(m)) = Len(history)
  BY <1>4, <1>5
<1>7. HistoryTyped' /\ Len(history') = Len(history)
  BY <1>6 DEF HistoryTyped
<1> QED BY <1>7 DEF Rescanned
-----------------------------------------------------------------------------
(***************************************************************************)
(* The operations: the selection, the subscriber's view of it, and what    *)
(* becomes of the records.                                                 *)
(***************************************************************************)
SelectionOK == HistoryWellFormed /\ StaleMeansUncovered /\ WireIsCurrent

Typed == HistoryTyped /\ current \in Ids \cup {NoSelection} /\ wire \in Wires

\* What a step does to a record that it keeps.
RecordsKept ==
    \A i \in 1..Len(history), j \in 1..Len(history') :
       history[i].id = history'[j].id =>
          \/ history'[j] = history[i]
          \/ /\ history[i].stale
             /\ cached' # NoManifest /\ history[i].place \in Covers[cached']
             /\ history'[j] = [history[i] EXCEPT !.stale = FALSE, !.hash = cached']

LEMMA HistoryFacts ==
    ASSUME HistoryTyped
    PROVE  /\ Len(history) \in Nat
           /\ \A i \in 1..Len(history) : history[i] \in Record /\ HandleOf(history[i]) \in Handle
           /\ history = <<>> <=> Len(history) = 0
<1>1. Len(history) \in Nat /\ (history = <<>> <=> Len(history) = 0)
  BY DEF HistoryTyped
<1>2. \A i \in 1..Len(history) : history[i] \in Record
  BY DEF HistoryTyped
<1>3. \A r \in Record : HandleOf(r) \in Handle
  BY DEF Record, Handle, HandleOf
<1> QED BY <1>1, <1>2, <1>3

\* The frame selection.updated brings the subscriber to the head of the history.
LEMMA SelectedIsCurrent ==
    ASSUME wire \in Wires, WireIsCurrent, UNCHANGED <<cached, live>>,
           NEW g \in Handle, NEW b \in BOOLEAN, Broadcast(<<Selected(g, b)>>),
           history' # <<>>, g = HandleOf(history'[1])
    PROVE  wire' \in Wires /\ WireIsCurrent'
<1>1. wire' = [wire EXCEPT !.current = {g}]
  BY OneFrame, ApplyOK
<1>2. wire' \in Wires /\ wire'.current = {g} /\ wire'.manifest = wire.manifest
  BY <1>1 DEF Wires
<1> QED BY <1>2 DEF WireIsCurrent

LEMMA NoopHolds ==
    ASSUME Typed, SelectionOK, NEW h \in Handle, Noop(h), UNCHANGED feedVars
    PROVE  Typed' /\ SelectionOK' /\ RecordsKept
<1>1. UNCHANGED <<current, history, wire, cached, live>>
  BY NoFrame DEF Noop, feedVars
<1> QED BY <1>1 DEF Typed, HistoryTyped, SelectionOK, HistoryWellFormed, StaleMeansUncovered,
                    WireIsCurrent, RecordsKept

LEMMA PromoteHolds ==
    ASSUME Typed, SelectionOK, NEW h \in Handle, Promote(h), UNCHANGED feedVars
    PROVE  Typed' /\ SelectionOK' /\ RecordsKept
<1>0. HistoryTyped /\ UNCHANGED <<cached, live>>
  BY DEF Typed, feedVars
<1>1. PICK i \in 1..Len(history) :
         /\ history[i].id = h.id
         /\ history' = <<history[i]>> \o RemoveAt(history, i)
         /\ Broadcast(<<Selected(HandleOf(history[i]), IsStale(h.place))>>)
  BY DEF Promote, IndexOf
<1>2. /\ HistoryTyped' /\ Len(history') = Len(history)
      /\ \A j \in 1..Len(history') : history'[j] = history[From(i, j)]
  BY <1>0, <1>1, PromoteMoves
<1>3. /\ \A j \in 1..Len(history) : From(i, j) \in 1..Len(history)
      /\ \A j, k \in 1..Len(history) : From(i, j) = From(i, k) => j = k
  BY <1>0, FromOK, HistoryFacts, ZenonT(60)
<1>4. 1 \in 1..Len(history') /\ history' # <<>> /\ history # <<>>
  BY <1>0, <1>2, HistoryFacts
<1>5. history'[1] = history[i] /\ current' = h.id /\ h.id \in Ids
  BY <1>2, <1>4 DEF From, Promote, Handle
<1>6. HistoryWellFormed'
  <2>1. ASSUME NEW j \in 1..Len(history'), NEW k \in 1..Len(history'),
               history'[j].id = history'[k].id
        PROVE  j = k
    <3>1. /\ From(i, j) \in 1..Len(history) /\ From(i, k) \in 1..Len(history)
          /\ history[From(i, j)].id = history[From(i, k)].id
      BY <1>2, <1>3, <2>1
    <3>2. From(i, j) = From(i, k)
      BY <3>1 DEF SelectionOK, HistoryWellFormed
    <3> QED BY <1>2, <1>3, <3>2
  <2>2. current' # NoSelection
    BY <1>5, SelectionConstants
  <2> QED BY <1>1, <1>4, <1>5, <2>1, <2>2 DEF HistoryWellFormed
<1>7. StaleMeansUncovered'
  BY <1>0, <1>2, <1>3 DEF SelectionOK, StaleMeansUncovered
<1>8. wire' \in Wires /\ WireIsCurrent'
  <2>1. HandleOf(history[i]) \in Handle /\ IsStale(h.place) \in BOOLEAN
    BY <1>0, HistoryFacts DEF IsStale
  <2> QED BY <1>0, <1>1, <1>4, <1>5, <2>1, SelectedIsCurrent DEF Typed, SelectionOK
<1>9. RecordsKept
  BY <1>2, <1>3, SMTT(30) DEF SelectionOK, HistoryWellFormed, RecordsKept
<1> QED BY <1>2, <1>5, <1>6, <1>7, <1>8, <1>9 DEF Typed, SelectionOK

LEMMA InsertHolds ==
    ASSUME Typed, SelectionOK, cached \in Contents \cup {NoManifest},
           NEW h \in Handle, Insert(h), UNCHANGED feedVars
    PROVE  Typed' /\ SelectionOK' /\ RecordsKept
<1> DEFINE r == [id |-> h.id, place |-> h.place, stale |-> IsStale(h.place), hash |-> cached]
<1>0. HistoryTyped /\ UNCHANGED <<cached, live>> /\ h.id \in Ids /\ h.place \in Places
  BY DEF Typed, feedVars, Handle
<1>1. /\ r \in Record /\ r.id = h.id /\ r.place = h.place /\ r.stale = IsStale(h.place)
      /\ HandleOf(r) = h
  BY <1>0 DEF Record, IsStale, HandleOf, Handle
<1>2. /\ history' = LET all == <<r>> \o history
                    IN  IF Len(all) > HistoryCap THEN SubSeq(all, 1, HistoryCap) ELSE all
      /\ current' = h.id
      /\ Broadcast(<<Selected(h, IsStale(h.place))>>)
      /\ \A i \in 1..Len(history) : history[i].id # h.id
  BY DEF Insert, IndexOf
<1> HIDE DEF r
<1>3. /\ HistoryTyped' /\ Len(history') >= 1 /\ Len(history') <= Len(history) + 1
      /\ history'[1] = r
      /\ \A j \in 2..Len(history') : history'[j] = history[j - 1]
  BY <1>0, <1>1, <1>2, InsertPushes
<1>4. Len(history) \in Nat /\ Len(history') \in Nat /\ history' # <<>>
  BY <1>0, <1>3, HistoryFacts DEF HistoryTyped
<1>5. \A j \in 2..Len(history') : j - 1 \in 1..Len(history) /\ history'[j] = history[j - 1]
  BY <1>3, <1>4
<1>6. HistoryWellFormed'
  <2>1. ASSUME NEW j \in 1..Len(history'), NEW k \in 1..Len(history'),
               history'[j].id = history'[k].id
        PROVE  j = k
    <3>0. \A l \in 2..Len(history') : history'[l].id # history'[1].id
      BY <1>1, <1>2, <1>3, <1>5, ZenonT(60)
    <3>1. CASE j = 1 \/ k = 1
      BY <1>4, <2>1, <3>0, <3>1
    <3>2. CASE j # 1 /\ k # 1
      <4>1. j \in 2..Len(history') /\ k \in 2..Len(history')
        BY <1>4, <3>2
      <4>2. j - 1 = k - 1
        BY <1>5, <2>1, <4>1, SMTT(30) DEF SelectionOK, HistoryWellFormed
      <4> QED BY <4>1, <4>2
    <3> QED BY <3>1, <3>2
  <2>2. current' # NoSelection
    BY <1>0, <1>2, SelectionConstants
  <2> QED BY <1>1, <1>2, <1>3, <1>4, <2>1, <2>2 DEF HistoryWellFormed
<1>7. StaleMeansUncovered'
  <2>1. ASSUME NEW j \in 1..Len(history'), history'[j].stale, cached # NoManifest
        PROVE  history'[j].place \notin Covers[cached]
    <3>1. CASE j = 1
      BY <1>1, <1>3, <2>1, <3>1 DEF IsStale
    <3>2. CASE j # 1
      <4>1. j \in 2..Len(history')
        BY <1>4, <3>2
      <4> QED BY <1>5, <2>1, <4>1 DEF SelectionOK, StaleMeansUncovered
    <3> QED BY <3>1, <3>2
  <2> QED BY <1>0, <2>1 DEF StaleMeansUncovered
<1>8. wire' \in Wires /\ WireIsCurrent'
  <2>1. IsStale(h.place) \in BOOLEAN
    BY DEF IsStale
  <2> QED BY <1>0, <1>1, <1>2, <1>3, <1>4, <2>1, SelectedIsCurrent DEF Typed, SelectionOK
<1>9. RecordsKept
  <2>1. ASSUME NEW i \in 1..Len(history), NEW j \in 1..Len(history'),
               history[i].id = history'[j].id
        PROVE  history'[j] = history[i]
    <3>1. j # 1
      BY <1>1, <1>2, <1>3, <2>1
    <3>2. j \in 2..Len(history')
      BY <1>4, <3>1
    <3>3. j - 1 = i
      BY <1>5, <2>1, <3>2 DEF SelectionOK, HistoryWellFormed
    <3> QED BY <1>5, <3>2, <3>3
  <2> QED BY <2>1 DEF RecordsKept
<1> QED BY <1>0, <1>2, <1>3, <1>6, <1>7, <1>8, <1>9 DEF Typed, SelectionOK

LEMMA ValidatedHolds ==
    ASSUME Typed, SelectionOK, FeedTypeOK, NEW n \in 1..Len(published), Validated(n)
    PROVE  Typed' /\ SelectionOK' /\ RecordsKept
<1> DEFINE m == published[n]
<1>0. HistoryTyped /\ wire \in Wires /\ Len(history) \in Nat
  BY HistoryFacts DEF Typed
<1>1. /\ cached' = m /\ m \in Contents /\ UNCHANGED <<current, live>>
      /\ m # NoManifest
      /\ OnValidated(m)
  BY ContentValues DEF Validated, Commit
<1> HIDE DEF m
<1>2. /\ HistoryTyped' /\ Len(history') = Len(history)
      /\ \A j \in 1..Len(history) :
            \/ history'[j] = history[j] /\ ~(history[j].stale /\ history[j].place \in Covers[m])
            \/ /\ history[j].stale /\ history[j].place \in Covers[m]
               /\ history'[j] = [history[j] EXCEPT !.stale = FALSE, !.hash = m]
  BY <1>0, <1>1, RescanKeeps DEF OnValidated
<1>3. \A j \in 1..Len(history) :
         /\ history'[j].id = history[j].id /\ history'[j].place = history[j].place
         /\ history'[j].stale => history[j].stale /\ history[j].place \notin Covers[m]
  <2>1. \A r \in Record : LET s == [r EXCEPT !.stale = FALSE, !.hash = m]
                          IN  s.id = r.id /\ s.place = r.place /\ s.stale = FALSE
    BY DEF Record
  <2>2. \A j \in 1..Len(history) : history[j] \in Record
    BY <1>0, HistoryFacts
  <2> QED BY <1>2, <2>1, <2>2
<1>4. history' = <<>> <=> history = <<>>
  <2>1. \A S : \A t \in Seq(S) : t = <<>> <=> Len(t) = 0
    OBVIOUS
  <2> QED BY <1>0, <1>2, <2>1 DEF HistoryTyped
<1>5. HistoryWellFormed'
  <2>1. history # <<>> => 1 \in 1..Len(history)
    BY <1>0 DEF HistoryTyped
  <2>2. history' # <<>> => history'[1].id = current'
    BY <1>1, <1>3, <1>4, <2>1 DEF SelectionOK, HistoryWellFormed
  <2>3. \A i, j \in 1..Len(history') : history'[i].id = history'[j].id => i = j
    BY <1>2, <1>3 DEF SelectionOK, HistoryWellFormed
  <2> QED BY <1>1, <1>4, <2>2, <2>3 DEF SelectionOK, HistoryWellFormed
<1>6. StaleMeansUncovered'
  BY <1>1, <1>2, <1>3 DEF StaleMeansUncovered
<1>7. wire' = [wire EXCEPT !.manifest = m]
  <2>1. PICK k : Broadcast(<<Updated(m)>>) \/ Broadcast(<<Resolved(k), Updated(m)>>)
    BY <1>1, Zenon DEF OnValidated
  <2>2. CASE Broadcast(<<Updated(m)>>)
    BY <1>0, <1>1, <2>2, OneFrame, ApplyOK
  <2>3. CASE Broadcast(<<Resolved(k), Updated(m)>>)
    <3>1. wire' = Apply(Apply(wire, Resolved(k)), Updated(m))
      BY <2>3, TwoFrames
    <3> QED BY <1>0, <1>1, <3>1, ApplyOK
  <2> QED BY <2>1, <2>2, <2>3
<1>8. wire' \in Wires /\ WireIsCurrent'
  <2>1. wire' \in Wires /\ wire'.current = wire.current /\ wire'.manifest = m
    BY <1>0, <1>1, <1>7 DEF Wires
  <2>2. history # <<>> => HandleOf(history'[1]) = HandleOf(history[1])
    BY <1>0, <1>3, HistoryFacts DEF HandleOf
  <2> QED BY <1>1, <1>4, <2>1, <2>2 DEF SelectionOK, WireIsCurrent
<1>9. RecordsKept
  BY <1>1, <1>2, <1>3, ZenonT(60) DEF RecordsKept, SelectionOK, HistoryWellFormed
<1> QED BY <1>1, <1>2, <1>5, <1>6, <1>8, <1>9 DEF Typed, SelectionOK

\* What nobody is told of leaves the selection alone; stop() empties the cache.
LEMMA StillHolds ==
    ASSUME Typed, SelectionOK, UNCHANGED <<current, history, wire>>,
           \/ UNCHANGED <<cached, live>>
           \/ cached' = NoManifest /\ live' = FALSE
    PROVE  Typed' /\ SelectionOK' /\ RecordsKept
<1>1. Typed' /\ HistoryWellFormed' /\ RecordsKept
  BY DEF Typed, HistoryTyped, SelectionOK, HistoryWellFormed, RecordsKept
<1>2. StaleMeansUncovered' /\ WireIsCurrent'
  BY DEF SelectionOK, StaleMeansUncovered, WireIsCurrent
<1> QED BY <1>1, <1>2 DEF SelectionOK

LEMMA SelectionSteps ==
    ASSUME Typed, SelectionOK, FeedTypeOK, [Next]_vars
    PROVE  Typed' /\ SelectionOK' /\ RecordsKept
<1>1. ASSUME NEW t \in Tabs, NEW h \in Handle, Put(t, h)
      PROVE  Typed' /\ SelectionOK' /\ RecordsKept
  <2>1. (Noop(h) \/ Promote(h) \/ Insert(h)) /\ UNCHANGED feedVars
    BY <1>1 DEF Put
  <2>2. cached \in Contents \cup {NoManifest}
    BY DEF FeedTypeOK
  <2> QED BY <2>1, <2>2, NoopHolds, PromoteHolds, InsertHolds
<1>2. ASSUME NEW n \in 1..Len(published), Validated(n)
      PROVE  Typed' /\ SelectionOK' /\ RecordsKept
  BY <1>2, ValidatedHolds
<1>3. CASE Quiet
  BY <1>3, StillHolds DEF Quiet, selVars, Publish, Confirm, Drop
<1>4. CASE UNCHANGED vars
  BY <1>4, StillHolds DEF vars, feedVars, selVars
<1> QED BY <1>1, <1>2, <1>3, <1>4 DEF Next
-----------------------------------------------------------------------------
(***************************************************************************)
(* The feed and the tabs: types.                                           *)
(***************************************************************************)
Counter == [tab : Tabs, n : Nat \ {0}]

TabsTyped == tabSeq \in Seq(Counter) /\ Len(tabSeq) <= TabCap

\* A bounded queue that takes one more: the oldest makes room.
LEMMA EvictOK ==
    ASSUME NEW S, NEW s \in Seq(S), Len(s) <= TabCap
    PROVE  /\ EvictIfFull(s) \in Seq(S)
           /\ Len(EvictIfFull(s)) = IF Len(s) = TabCap THEN TabCap - 1 ELSE Len(s)
           /\ Len(s) < TabCap => EvictIfFull(s) = s
           /\ Len(s) = TabCap => \A j \in 1..(TabCap - 1) : EvictIfFull(s)[j] = s[j + 1]
<1>1. TabCap \in Nat /\ TabCap >= 1 /\ Len(s) \in Nat
  BY SelectionConstants
<1>2. CASE Len(s) = TabCap
  <2>1. s # <<>> /\ EvictIfFull(s) = Tail(s)
    BY <1>1, <1>2 DEF EvictIfFull
  <2> QED BY <1>1, <1>2, <2>1
<1>3. CASE Len(s) < TabCap
  BY <1>1, <1>3 DEF EvictIfFull
<1> QED BY <1>1, <1>2, <1>3

LEMMA FeedInitTyped == FeedInit => FeedTypeOK /\ cached = NoManifest
<1> SUFFICES ASSUME FeedInit PROVE FeedTypeOK /\ cached = NoManifest
  OBVIOUS
<1>1. published \in Seq(Contents \cup {Bad}) /\ Len(published) \in Nat
  <2>1. CASE published = <<>>
    BY <2>1
  <2>2. ASSUME NEW x \in Contents \cup {Bad}, published = <<x>>
        PROVE  published \in Seq(Contents \cup {Bad}) /\ Len(published) \in Nat
    BY <2>2
  <2> QED BY <2>1, <2>2 DEF FeedInit
<1> QED BY <1>1 DEF FeedInit, FeedTypeOK

LEMMA FeedSteps ==
    ASSUME FeedTypeOK, \/ \E x \in Contents \cup {Bad} : Publish(x)
                       \/ \E n \in 1..Len(published) : Commit(n) \/ Confirm(n)
                       \/ Drop \/ UNCHANGED feedVars
    PROVE  FeedTypeOK'
<1>0. published \in Seq(Contents \cup {Bad}) /\ Len(published) \in Nat
  BY DEF FeedTypeOK
<1>1. ASSUME NEW x \in Contents \cup {Bad}, Publish(x) PROVE FeedTypeOK'
  <2>1. published' \in Seq(Contents \cup {Bad}) /\ Len(published') = Len(published) + 1
    BY <1>0, <1>1 DEF Publish
  <2> QED BY <1>0, <1>1, <2>1 DEF Publish, FeedTypeOK
<1>2. ASSUME NEW n \in 1..Len(published), Commit(n) \/ Confirm(n) PROVE FeedTypeOK'
  BY <1>0, <1>2 DEF Commit, Confirm, FeedTypeOK
<1>3. CASE Drop \/ UNCHANGED feedVars
  BY <1>3 DEF Drop, feedVars, FeedTypeOK
<1> QED BY <1>1, <1>2, <1>3
-----------------------------------------------------------------------------
(***************************************************************************)
(* The tabs in the order of their last use.  A tab that holds no counter   *)
(* was used before every one that does, and then all counters are taken.   *)
(***************************************************************************)
TabsInOrder == \A i, j \in 1..Len(tabSeq) : i < j => Before(puts, tabSeq[i].tab, tabSeq[j].tab)

HoldersAreUsed == \A i \in 1..Len(tabSeq) : tabSeq[i].tab \in Used(puts)

EvictedAreOlder ==
    \A u \in Used(puts) : (\A i \in 1..Len(tabSeq) : tabSeq[i].tab # u) =>
        Len(tabSeq) = TabCap /\ \A i \in 1..Len(tabSeq) : Before(puts, u, tabSeq[i].tab)

\* Proved along with the rest: that a tab with a request has a last one needs no induction.
UnusedIsUnseen == \A t \in Tabs \ Used(puts) : \A k \in 1..Len(puts) : puts[k] # t

Uses(p, t) == {k \in 1..Len(p) : p[k] = t}

CountersCount ==
    Cardinality(Used(puts)) <= TabCap =>
        \A i \in 1..Len(tabSeq) : tabSeq[i].n = Cardinality(Uses(puts, tabSeq[i].tab))

TabsOK ==
    /\ TabsTyped /\ puts \in Seq(Tabs)
    /\ TabsInOrder /\ HoldersAreUsed /\ EvictedAreOlder /\ UnusedIsUnseen
    /\ CountersCount

LEMMA LastUseIsOne ==
    ASSUME puts \in Seq(Tabs), NEW t, NEW i \in LastUse(puts, t), NEW j \in LastUse(puts, t)
    PROVE  i = j
<1>1. i \in 1..Len(puts) /\ j \in 1..Len(puts) /\ Len(puts) \in Nat
  BY DEF LastUse
<1>2. ~(i < j) /\ ~(j < i)
  BY <1>1 DEF LastUse
<1> QED BY <1>1, <1>2

LEMMA BeforeIsStrict ==
    ASSUME puts \in Seq(Tabs), NEW t, NEW u, Before(puts, t, u)
    PROVE  ~Before(puts, u, t) /\ t # u
<1>1. PICK i \in LastUse(puts, t), j \in LastUse(puts, u) : i < j
  BY DEF Before
<1>2. i \in Nat /\ j \in Nat
  BY DEF LastUse
<1>3. ASSUME NEW k \in LastUse(puts, u), NEW l \in LastUse(puts, t), k < l PROVE FALSE
  BY <1>1, <1>2, <1>3, LastUseIsOne
<1>4. ~Before(puts, u, t)
  BY <1>3 DEF Before
<1>5. t # u
  BY <1>1, <1>2, LastUseIsOne
<1> QED BY <1>4, <1>5

\* A request makes its tab the one used last and moves no other.
LEMMA RequestIsLast ==
    ASSUME puts \in Seq(Tabs), NEW t \in Tabs, puts' = Append(puts, t)
    PROVE  /\ puts' \in Seq(Tabs) /\ Len(puts') = Len(puts) + 1
           /\ LastUse(puts', t) = {Len(puts) + 1}
           /\ \A u : u # t => LastUse(puts', u) = LastUse(puts, u)
           /\ Used(puts') = Used(puts) \cup {t}
           /\ \A u, v : u # t /\ v # t => (Before(puts', u, v) <=> Before(puts, u, v))
           /\ \A u \in Used(puts) : u # t => Before(puts', u, t)
           /\ \A u : ~Before(puts', t, u)
<1>1. /\ Len(puts) \in Nat /\ puts' \in Seq(Tabs) /\ Len(puts') = Len(puts) + 1
      /\ puts'[Len(puts) + 1] = t
      /\ \A k \in 1..Len(puts) : puts'[k] = puts[k]
  OBVIOUS
<1>2. LastUse(puts', t) = {Len(puts) + 1}
  <2>1. Len(puts) + 1 \in LastUse(puts', t)
    BY <1>1 DEF LastUse
  <2>2. ASSUME NEW k \in LastUse(puts', t) PROVE k = Len(puts) + 1
    <3>1. k \in 1..(Len(puts) + 1) /\ \A j \in k + 1..(Len(puts) + 1) : puts'[j] # t
      BY <1>1 DEF LastUse
    <3>2. Len(puts) + 1 \notin k + 1..(Len(puts) + 1)
      BY <1>1, <3>1
    <3> QED BY <1>1, <3>1, <3>2
  <2> QED BY <2>1, <2>2
<1>3. ASSUME NEW u, u # t PROVE LastUse(puts', u) = LastUse(puts, u)
  <2>1. ASSUME NEW k \in LastUse(puts', u) PROVE k \in LastUse(puts, u)
    <3>1. /\ k \in 1..(Len(puts) + 1) /\ puts'[k] = u
          /\ \A j \in k + 1..(Len(puts) + 1) : puts'[j] # u
      BY <1>1, <2>1 DEF LastUse
    <3>2. k \in 1..Len(puts)
      BY <1>1, <1>3, <3>1
    <3> QED BY <1>1, <3>1, <3>2 DEF LastUse
  <2>2. ASSUME NEW k \in LastUse(puts, u) PROVE k \in LastUse(puts', u)
    <3>1. k \in 1..Len(puts) /\ puts[k] = u /\ \A j \in k + 1..Len(puts) : puts[j] # u
      BY <2>2 DEF LastUse
    <3>2. \A j \in k + 1..(Len(puts) + 1) : puts'[j] # u
      BY <1>1, <1>3, <3>1
    <3> QED BY <1>1, <3>1, <3>2 DEF LastUse
  <2> QED BY <2>1, <2>2
<1>4. Used(puts') = Used(puts) \cup {t}
  BY <1>2, <1>3 DEF Used
<1>5. \A u, v : u # t /\ v # t => (Before(puts', u, v) <=> Before(puts, u, v))
  BY <1>3 DEF Before
<1>6. ASSUME NEW u \in Used(puts), u # t PROVE Before(puts', u, t)
  <2>1. PICK k : k \in LastUse(puts, u)
    BY DEF Used
  <2>2. k \in LastUse(puts', u) /\ k \in 1..Len(puts)
    BY <1>3, <1>6, <2>1 DEF LastUse
  <2>3. k < Len(puts) + 1 /\ Len(puts) + 1 \in LastUse(puts', t)
    BY <1>1, <1>2, <2>2
  <2> QED BY <2>2, <2>3 DEF Before
<1>7. ASSUME NEW u PROVE ~Before(puts', t, u)
  <2>1. \A k \in LastUse(puts', u) : k \in 1..(Len(puts) + 1)
    BY <1>1 DEF LastUse
  <2> QED BY <1>1, <1>2, <2>1 DEF Before
<1> QED BY <1>1, <1>2, <1>3, <1>4, <1>5, <1>6, <1>7

\* Position j of what is left of tabSeq without its position d.
Skip(d, j) == IF j < d THEN j ELSE j + 1

\* One request takes at most one counter out of its place, that of the tab itself or the
\* oldest of a full map, and puts the tab's last; every other counter stays as it was.
LEMMA TabStep ==
    ASSUME TabsTyped, TabsInOrder, puts \in Seq(Tabs), NEW t \in Tabs, tabSeq' = NextTabSeq(t)
    PROVE  \E d \in 1..(Len(tabSeq) + 1), n \in Nat \ {0} :
              /\ TabsTyped'
              /\ Len(tabSeq') = IF d <= Len(tabSeq) THEN Len(tabSeq) ELSE Len(tabSeq) + 1
              /\ tabSeq'[Len(tabSeq')] = [tab |-> t, n |-> n]
              /\ \A j \in 1..(Len(tabSeq') - 1) : tabSeq'[j] = tabSeq[Skip(d, j)]
              /\ \A j \in 1..Len(tabSeq) : j # d => tabSeq[j].tab # t
              /\ \/ d <= Len(tabSeq) /\ tabSeq[d].tab = t /\ n = tabSeq[d].n + 1
                 \/ /\ \A j \in 1..Len(tabSeq) : tabSeq[j].tab # t
                    /\ n = 1
                    /\ d = IF Len(tabSeq) = TabCap THEN 1 ELSE Len(tabSeq) + 1
<1>0. /\ Len(tabSeq) \in Nat /\ tabSeq \in Seq(Counter) /\ Len(tabSeq) <= TabCap
      /\ TabCap \in Nat /\ TabCap >= 1
  BY SelectionConstants DEF TabsTyped
<1>1. \A s \in Seq(Counter), e \in Counter :
         /\ Append(s, e) \in Seq(Counter) /\ Len(Append(s, e)) = Len(s) + 1
         /\ Append(s, e)[Len(s) + 1] = e
         /\ \A j \in 1..Len(s) : Append(s, e)[j] = s[j]
  OBVIOUS
<1> DEFINE known == {i \in 1..Len(tabSeq) : tabSeq[i].tab = t}
<1>2. CASE known = {}
  <2> DEFINE s == EvictIfFull(tabSeq)
             e == [tab |-> t, n |-> 1]
             d == IF Len(tabSeq) = TabCap THEN 1 ELSE Len(tabSeq) + 1
  <2>1. tabSeq' = Append(s, e)
    BY <1>2 DEF NextTabSeq
  <2>2. /\ s \in Seq(Counter)
        /\ Len(s) = IF Len(tabSeq) = TabCap THEN TabCap - 1 ELSE Len(tabSeq)
        /\ Len(tabSeq) < TabCap => s = tabSeq
        /\ Len(tabSeq) = TabCap => \A j \in 1..(TabCap - 1) : s[j] = tabSeq[j + 1]
    BY <1>0, EvictOK
  <2>3. e \in Counter
    BY DEF Counter
  <2> HIDE DEF s, e
  <2>4. /\ tabSeq' \in Seq(Counter) /\ Len(tabSeq') = Len(s) + 1
        /\ tabSeq'[Len(tabSeq')] = e
        /\ \A j \in 1..(Len(tabSeq') - 1) : tabSeq'[j] = s[j]
    BY <1>0, <1>1, <2>1, <2>2, <2>3
  <2>5. d \in 1..(Len(tabSeq) + 1) /\ 1 \in Nat \ {0}
    BY <1>0
  <2>6. TabsTyped' /\ Len(tabSeq') = IF d <= Len(tabSeq) THEN Len(tabSeq) ELSE Len(tabSeq) + 1
    BY <1>0, <2>2, <2>4 DEF TabsTyped
  <2>7. \A j \in 1..(Len(tabSeq') - 1) : tabSeq'[j] = tabSeq[Skip(d, j)]
    <3>1. CASE Len(tabSeq) = TabCap
      BY <1>0, <2>2, <2>4, <3>1 DEF Skip
    <3>2. CASE Len(tabSeq) # TabCap
      BY <1>0, <2>2, <2>4, <3>2 DEF Skip
    <3> QED BY <3>1, <3>2
  <2>8. \A j \in 1..Len(tabSeq) : tabSeq[j].tab # t
    BY <1>2
  <2> HIDE DEF d
  <2> QED BY <2>4, <2>5, <2>6, <2>7, <2>8 DEF d, e
<1>3. CASE known # {}
  <2> DEFINE d == CHOOSE i \in known : TRUE
             s == RemoveAt(tabSeq, d)
             e == [tab |-> t, n |-> tabSeq[d].n + 1]
  <2>1. tabSeq' = Append(s, e)
    BY <1>3 DEF NextTabSeq
  <2>2. d \in known
    BY <1>3
  <2> HIDE DEF d
  <2>3. d \in 1..Len(tabSeq) /\ tabSeq[d].tab = t /\ tabSeq[d] \in Counter
    BY <1>0, <2>2
  <2>4. /\ s \in Seq(Counter) /\ Len(s) = Len(tabSeq) - 1
        /\ \A j \in 1..(Len(tabSeq) - 1) :
              s[j] = IF j < d THEN tabSeq[j] ELSE tabSeq[j + 1]
    BY <1>0, <2>3, RemoveAtOK
  <2>5. e \in Counter /\ tabSeq[d].n + 1 \in Nat \ {0}
    BY <2>3 DEF Counter
  <2> HIDE DEF s, e
  <2>6. /\ tabSeq' \in Seq(Counter) /\ Len(tabSeq') = Len(tabSeq)
        /\ tabSeq'[Len(tabSeq')] = e
        /\ \A j \in 1..(Len(tabSeq') - 1) : tabSeq'[j] = s[j]
    BY <1>0, <1>1, <2>1, <2>4, <2>5
  <2>7. TabsTyped' /\ d <= Len(tabSeq) /\ d \in 1..(Len(tabSeq) + 1)
    BY <1>0, <2>3, <2>6 DEF TabsTyped
  <2>8. \A j \in 1..(Len(tabSeq') - 1) : tabSeq'[j] = tabSeq[Skip(d, j)]
    BY <1>0, <2>4, <2>6 DEF Skip
  <2>9. ASSUME NEW j \in 1..Len(tabSeq), j # d PROVE tabSeq[j].tab # t
    <3>1. j < d \/ d < j
      BY <1>0, <2>3, <2>9
    <3> QED BY <2>3, <3>1, BeforeIsStrict DEF TabsInOrder
  <2> QED BY <2>3, <2>5, <2>6, <2>7, <2>8, <2>9 DEF e
<1> QED BY <1>2, <1>3

\* The uses of a tab after a request: those of the tab itself are one more.
LEMMA UsesStep ==
    ASSUME puts \in Seq(Tabs), NEW t \in Tabs, puts' = Append(puts, t)
    PROVE  /\ \A u : u # t => Uses(puts', u) = Uses(puts, u)
           /\ Cardinality(Uses(puts', t)) = Cardinality(Uses(puts, t)) + 1
           /\ Cardinality(Uses(puts, t)) \in Nat
<1>1. /\ Len(puts) \in Nat /\ Len(puts') = Len(puts) + 1
      /\ puts'[Len(puts) + 1] = t
      /\ \A k \in 1..Len(puts) : puts'[k] = puts[k]
  OBVIOUS
<1>2. \A u : u # t => Uses(puts', u) = Uses(puts, u)
  BY <1>1 DEF Uses
<1>3. Uses(puts', t) = Uses(puts, t) \cup {Len(puts) + 1} /\ Len(puts) + 1 \notin Uses(puts, t)
  BY <1>1 DEF Uses
<1>4. IsFiniteSet(Uses(puts, t))
  <2>1. Uses(puts, t) \in SUBSET (1..Len(puts)) /\ IsFiniteSet(1..Len(puts))
    BY <1>1, FS_Interval DEF Uses
  <2> QED BY <2>1, FS_Subset
<1>5. /\ Cardinality(Uses(puts, t) \cup {Len(puts) + 1}) = Cardinality(Uses(puts, t)) + 1
      /\ Cardinality(Uses(puts, t)) \in Nat
  BY <1>3, <1>4, FS_AddElement, FS_CardinalityType
<1>6. Cardinality(Uses(puts', t)) = Cardinality(Uses(puts, t)) + 1
  BY <1>3, <1>5
<1> QED BY <1>2, <1>5, <1>6

\* Finitely many tabs have made a request.
LEMMA UsedFinite ==
    ASSUME puts \in Seq(Tabs)
    PROVE  IsFiniteSet(Used(puts)) /\ \A S \in SUBSET Used(puts) :
              IsFiniteSet(S) /\ Cardinality(S) \in Nat /\ Cardinality(S) <= Cardinality(Used(puts))
<1>1. Len(puts) \in Nat
  OBVIOUS
<1> DEFINE Seen == {puts[k] : k \in 1..Len(puts)}
<1>2. IsFiniteSet(Seen)
  <2>1. IsFiniteSet(1..Len(puts))
    BY <1>1, FS_Interval
  <2>2. [k \in 1..Len(puts) |-> puts[k]] \in Surjection(1..Len(puts), Seen)
    BY DEF Surjection
  <2> QED BY <2>1, <2>2, FS_Surjection DEF ExistsSurjection
<1>3. Used(puts) \in SUBSET Seen
  BY DEF Used, LastUse
<1>4. IsFiniteSet(Used(puts))
  BY <1>2, <1>3, FS_Subset
<1> QED BY <1>4, FS_Subset, FS_CardinalityType

\* The tabs that hold the counters of some positions are as many as the positions.
LEMMA HoldersCount ==
    ASSUME TabsTyped, TabsInOrder, puts \in Seq(Tabs), NEW lo \in 1..(Len(tabSeq) + 1)
    PROVE  LET S == {tabSeq[i].tab : i \in lo..Len(tabSeq)}
           IN  IsFiniteSet(S) /\ Cardinality(S) = Len(tabSeq) + 1 - lo
<1> DEFINE I == lo..Len(tabSeq)
           S == {tabSeq[i].tab : i \in I}
           f == [i \in I |-> tabSeq[i].tab]
<1>1. Len(tabSeq) \in Nat
  BY DEF TabsTyped
<1>2. IsFiniteSet(I) /\ Cardinality(I) = Len(tabSeq) + 1 - lo
  <2>1. lo \in Int /\ Len(tabSeq) \in Int
    BY <1>1
  <2>2. IsFiniteSet(I) /\ Cardinality(I) = IF lo > Len(tabSeq) THEN 0 ELSE Len(tabSeq) - lo + 1
    BY <2>1, FS_Interval
  <2> QED BY <1>1, <2>2
<1>3. ASSUME NEW i \in I, NEW j \in I, f[i] = f[j] PROVE i = j
  <2>1. i \in 1..Len(tabSeq) /\ j \in 1..Len(tabSeq) /\ tabSeq[i].tab = tabSeq[j].tab
    BY <1>1, <1>3
  <2>2. ~(i < j) /\ ~(j < i)
    BY <2>1, BeforeIsStrict DEF TabsInOrder
  <2> QED BY <2>1, <2>2
<1>4. f \in Bijection(I, S)
  <2>1. f \in Injection(I, S)
    BY <1>3 DEF Injection, IsInjective
  <2>2. f \in Surjection(I, S)
    BY DEF Surjection
  <2> QED BY <2>1, <2>2 DEF Bijection
<1>5. ExistsBijection(I, S)
  BY <1>4 DEF ExistsBijection
<1> HIDE DEF I, S
<1>6. IsFiniteSet(S) /\ Cardinality(S) = Cardinality(I)
  BY <1>2, <1>5, FS_Bijection
<1> QED BY <1>2, <1>6 DEF I, S

\* While no more tabs were used than there are counters, each of them holds one.
LEMMA NoneEvicted ==
    ASSUME TabsOK, Cardinality(Used(puts)) <= TabCap, NEW u \in Used(puts)
    PROVE  \E i \in 1..Len(tabSeq) : tabSeq[i].tab = u
<1> SUFFICES ASSUME \A i \in 1..Len(tabSeq) : tabSeq[i].tab # u PROVE FALSE
  OBVIOUS
<1> DEFINE S == {tabSeq[i].tab : i \in 1..Len(tabSeq)}
<1>1. Len(tabSeq) = TabCap /\ TabCap \in Nat
  BY SelectionConstants DEF TabsOK, EvictedAreOlder
<1>2. IsFiniteSet(S) /\ Cardinality(S) = TabCap
  <2>1. 1 \in 1..(Len(tabSeq) + 1) /\ Len(tabSeq) + 1 - 1 = TabCap
    BY <1>1
  <2>2. IsFiniteSet(S) /\ Cardinality(S) = Len(tabSeq) + 1 - 1
    BY <2>1, HoldersCount DEF TabsOK
  <2> QED BY <2>1, <2>2
<1>3. u \notin S /\ S \cup {u} \in SUBSET Used(puts)
  BY DEF TabsOK, HoldersAreUsed
<1>4. Cardinality(S \cup {u}) = TabCap + 1
  BY <1>1, <1>2, <1>3, FS_AddElement
<1>5. Cardinality(S \cup {u}) <= Cardinality(Used(puts)) /\ Cardinality(Used(puts)) \in Nat
  BY <1>3, UsedFinite DEF TabsOK
<1> QED BY <1>1, <1>4, <1>5

\* A request keeps the order of the tabs and the count of their uses.
LEMMA RequestHolds ==
    ASSUME TabsOK, NEW t \in Tabs, puts' = Append(puts, t), tabSeq' = NextTabSeq(t)
    PROVE  TabsOK'
<1>0. /\ TabsTyped /\ puts \in Seq(Tabs) /\ TabsInOrder
      /\ Len(tabSeq) \in Nat /\ Len(tabSeq) <= TabCap /\ TabCap \in Nat /\ TabCap >= 1
  BY SelectionConstants DEF TabsOK, TabsTyped
<1>1. PICK d \in 1..(Len(tabSeq) + 1), n \in Nat \ {0} :
         /\ TabsTyped'
         /\ Len(tabSeq') = IF d <= Len(tabSeq) THEN Len(tabSeq) ELSE Len(tabSeq) + 1
         /\ tabSeq'[Len(tabSeq')] = [tab |-> t, n |-> n]
         /\ \A j \in 1..(Len(tabSeq') - 1) : tabSeq'[j] = tabSeq[Skip(d, j)]
         /\ \A j \in 1..Len(tabSeq) : j # d => tabSeq[j].tab # t
         /\ \/ d <= Len(tabSeq) /\ tabSeq[d].tab = t /\ n = tabSeq[d].n + 1
            \/ /\ \A j \in 1..Len(tabSeq) : tabSeq[j].tab # t
               /\ n = 1
               /\ d = IF Len(tabSeq) = TabCap THEN 1 ELSE Len(tabSeq) + 1
  BY <1>0, TabStep
<1> DEFINE last == Len(tabSeq')
<1>2. last \in Nat /\ last >= 1 /\ tabSeq'[last].tab = t /\ tabSeq'[last].n = n
  BY <1>0, <1>1
<1>3. ASSUME NEW j \in 1..last, j # last
      PROVE  /\ Skip(d, j) \in 1..Len(tabSeq) /\ Skip(d, j) # d
             /\ tabSeq'[j] = tabSeq[Skip(d, j)] /\ tabSeq'[j].tab # t
             /\ tabSeq'[j].tab \in Used(puts)
  <2>1. j \in 1..(last - 1)
    BY <1>2, <1>3
  <2>2. Skip(d, j) \in 1..Len(tabSeq) /\ Skip(d, j) # d
    BY <1>0, <1>1, <2>1 DEF Skip
  <2> QED BY <1>1, <2>1, <2>2 DEF TabsOK, HoldersAreUsed
<1>4. /\ puts' \in Seq(Tabs)
      /\ Used(puts') = Used(puts) \cup {t}
      /\ \A u, v : u # t /\ v # t => (Before(puts', u, v) <=> Before(puts, u, v))
      /\ \A u \in Used(puts) : u # t => Before(puts', u, t)
      /\ \A u : u # t => LastUse(puts', u) = LastUse(puts, u)
  BY <1>0, RequestIsLast
<1> HIDE DEF last
<1>5. TabsInOrder'
  <2>1. ASSUME NEW i \in 1..last, NEW j \in 1..last, i < j
        PROVE  Before(puts', tabSeq'[i].tab, tabSeq'[j].tab)
    <3>1. i # last
      BY <1>2, <2>1
    <3>2. CASE j = last
      BY <1>2, <1>3, <1>4, <3>1, <3>2
    <3>3. CASE j # last
      <4>1. Skip(d, i) < Skip(d, j)
        BY <2>1 DEF Skip
      <4>2. Before(puts, tabSeq[Skip(d, i)].tab, tabSeq[Skip(d, j)].tab)
        BY <1>0, <1>3, <3>1, <3>3, <4>1 DEF TabsInOrder
      <4> QED BY <1>3, <1>4, <3>1, <3>3, <4>2
    <3> QED BY <3>2, <3>3
  <2> QED BY <2>1 DEF TabsInOrder, last
<1>6. HoldersAreUsed'
  <2>1. ASSUME NEW i \in 1..last PROVE tabSeq'[i].tab \in Used(puts')
    BY <1>2, <1>3, <1>4
  <2> QED BY <2>1 DEF HoldersAreUsed, last
<1>7. EvictedAreOlder'
  <2>1. ASSUME NEW u \in Used(puts'), \A i \in 1..last : tabSeq'[i].tab # u
        PROVE  last = TabCap /\ \A i \in 1..last : Before(puts', u, tabSeq'[i].tab)
    <3>1. u # t /\ u \in Used(puts)
      <4>1. last \in 1..last
        BY <1>2
      <4> QED BY <1>2, <1>4, <2>1, <4>1
    <3>2. Len(tabSeq) = TabCap /\ \A j \in 1..Len(tabSeq) : j # d => Before(puts, u, tabSeq[j].tab)
      <4>1. CASE \A j \in 1..Len(tabSeq) : tabSeq[j].tab # u
        BY <3>1, <4>1 DEF TabsOK, EvictedAreOlder
      <4>2. CASE \E j \in 1..Len(tabSeq) : tabSeq[j].tab = u
        <5>1. PICK k \in 1..Len(tabSeq) : tabSeq[k].tab = u
          BY <4>2
        <5>2. k = d
          <6>1. SUFFICES ASSUME k # d PROVE FALSE
            OBVIOUS
          <6> DEFINE j == IF k < d THEN k ELSE k - 1
          <6>2. j \in 1..(last - 1) /\ j \in 1..last /\ Skip(d, j) = k
            BY <1>0, <1>1, <6>1 DEF Skip, last
          <6> QED BY <1>1, <2>1, <5>1, <6>2 DEF last
        <5>3. d = 1 /\ Len(tabSeq) = TabCap
          BY <1>0, <1>1, <3>1, <5>1, <5>2
        <5>4. ASSUME NEW j \in 1..Len(tabSeq), j # d PROVE Before(puts, u, tabSeq[j].tab)
          <6>1. k < j
            BY <1>0, <5>2, <5>3, <5>4
          <6> QED BY <1>0, <5>1, <6>1 DEF TabsInOrder
        <5> QED BY <5>3, <5>4
      <4> QED BY <4>1, <4>2
    <3>3. last = TabCap
      BY <1>0, <1>1, <3>2 DEF last
    <3>4. ASSUME NEW i \in 1..last PROVE Before(puts', u, tabSeq'[i].tab)
      <4>1. CASE i = last
        BY <1>2, <1>4, <3>1, <4>1
      <4>2. CASE i # last
        BY <1>3, <1>4, <3>1, <3>2, <4>2
      <4> QED BY <4>1, <4>2
    <3> QED BY <3>3, <3>4
  <2> QED BY <2>1 DEF EvictedAreOlder, last
<1>8. UnusedIsUnseen'
  <2>1. ASSUME NEW u \in Tabs \ Used(puts'), NEW k \in 1..Len(puts') PROVE puts'[k] # u
    <3>1. u # t /\ u \in Tabs \ Used(puts)
      BY <1>4
    <3>2. CASE k \in 1..Len(puts)
      BY <1>0, <3>1, <3>2 DEF TabsOK, UnusedIsUnseen
    <3>3. CASE k = Len(puts) + 1
      BY <1>0, <3>1, <3>3
    <3> QED BY <1>0, <3>2, <3>3
  <2> QED BY <2>1 DEF UnusedIsUnseen
<1>9. CountersCount'
  <2>1. ASSUME Cardinality(Used(puts')) <= TabCap, NEW i \in 1..last
        PROVE  tabSeq'[i].n = Cardinality(Uses(puts', tabSeq'[i].tab))
    <3>1. Cardinality(Used(puts)) <= TabCap
      <4>1. IsFiniteSet(Used(puts)) /\ Cardinality(Used(puts)) \in Nat
        BY <1>0, UsedFinite, FS_CardinalityType
      <4>2. Cardinality(Used(puts) \cup {t})
              \in {Cardinality(Used(puts)), Cardinality(Used(puts)) + 1}
        BY <4>1, FS_AddElement
      <4> QED BY <1>0, <1>4, <2>1, <4>1, <4>2
    <3>2. \A j \in 1..Len(tabSeq) : tabSeq[j].n = Cardinality(Uses(puts, tabSeq[j].tab))
      BY <3>1 DEF TabsOK, CountersCount
    <3>3. /\ \A u : u # t => Uses(puts', u) = Uses(puts, u)
          /\ Cardinality(Uses(puts', t)) = Cardinality(Uses(puts, t)) + 1
      BY <1>0, UsesStep
    <3>4. CASE i # last
      BY <1>3, <3>2, <3>3, <3>4
    <3>5. CASE i = last
      <4>1. n = Cardinality(Uses(puts, t)) + 1
        <5>1. CASE d <= Len(tabSeq) /\ tabSeq[d].tab = t /\ n = tabSeq[d].n + 1
          <6>1. d \in 1..Len(tabSeq)
            BY <1>0, <5>1
          <6> QED BY <3>2, <5>1, <6>1
        <5>2. CASE n = 1 /\ \A j \in 1..Len(tabSeq) : tabSeq[j].tab # t
          <6>1. t \notin Used(puts)
            BY <3>1, <5>2, NoneEvicted
          <6>2. Uses(puts, t) = {}
            BY <6>1 DEF TabsOK, UnusedIsUnseen, Uses
          <6> QED BY <5>2, <6>2, FS_EmptySet
        <5> QED BY <1>1, <5>1, <5>2
      <4> QED BY <1>2, <3>3, <3>5, <4>1
    <3> QED BY <3>4, <3>5
  <2> QED BY <2>1 DEF CountersCount, last
<1>10. TabsTyped' /\ puts' \in Seq(Tabs)
  BY <1>1, <1>4
<1> QED BY <1>5, <1>6, <1>7, <1>8, <1>9, <1>10 DEF TabsOK

LEMMA TabsStill == ASSUME TabsOK, UNCHANGED <<tabSeq, puts>> PROVE TabsOK'
BY DEF TabsOK, TabsTyped, TabsInOrder, HoldersAreUsed, EvictedAreOlder, UnusedIsUnseen,
       CountersCount

\* The tabs that hold a counter are the ones used last.
LEMMA OrderIsLRU == ASSUME TabsOK PROVE TabSeqIsLRU
<1>0. /\ TabsTyped /\ puts \in Seq(Tabs) /\ TabsInOrder /\ HoldersAreUsed
      /\ Len(tabSeq) \in Nat /\ Len(tabSeq) <= TabCap /\ TabCap \in Nat /\ TabCap >= 1
  BY SelectionConstants DEF TabsOK, TabsTyped
<1> DEFINE Holders == {tabSeq[i].tab : i \in 1..Len(tabSeq)}
           After(t) == {u \in Used(puts) : Before(puts, t, u)}
<1>1. ASSUME NEW i \in 1..Len(tabSeq) PROVE Cardinality(After(tabSeq[i].tab)) < TabCap
  <2> DEFINE S == {tabSeq[j].tab : j \in (i + 1)..Len(tabSeq)}
  <2>1. ASSUME NEW u \in Used(puts), Before(puts, tabSeq[i].tab, u) PROVE u \in S
    <3>1. PICK j \in 1..Len(tabSeq) : tabSeq[j].tab = u
      BY <1>0, <2>1, BeforeIsStrict DEF TabsOK, EvictedAreOlder
    <3>2. ~(j < i) /\ j # i
      BY <1>0, <2>1, <3>1, BeforeIsStrict DEF TabsInOrder
    <3> QED BY <1>0, <3>1, <3>2
  <2>2. ASSUME NEW u \in S PROVE u \in Used(puts) /\ Before(puts, tabSeq[i].tab, u)
    <3>1. PICK j \in (i + 1)..Len(tabSeq) : tabSeq[j].tab = u
      BY <2>2
    <3>2. j \in 1..Len(tabSeq) /\ i < j
      BY <1>0
    <3> QED BY <1>0, <3>1, <3>2 DEF HoldersAreUsed, TabsInOrder
  <2>3. After(tabSeq[i].tab) = S
    BY <2>1, <2>2
  <2>4. Cardinality(S) = Len(tabSeq) - i
    <3>1. i + 1 \in 1..(Len(tabSeq) + 1) /\ Len(tabSeq) + 1 - (i + 1) = Len(tabSeq) - i
      BY <1>0
    <3>2. Cardinality(S) = Len(tabSeq) + 1 - (i + 1)
      BY <1>0, <3>1, HoldersCount
    <3> QED BY <3>1, <3>2
  <2> HIDE DEF S, After
  <2> QED BY <1>0, <2>3, <2>4
<1>2. ASSUME NEW t \in Used(puts), t \notin Holders PROVE ~(Cardinality(After(t)) < TabCap)
  <2>1. Len(tabSeq) = TabCap /\ \A i \in 1..Len(tabSeq) : Before(puts, t, tabSeq[i].tab)
    BY <1>2 DEF TabsOK, EvictedAreOlder
  <2>2. Holders \in SUBSET After(t) /\ After(t) \in SUBSET Used(puts)
    BY <1>0, <2>1 DEF HoldersAreUsed
  <2>3. IsFiniteSet(After(t)) /\ Cardinality(After(t)) \in Nat
    BY <1>0, <2>2, UsedFinite
  <2>4. Cardinality(Holders) = Len(tabSeq)
    <3>1. 1 \in 1..(Len(tabSeq) + 1) /\ Len(tabSeq) + 1 - 1 = Len(tabSeq)
      BY <1>0
    <3>2. Cardinality(Holders) = Len(tabSeq) + 1 - 1
      BY <1>0, <3>1, HoldersCount
    <3> QED BY <3>1, <3>2
  <2> HIDE DEF Holders, After
  <2>5. Cardinality(Holders) <= Cardinality(After(t))
    BY <2>2, <2>3, FS_Subset
  <2> QED BY <1>0, <2>1, <2>3, <2>4, <2>5
<1>3. Holders = {t \in Used(puts) : Cardinality(After(t)) < TabCap}
  <2>1. Holders \in SUBSET Used(puts)
    BY <1>0 DEF HoldersAreUsed
  <2>2. \A t \in Holders : Cardinality(After(t)) < TabCap
    BY <1>1
  <2> HIDE DEF Holders, After
  <2> QED BY <1>2, <2>1, <2>2
<1> QED BY <1>0, <1>3 DEF TabSeqIsLRU, TabsOK, TabsInOrder, CountersCount, Uses
-----------------------------------------------------------------------------
IInv == FeedTypeOK /\ Typed /\ SelectionOK /\ TabsOK

LEMMA InitHolds == Init => IInv
<1> SUFFICES ASSUME Init PROVE IInv
  OBVIOUS
<1>1. FeedTypeOK /\ cached = NoManifest
  BY FeedInitTyped DEF Init
<1>2. Typed
  BY SelectionConstants DEF Init, Typed, HistoryTyped, Wires
<1>3. SelectionOK
  BY <1>1 DEF Init, SelectionOK, HistoryWellFormed, StaleMeansUncovered, WireIsCurrent
<1>4. TabsOK
  <2>1. puts = <<>> /\ tabSeq = <<>> /\ TabsTyped /\ puts \in Seq(Tabs)
    BY SelectionConstants DEF Init, TabsTyped
  <2>2. Used(puts) = {}
    BY <2>1 DEF Used, LastUse
  <2> QED BY <2>1, <2>2 DEF TabsOK, TabsInOrder, HoldersAreUsed, EvictedAreOlder,
                            UnusedIsUnseen, CountersCount
<1> QED BY <1>1, <1>2, <1>3, <1>4 DEF IInv

LEMMA StepHolds == IInv /\ [Next]_vars => IInv'
<1> SUFFICES ASSUME IInv, [Next]_vars PROVE IInv'
  OBVIOUS
<1>1. Typed' /\ SelectionOK'
  BY SelectionSteps DEF IInv
<1>2. FeedTypeOK'
  <2>1. \/ \E x \in Contents \cup {Bad} : Publish(x)
        \/ \E n \in 1..Len(published) : Commit(n) \/ Confirm(n)
        \/ Drop \/ UNCHANGED feedVars
    BY DEF Next, Put, Validated, Quiet, vars
  <2> QED BY <2>1, FeedSteps DEF IInv
<1>3. TabsOK'
  <2>1. ASSUME NEW t \in Tabs, NEW h \in Handle, Put(t, h) PROVE TabsOK'
    BY <2>1, RequestHolds DEF Put, IInv
  <2>2. CASE UNCHANGED <<tabSeq, puts>>
    BY <2>2, TabsStill DEF IInv
  <2> QED BY <2>1, <2>2 DEF Next, Validated, Quiet, selVars, vars
<1> QED BY <1>1, <1>2, <1>3 DEF IInv

LEMMA Inductive == Spec => []IInv
BY InitHolds, StepHolds, PTL DEF Spec

\* Every variable of the selection keeps its type.
THEOREM TypeCorrect == Spec => []TypeOK
<1>1. IInv => TypeOK
  BY DEF IInv, Typed, HistoryTyped, Wires, TabsOK, TabsTyped, Counter, TypeOK
<1> QED BY <1>1, Inductive, PTL

\* current is the head of the history, and an id occurs in it once
\* (selectionState.ts, setSelection).
THEOREM HistoryIsWellFormed == Spec => []HistoryWellFormed
BY Inductive, PTL DEF IInv, SelectionOK

\* A record is stale only while the cached manifest does not cover it, whether the click
\* or the manifest came first (selectionState.ts, setSelection and rescan).
THEOREM StaleIsUncovered == Spec => []StaleMeansUncovered
BY Inductive, PTL DEF IInv, SelectionOK

\* The frames alone tell a subscriber the selection and the manifest the daemon has
\* (routes/selection.ts and onValidated of child.ts).
THEOREM SubscriberIsCurrent == Spec => []WireIsCurrent
BY Inductive, PTL DEF IInv, SelectionOK

\* The counters are those of the tabs used last, and count (nextTabSeq).
THEOREM TabCountersAreLRU == Spec => []TabSeqIsLRU
<1>1. IInv => TabSeqIsLRU
  BY OrderIsLRU DEF IInv
<1> QED BY <1>1, Inductive, PTL

\* A record keeps its place, and its staleness ends once, by the manifest that is noted
\* in it (rescan).
THEOREM RecordsKeepTheirClick == Spec => ClickMomentKept
<1>1. IInv /\ [Next]_vars => [RecordsKept]_vars
  BY SelectionSteps DEF IInv
<1> QED BY <1>1, Inductive, PTL DEF Spec, ClickMomentKept, RecordsKept
=============================================================================
