------------------------------ MODULE HandoffProofs ------------------------------
(***************************************************************************)
(* Proofs about the handoff file: about the daemons that claim it          *)
(* (Handoff), for any number of bridges, and about the shim that reads it  *)
(* (McpBackend), for any number of calls in flight and of daemons.         *)
(*                                                                         *)
(* UpIsFound needs what the file is at every step of a claim.  As long as  *)
(* no two claims have overlapped: a file that has been created is its      *)
(* creator's, half written until Write and whole from then on until the    *)
(* creator has drained or died; a claim that has found its file stale has  *)
(* seen a writer that is dead and stays so; one that has unlinked it finds *)
(* no file.                                                                *)
(***************************************************************************)
EXTENDS Handoff, McpBackend, Naturals, TLAPS

Owning == {"announce", "up", "orphan", "draining"}

OneClaims == \A d, e \in Bridges : {child[d], child[e]} \subseteq Claiming => d = e

FileIsRight ==
    /\ OneClaims
    /\ \A b \in Bridges :
         /\ child[b] \in {"guard", "write"} => file = [by |-> b, whole |-> FALSE]
         /\ child[b] \in Owning => file = [by |-> b, whole |-> TRUE]
         /\ child[b] = "stale" => ~Alive(file.by)
         /\ child[b] = "reopen" => file = NoFile

WriterHasStarted == \A b \in Bridges : file.by = b => child[b] # "none"

OffHasNone == \A b \in Bridges : bridge[b] = "off" => child[b] = "none"

IInv ==
    TypeOK /\ OffHasNone /\ WriterHasStarted /\ ClosedIsDead /\ (~overlap => FileIsRight)

-----------------------------------------------------------------------------
Files == [by : Bridges \cup {Ghost, Missing}, whole : BOOLEAN]

LEMMA FilesTyped ==
    /\ NoFile \in Files
    /\ \A d \in Bridges \cup {Ghost}, w \in BOOLEAN : [by |-> d, whole |-> w] \in Files
    /\ \A f \in Files : [f EXCEPT !.whole = TRUE] \in Files
<1>1. NoFile \in Files
  BY DEF NoFile, Files
<1>2. \A d \in Bridges \cup {Ghost}, w \in BOOLEAN : [by |-> d, whole |-> w] \in Files
  BY DEF Files
<1>3. \A f \in Files : [f EXCEPT !.whole = TRUE] \in Files
  BY DEF Files
<1> QED BY <1>1, <1>2, <1>3

LEMMA InitHolds == Init => IInv
<1> SUFFICES ASSUME Init PROVE IInv
  OBVIOUS
<1> USE ProcessValues DEF Init
<1>1. TypeOK
  <2>1. file \in Files
    BY FilesTyped
  <2> QED BY <2>1 DEF TypeOK, BridgeStates, ChildStates, Files
<1>2. ClosedIsDead /\ WriterHasStarted /\ OffHasNone
  BY DEF ClosedIsDead, WriterHasStarted, OffHasNone, NoFile
<1>3. FileIsRight
  BY DEF FileIsRight, OneClaims, Claiming, Owning
<1> QED BY <1>1, <1>2, <1>3 DEF IInv
-----------------------------------------------------------------------------
(***************************************************************************)
(* Types                                                                   *)
(***************************************************************************)
\* What a move of a daemon does, in terms that do not mention the history's formula.
LEMMA GoesTyped ==
    ASSUME TypeOK, NEW b \in Bridges, NEW to \in ChildStates, Goes(b, to)
    PROVE  child' \in [Bridges -> ChildStates] /\ overlap' \in BOOLEAN
<1>1. child' \in [Bridges -> ChildStates]
  BY DEF Goes, TypeOK
<1>2. overlap' \in BOOLEAN
  BY Zenon DEF Goes
<1> QED BY <1>1, <1>2

LEMMA SignalsTyped ==
    ASSUME TypeOK, NEW b \in Bridges
    PROVE  Terminated(b) \in ChildStates
BY DEF Terminated, Signalled, TypeOK, ChildStates

LEMMA TypesHold == TypeOK /\ [Next]_vars => TypeOK'
<1> SUFFICES ASSUME TypeOK, [Next]_vars PROVE TypeOK'
  OBVIOUS
<1>0. \A to \in Claiming \cup {"boot", "up", "orphan", "draining", "dead"} : to \in ChildStates
  BY DEF ChildStates, Booting, Running
<1> USE DEF Claiming
<1>1. ASSUME NEW b \in Bridges,
             Listening(b) \/ BootFails(b) \/ Examine(b) \/ Guard(b) \/ Announce(b)
      PROVE TypeOK'
  <2>1. PICK to \in ChildStates : Goes(b, to)
    BY <1>0, <1>1 DEF Listening, BootFails, Examine, Guard, Announce, Dies
  <2>2. child' \in [Bridges -> ChildStates] /\ overlap' \in BOOLEAN
    BY <2>1, GoesTyped
  <2>3. UNCHANGED <<platform, file, bridge, asked, called>> /\ ready' \subseteq Bridges
    BY <1>1 DEF Listening, BootFails, Examine, Guard, Announce, bridgeVars, TypeOK
  <2> QED BY <2>2, <2>3 DEF TypeOK
<1>2. ASSUME NEW b \in Bridges,
             Open(b) \/ UnlinkStale(b) \/ Reopen(b) \/ Write(b) \/ WriteFails(b) \/ Finish(b)
      PROVE TypeOK'
  <2>1. PICK to \in ChildStates : Goes(b, to)
    BY <1>0, <1>2 DEF Open, UnlinkStale, Reopen, Write, WriteFails, Finish, Dies
  <2>2. child' \in [Bridges -> ChildStates] /\ overlap' \in BOOLEAN
    BY <2>1, GoesTyped
  <2>3. file' \in Files
    <3>1. file' \in {file, NoFile, [by |-> b, whole |-> FALSE], [file EXCEPT !.whole = TRUE]}
      BY <1>2 DEF Open, UnlinkStale, Reopen, Write, WriteFails, Finish
    <3>2. file \in Files
      BY DEF TypeOK, Files
    <3> QED BY <3>1, <3>2, FilesTyped
  <2>4. UNCHANGED <<platform, ready, bridge, asked, called>>
    BY <1>2 DEF Open, UnlinkStale, Reopen, Write, WriteFails, Finish, bridgeVars
  <2> QED BY <2>2, <2>3, <2>4 DEF TypeOK, Files
<1>3. ASSUME NEW b \in Bridges, Interrupt(b) \/ Orphaned(b) \/ Crash(b)
      PROVE TypeOK'
  <2>1. PICK to \in ChildStates : Goes(b, to)
    BY <1>0, <1>3, SignalsTyped DEF Interrupt, Orphaned, Crash, Dies
  <2>2. child' \in [Bridges -> ChildStates] /\ overlap' \in BOOLEAN
    BY <2>1, GoesTyped
  <2> QED BY <1>3, <2>2 DEF Interrupt, Orphaned, Crash, bridgeVars, TypeOK
<1>4. ASSUME NEW b \in Bridges,
             Start(b) \/ Ready(b) \/ NotReady(b) \/ ViteExits(b) \/ Close(b) \/ Escalate(b)
      PROVE TypeOK'
  <2>1. (\E c \in Bridges, to \in ChildStates : Goes(c, to)) \/ UNCHANGED <<child, overlap>>
    BY <1>0, <1>4, SignalsTyped
       DEF Start, Ready, NotReady, ViteExits, Close, Escalate, Posted, Unposted, Ended, Kill,
           Killed, Sigterm, Dies
  <2>2. child' \in [Bridges -> ChildStates] /\ overlap' \in BOOLEAN
    BY <2>1, GoesTyped DEF TypeOK
  <2>3. bridge' \in [Bridges -> BridgeStates]
    BY <1>4 DEF Start, Ready, NotReady, ViteExits, Close, Escalate, Posted, Unposted, Ended,
                Kill, Killed, BridgeGoes, BridgeStates, TypeOK
  <2>4. asked' \in [Bridges -> Bridges \cup {Ghost, Missing}] /\ called' \subseteq Bridges
    BY <1>4 DEF Start, Ready, NotReady, ViteExits, Close, Escalate, Posted, Unposted, Ended,
                Kill, TypeOK
  <2>5. UNCHANGED <<platform, file, ready>>
    BY <1>4 DEF Start, Ready, NotReady, ViteExits, Close, Escalate, Posted, Unposted, Ended, Kill
  <2> QED BY <2>2, <2>3, <2>4, <2>5 DEF TypeOK
<1>5. CASE UNCHANGED vars
  BY <1>5 DEF vars, TypeOK
<1> QED BY <1>1, <1>2, <1>3, <1>4, <1>5 DEF Next, Boot
-----------------------------------------------------------------------------
(***************************************************************************)
(* A closed bridge: nothing but Start leads away from "dead"               *)
(***************************************************************************)
LEMMA DeadStaysDead ==
    ASSUME TypeOK, Next, NEW c \in Bridges, child[c] = "dead"
    PROVE  child'[c] = "dead" \/ bridge[c] = "off"
<1> USE DEF TypeOK, Booting, Claiming, Running, ChildStates, Goes, Dies, BridgeGoes
<1>1. ASSUME NEW b \in Bridges, Boot(b) PROVE child'[c] = "dead"
  BY <1>1 DEF Boot, Listening, BootFails, Open, Examine, UnlinkStale, Reopen, Guard, Write,
              WriteFails, Announce
<1>2. ASSUME NEW b \in Bridges, Interrupt(b) \/ Orphaned(b) \/ Finish(b) \/ Crash(b)
      PROVE child'[c] = "dead"
  BY <1>2 DEF Interrupt, Orphaned, Finish, Crash, Terminated, Signalled, Alive
<1>3. ASSUME NEW b \in Bridges, Start(b) \/ Ready(b) \/ NotReady(b) \/ ViteExits(b)
      PROVE child'[c] = "dead" \/ bridge[c] = "off"
  BY <1>3 DEF Start, Ready, NotReady, ViteExits
<1>4. ASSUME NEW b \in Bridges, Close(b) PROVE child'[c] = "dead"
  BY <1>4 DEF Close, Sigterm, Terminated, Signalled
<1>5. ASSUME NEW b \in Bridges, Escalate(b) PROVE child'[c] = "dead"
  BY <1>5 DEF Escalate, Posted, Unposted, Ended, Kill, Killed, Sigterm, Terminated,
              Signalled
<1> QED BY <1>1, <1>2, <1>3, <1>4, <1>5 DEF Next

\* Only Ended and Kill close a bridge, and they do so with its daemon dead.
LEMMA ClosesDead ==
    ASSUME TypeOK, Next, NEW c \in Bridges, bridge'[c] = "closed", bridge[c] # "closed"
    PROVE  child'[c] = "dead"
<1> USE DEF TypeOK, Goes, Dies, BridgeGoes
<1>1. ASSUME NEW b \in Bridges, Boot(b) PROVE FALSE
  BY <1>1 DEF Boot, Listening, BootFails, Open, Examine, UnlinkStale, Reopen, Guard, Write,
              WriteFails, Announce, bridgeVars
<1>2. ASSUME NEW b \in Bridges, Interrupt(b) \/ Orphaned(b) \/ Finish(b) \/ Crash(b)
      PROVE FALSE
  BY <1>2 DEF Interrupt, Orphaned, Finish, Crash, bridgeVars
<1>3. ASSUME NEW b \in Bridges, Start(b) \/ Ready(b) \/ NotReady(b) \/ ViteExits(b)
      PROVE FALSE
  BY <1>3 DEF Start, Ready, NotReady, ViteExits
<1>4. ASSUME NEW b \in Bridges, Close(b) PROVE FALSE
  BY <1>4 DEF Close
<1>5. ASSUME NEW b \in Bridges, Escalate(b) PROVE child'[c] = "dead"
  BY <1>5 DEF Escalate, Posted, Unposted, Ended, Kill, Killed
<1> QED BY <1>1, <1>2, <1>3, <1>4, <1>5 DEF Next

LEMMA ClosedHolds == TypeOK /\ ClosedIsDead /\ [Next]_vars => ClosedIsDead'
<1> SUFFICES ASSUME TypeOK, ClosedIsDead, [Next]_vars, NEW c \in Bridges, bridge'[c] = "closed"
             PROVE  child'[c] = "dead"
  BY DEF ClosedIsDead
<1>1. CASE UNCHANGED vars
  BY <1>1 DEF vars, ClosedIsDead
<1>2. CASE Next
  BY <1>2, DeadStaysDead, ClosesDead DEF ClosedIsDead
<1> QED BY <1>1, <1>2
-----------------------------------------------------------------------------
(***************************************************************************)
(* The file                                                                *)
(***************************************************************************)
\* A move of one daemon after which no two claims have overlapped.
LEMMA GoesAlone ==
    ASSUME TypeOK, NEW b \in Bridges, NEW to \in ChildStates, Goes(b, to), ~overlap'
    PROVE  /\ ~overlap
           /\ child'[b] = to /\ \A d \in Bridges \ {b} : child'[d] = child[d]
           /\ OneClaims'
<1>1. ~overlap
  BY Zenon DEF Goes
<1>2. ~\E d, e \in Bridges : d # e /\ {child'[d], child'[e]} \subseteq Claiming
  BY Zenon DEF Goes
<1>3. child' = [child EXCEPT ![b] = to]
  BY DEF Goes
<1>4. child'[b] = to /\ \A d \in Bridges \ {b} : child'[d] = child[d]
  BY <1>3 DEF TypeOK
<1> QED BY <1>1, <1>2, <1>4 DEF OneClaims

\* Only Start forks a daemon, and it does so for its own bridge.
LEMMA OffHolds == TypeOK /\ OffHasNone /\ [Next]_vars => OffHasNone'
<1> SUFFICES ASSUME TypeOK, OffHasNone, [Next]_vars, NEW c \in Bridges, bridge'[c] = "off"
             PROVE  child'[c] = "none"
  BY DEF OffHasNone
<1> USE DEF TypeOK, OffHasNone, Booting, Claiming, Running, ChildStates, Goes, Dies,
            BridgeGoes, bridgeVars
<1>1. ASSUME NEW b \in Bridges, Boot(b) PROVE child'[c] = "none"
  <2>1. bridge[c] = "off" /\ child[c] = "none"
    BY <1>1 DEF Boot, Listening, BootFails, Open, Examine, UnlinkStale, Reopen, Guard, Write,
                WriteFails, Announce
  <2>2. child[b] # "none" /\ \A d \in Bridges \ {b} : child'[d] = child[d]
    BY <1>1 DEF Boot, Listening, BootFails, Open, Examine, UnlinkStale, Reopen, Guard, Write,
                WriteFails, Announce
  <2> QED BY <2>1, <2>2
<1>2. ASSUME NEW b \in Bridges, Interrupt(b) \/ Orphaned(b) \/ Finish(b) \/ Crash(b)
      PROVE child'[c] = "none"
  BY <1>2 DEF Interrupt, Orphaned, Finish, Crash, Terminated, Signalled, Alive
<1>3. ASSUME NEW b \in Bridges, Start(b) \/ Ready(b) \/ NotReady(b) \/ ViteExits(b)
      PROVE child'[c] = "none"
  BY <1>3 DEF Start, Ready, NotReady, ViteExits
<1>4. ASSUME NEW b \in Bridges, Close(b) PROVE child'[c] = "none"
  BY <1>4 DEF Close, Sigterm, Terminated, Signalled
<1>5. ASSUME NEW b \in Bridges, Escalate(b) PROVE child'[c] = "none"
  BY <1>5 DEF Escalate, Posted, Unposted, Ended, Kill, Killed, Sigterm, Terminated,
              Signalled
<1>6. CASE UNCHANGED vars
  BY <1>6 DEF vars
<1> QED BY <1>1, <1>2, <1>3, <1>4, <1>5, <1>6 DEF Next

\* A daemon that has started stays so.
LEMMA WriterHolds == TypeOK /\ WriterHasStarted /\ [Next]_vars => WriterHasStarted'
<1> SUFFICES ASSUME TypeOK, WriterHasStarted, [Next]_vars, NEW c \in Bridges, file'.by = c
             PROVE  child'[c] # "none"
  BY DEF WriterHasStarted
<1> USE ProcessValues
    DEF TypeOK, WriterHasStarted, Booting, Claiming, Running, ChildStates, Goes, Dies, NoFile
<1>1. ASSUME NEW b \in Bridges,
             Listening(b) \/ BootFails(b) \/ Examine(b) \/ Guard(b) \/ Announce(b)
      PROVE child'[c] # "none"
  BY <1>1 DEF Listening, BootFails, Examine, Guard, Announce
<1>2. ASSUME NEW b \in Bridges, Open(b) \/ Reopen(b) \/ Write(b)
      PROVE child'[c] # "none"
  <2>1. child'[b] # "none" /\ \A d \in Bridges \ {b} : child'[d] = child[d]
    BY <1>2 DEF Open, Reopen, Write
  <2>2. file' \in {file, [by |-> b, whole |-> FALSE], [file EXCEPT !.whole = TRUE]}
    BY <1>2 DEF Open, Reopen, Write
  <2>3. [file EXCEPT !.whole = TRUE].by = file.by
    OBVIOUS
  <2>4. c = b \/ file.by = c
    BY <2>2, <2>3
  <2>5. CASE c = b
    BY <2>1, <2>5
  <2>6. CASE c # b
    <3>1. child[c] # "none"
      BY <2>4, <2>6
    <3> QED BY <2>1, <2>6, <3>1
  <2> QED BY <2>5, <2>6
<1>3. ASSUME NEW b \in Bridges, UnlinkStale(b) \/ WriteFails(b) \/ Finish(b)
      PROVE child'[c] # "none"
  <2>1. file' = NoFile
    BY <1>3 DEF UnlinkStale, WriteFails, Finish
  <2> QED BY <2>1
<1>4. ASSUME NEW b \in Bridges, Interrupt(b) \/ Orphaned(b) \/ Crash(b)
      PROVE child'[c] # "none"
  BY <1>4 DEF Interrupt, Orphaned, Crash, Terminated, Signalled, Alive
<1>5. ASSUME NEW b \in Bridges, Start(b) \/ Ready(b) \/ NotReady(b) \/ ViteExits(b)
      PROVE child'[c] # "none"
  BY <1>5 DEF Start, Ready, NotReady, ViteExits
<1>6. ASSUME NEW b \in Bridges, Close(b) PROVE child'[c] # "none"
  BY <1>6 DEF Close, Sigterm, Terminated, Signalled
<1>7. ASSUME NEW b \in Bridges, Escalate(b) PROVE child'[c] # "none"
  BY <1>7 DEF Escalate, Posted, Unposted, Ended, Kill, Killed, Sigterm, Terminated,
              Signalled
<1>8. CASE UNCHANGED vars
  BY <1>8 DEF vars
<1> QED BY <1>1, <1>2, <1>3, <1>4, <1>5, <1>6, <1>7, <1>8 DEF Next, Boot

\* What FileIsRight says of one daemon.
RightFor(d) ==
    /\ child[d] \in {"guard", "write"} => file = [by |-> d, whole |-> FALSE]
    /\ child[d] \in Owning => file = [by |-> d, whole |-> TRUE]
    /\ child[d] = "stale" => ~Alive(file.by)
    /\ child[d] = "reopen" => file = NoFile

LEMMA RightForAll == FileIsRight <=> OneClaims /\ \A d \in Bridges : RightFor(d)
BY DEF FileIsRight, RightFor

\* While the file stays, a live daemon that moves without being revived, and the others
\* that stay where they are, leave a stale file stale.
LEMMA OthersStay ==
    ASSUME TypeOK, FileIsRight, UNCHANGED file, NEW b \in Bridges,
           child[b] \notin {"none", "dead"},
           \A d \in Bridges \ {b} : child'[d] = child[d]
    PROVE  \A d \in Bridges \ {b} : RightFor(d)'
<1> SUFFICES ASSUME NEW d \in Bridges \ {b} PROVE RightFor(d)'
  OBVIOUS
<1>1. child'[d] = child[d] /\ RightFor(d)
  BY RightForAll
<1>2. child[d] = "stale" => ~Alive(file.by)'
  BY <1>1 DEF RightFor, Alive
<1> QED BY <1>1, <1>2 DEF RightFor, Owning

\* A claiming daemon that changes the file is the only one the file says anything of.
LEMMA OthersHaveNoFile ==
    ASSUME TypeOK, FileIsRight, NEW b \in Bridges, child[b] \in Claiming,
           file = NoFile \/ file.by = b \/ ~Alive(file.by),
           \A d \in Bridges \ {b} : child'[d] = child[d]
    PROVE  \A d \in Bridges \ {b} : RightFor(d)'
<1> SUFFICES ASSUME NEW d \in Bridges \ {b} PROVE RightFor(d)'
  OBVIOUS
<1>1. child'[d] = child[d] /\ RightFor(d)
  BY RightForAll
<1>2. child[d] \notin Claiming
  BY DEF FileIsRight, OneClaims
<1>3. child[d] \notin Owning
  BY <1>1, ProcessValues DEF RightFor, Owning, Alive, NoFile
<1> QED BY <1>1, <1>2, <1>3 DEF RightFor, Claiming

\* A step that leaves the file alone and takes a live daemon no further with it.
LEMMA PlainMove ==
    ASSUME TypeOK, ~overlap => FileIsRight, ~overlap', UNCHANGED file,
           NEW b \in Bridges, NEW to \in ChildStates, Goes(b, to),
           child[b] \notin {"none", "dead"},
           \/ to \in {"dead", "open", "exists"}
           \/ to = "write" /\ child[b] = "guard"
           \/ to \in Owning /\ child[b] \in Owning
           \/ to = "stale" /\ ~Alive(file.by)
    PROVE  FileIsRight'
<1>1. ~overlap /\ FileIsRight
  BY GoesAlone
<1>2. child'[b] = to /\ (\A d \in Bridges \ {b} : child'[d] = child[d]) /\ OneClaims'
  BY GoesAlone
<1>3. \A d \in Bridges \ {b} : RightFor(d)'
  BY <1>1, <1>2, OthersStay
<1>4. RightFor(b)'
  <2>1. RightFor(b)
    BY <1>1, RightForAll
  <2>2. to = "stale" => ~Alive(file.by)'
    BY <1>2 DEF Alive, Owning
  <2> QED BY <1>2, <2>1, <2>2 DEF RightFor, Owning
<1>5. \A d \in Bridges : RightFor(d)'
  BY <1>3, <1>4
<1> QED BY <1>2, <1>5 DEF FileIsRight, RightFor

\* A step of a claim that changes the file.
LEMMA ClaimingMove ==
    ASSUME TypeOK, ~overlap => FileIsRight, ~overlap',
           NEW b \in Bridges, NEW to \in ChildStates, Goes(b, to), child[b] \in Claiming,
           file = NoFile \/ file.by = b \/ ~Alive(file.by),
           \/ to = "dead"
           \/ to = "guard" /\ file' = [by |-> b, whole |-> FALSE]
           \/ to = "announce" /\ file' = [by |-> b, whole |-> TRUE]
           \/ to = "reopen" /\ file' = NoFile
    PROVE  FileIsRight'
<1>1. ~overlap /\ FileIsRight
  BY GoesAlone
<1>2. child'[b] = to /\ (\A d \in Bridges \ {b} : child'[d] = child[d]) /\ OneClaims'
  BY GoesAlone
<1>3. \A d \in Bridges \ {b} : RightFor(d)'
  BY <1>1, <1>2, OthersHaveNoFile
<1>4. RightFor(b)'
  BY <1>2 DEF RightFor, Owning
<1>5. \A d \in Bridges : RightFor(d)'
  BY <1>3, <1>4
<1> QED BY <1>2, <1>5 DEF FileIsRight, RightFor

\* A step in which no daemon moves.
LEMMA NoMove ==
    ASSUME ~overlap => FileIsRight, ~overlap', UNCHANGED <<file, child, overlap>>
    PROVE  FileIsRight'
BY DEF FileIsRight, OneClaims, Alive

\* SIGTERM and SIGINT, whatever the daemon is doing.
LEMMA SignalMoves ==
    ASSUME TypeOK, ~overlap => FileIsRight, ~overlap', UNCHANGED file,
           NEW b \in Bridges, Goes(b, Terminated(b))
    PROVE  FileIsRight'
<1>1. Terminated(b) \in ChildStates
  BY SignalsTyped
<1>2. CASE child[b] \in Booting \cup Running
  <2>1. Terminated(b) = "dead" \/ (Terminated(b) = "draining" /\ child[b] \in Running)
    BY <1>2 DEF Terminated, Signalled
  <2> QED BY <1>1, <1>2, <2>1, PlainMove DEF Booting, Claiming, Running, Owning
<1>3. CASE child[b] \notin Booting \cup Running
  <2>1. Terminated(b) = child[b]
    BY <1>3 DEF Terminated, Signalled
  <2>2. child' = child
    BY <2>1 DEF Goes, TypeOK
  <2>3. ~overlap
    BY <1>1, GoesAlone
  <2> QED BY <2>2, <2>3 DEF FileIsRight, OneClaims, Alive
<1> QED BY <1>2, <1>3

\* A daemon that is killed when it may be dead already, or is started.
LEMMA OutsideMoves ==
    ASSUME TypeOK, WriterHasStarted, ~overlap => FileIsRight, ~overlap', UNCHANGED file,
           NEW b \in Bridges, NEW to \in {"dead", "boot"}, Goes(b, to),
           to = "boot" => child[b] = "none"
    PROVE  FileIsRight'
<1>1. to \in ChildStates
  BY DEF ChildStates, Booting
<1>2. CASE child[b] \notin {"none", "dead"}
  BY <1>1, <1>2, PlainMove
<1>3. CASE child[b] \in {"none", "dead"}
  <2>1. ~overlap /\ FileIsRight
    BY <1>1, GoesAlone
  <2>2. child'[b] = to /\ (\A d \in Bridges \ {b} : child'[d] = child[d]) /\ OneClaims'
    BY <1>1, GoesAlone
  <2>3. Alive(file.by)' => Alive(file.by)
    BY <1>3, <2>2 DEF Alive, WriterHasStarted
  <2>4. ASSUME NEW d \in Bridges PROVE RightFor(d)'
    <3>1. RightFor(d)
      BY <2>1, RightForAll
    <3>2. CASE d = b
      BY <2>2, <3>2 DEF RightFor, Owning
    <3>3. CASE d # b
      BY <2>2, <2>3, <3>1, <3>3 DEF RightFor, Owning
    <3> QED BY <3>2, <3>3
  <2> QED BY <2>2, <2>4 DEF FileIsRight, RightFor
<1> QED BY <1>2, <1>3

\* The claim, step by step.
LEMMA ClaimHolds ==
    ASSUME TypeOK, ~overlap => FileIsRight, ~overlap', NEW b \in Bridges, Boot(b)
    PROVE  FileIsRight'
<1>0. /\ \A to \in Claiming \cup {"up", "dead"} : to \in ChildStates
      /\ "exists" \in Claiming /\ "guard" \in Claiming /\ "reopen" \in Claiming
      /\ "write" \in Claiming /\ "announce" \in Claiming /\ "open" \in Claiming
      /\ "stale" \in Claiming
  BY DEF ChildStates, Booting, Running, Claiming
<1>00. ASSUME NEW to \in ChildStates, Goes(b, to) PROVE FileIsRight
  BY <1>00, GoesAlone
<1>1. CASE Listening(b)
  BY <1>0, <1>1, PlainMove DEF Listening
<1>2. CASE BootFails(b)
  BY <1>0, <1>2, PlainMove DEF BootFails, Dies
<1>3. CASE Open(b)
  <2>1. CASE file = NoFile /\ file' = [by |-> b, whole |-> FALSE] /\ Goes(b, "guard")
    BY <1>0, <1>3, <2>1, ClaimingMove DEF Open
  <2>2. CASE Goes(b, "exists") /\ UNCHANGED file
    BY <1>0, <1>3, <2>2, PlainMove DEF Open
  <2> QED BY <1>3, <2>1, <2>2 DEF Open
<1>4. CASE Examine(b)
  <2>1. CASE ~Alive(file.by) /\ Goes(b, "stale")
    BY <1>0, <1>4, <2>1, PlainMove DEF Examine
  <2>2. CASE Dies(b)
    BY <1>0, <1>4, <2>2, PlainMove DEF Examine, Dies
  <2> QED BY <1>4, <2>1, <2>2 DEF Examine
<1>5. CASE UnlinkStale(b)
  <2>1. PICK to \in {"dead", "reopen"} : Goes(b, to) /\ file' = NoFile
    BY <1>5 DEF UnlinkStale, Dies
  <2>2. FileIsRight
    BY <1>0, <1>00, <2>1
  <2>3. ~Alive(file.by)
    BY <1>5, <2>2 DEF UnlinkStale, FileIsRight
  <2> QED BY <1>0, <1>5, <2>1, <2>3, ClaimingMove DEF UnlinkStale
<1>6. CASE Reopen(b)
  <2>1. CASE file = NoFile /\ file' = [by |-> b, whole |-> FALSE] /\ Goes(b, "guard")
    BY <1>0, <1>6, <2>1, ClaimingMove DEF Reopen
  <2>2. CASE Dies(b) /\ UNCHANGED file
    BY <1>0, <1>6, <2>2, PlainMove DEF Reopen, Dies
  <2> QED BY <1>6, <2>1, <2>2 DEF Reopen
<1>7. CASE Guard(b)
  BY <1>0, <1>7, PlainMove DEF Guard, Dies
<1>8. CASE Write(b)
  <2>1. Goes(b, "announce")
    BY <1>8 DEF Write
  <2>2. file = [by |-> b, whole |-> FALSE]
    BY <1>0, <1>00, <1>8, <2>1 DEF Write, FileIsRight
  <2>3. file.by = b /\ file' = [by |-> b, whole |-> TRUE]
    BY <1>8, <2>2 DEF Write
  <2> QED BY <1>0, <1>8, <2>1, <2>3, ClaimingMove DEF Write
<1>9. CASE WriteFails(b)
  <2>1. Goes(b, "dead")
    BY <1>9 DEF WriteFails, Dies
  <2>2. file.by = b
    BY <1>0, <1>00, <1>9, <2>1 DEF WriteFails, FileIsRight
  <2> QED BY <1>0, <1>9, <2>1, <2>2, ClaimingMove DEF WriteFails
<1>10. CASE Announce(b)
  <2>1. child[b] = "announce" /\ UNCHANGED file /\ (Goes(b, "dead") \/ Goes(b, "up"))
    BY <1>10 DEF Announce, Dies
  <2> QED BY <1>0, <2>1, PlainMove DEF Owning
<1> QED BY <1>1, <1>2, <1>3, <1>4, <1>5, <1>6, <1>7, <1>8, <1>9, <1>10 DEF Boot

\* The end of a drain removes the file, which is the daemon's own.
LEMMA FinishHolds ==
    ASSUME TypeOK, ~overlap => FileIsRight, ~overlap', NEW b \in Bridges, Finish(b)
    PROVE  FileIsRight'
<1>1. Goes(b, "dead") /\ "dead" \in ChildStates /\ file' = NoFile /\ child[b] = "draining"
  BY DEF Finish, Dies, ChildStates
<1>2. FileIsRight
  BY <1>1, GoesAlone
<1>3. child'[b] = "dead" /\ (\A d \in Bridges \ {b} : child'[d] = child[d]) /\ OneClaims'
  BY <1>1, GoesAlone
<1>4. file = [by |-> b, whole |-> TRUE] /\ Alive(file.by)
  BY <1>1, <1>2 DEF FileIsRight, Owning, Alive
<1>5. ASSUME NEW d \in Bridges PROVE RightFor(d)'
  <2>1. RightFor(d)
    BY <1>2, RightForAll
  <2>2. CASE d = b
    BY <1>3, <2>2 DEF RightFor, Owning
  <2>3. CASE d # b
    <3>1. child[d] \notin {"guard", "write", "stale"} \cup Owning
      BY <1>4, <2>1, <2>3 DEF RightFor
    <3> QED BY <1>1, <1>3, <2>3, <3>1 DEF RightFor
  <2> QED BY <2>2, <2>3
<1> QED BY <1>3, <1>5 DEF FileIsRight, RightFor

LEMMA FileHolds ==
    TypeOK /\ OffHasNone /\ WriterHasStarted /\ (~overlap => FileIsRight) /\ [Next]_vars
        => (~overlap => FileIsRight)'
<1> SUFFICES ASSUME TypeOK, OffHasNone, WriterHasStarted, ~overlap => FileIsRight,
                    [Next]_vars, ~overlap'
             PROVE  FileIsRight'
  OBVIOUS
<1>0. "dead" \in ChildStates /\ "draining" \in ChildStates /\ "orphan" \in ChildStates
  BY DEF ChildStates, Running
<1>1. ASSUME NEW b \in Bridges, Boot(b) PROVE FileIsRight'
  BY <1>1, ClaimHolds
<1>2. ASSUME NEW b \in Bridges, Interrupt(b) PROVE FileIsRight'
  BY <1>2, SignalMoves DEF Interrupt
<1>3. ASSUME NEW b \in Bridges, Orphaned(b) PROVE FileIsRight'
  BY <1>0, <1>3, PlainMove DEF Orphaned, Owning
<1>4. ASSUME NEW b \in Bridges, Finish(b) PROVE FileIsRight'
  BY <1>4, FinishHolds
<1>5. ASSUME NEW b \in Bridges, Crash(b) PROVE FileIsRight'
  BY <1>5, OutsideMoves DEF Crash, Dies
<1>6. ASSUME NEW b \in Bridges, Start(b) PROVE FileIsRight'
  <2>1. CASE Goes(b, "boot")
    <3>1. child[b] = "none"
      BY <1>6 DEF Start, OffHasNone
    <3> QED BY <1>6, <2>1, <3>1, OutsideMoves DEF Start
  <2>2. CASE UNCHANGED <<child, overlap>>
    BY <1>6, <2>2, NoMove DEF Start
  <2> QED BY <1>6, <2>1, <2>2 DEF Start
<1>7. ASSUME NEW b \in Bridges, Ready(b) \/ NotReady(b) PROVE FileIsRight'
  BY <1>7, NoMove DEF Ready, NotReady
<1>8. ASSUME NEW b \in Bridges, Close(b) PROVE FileIsRight'
  <2>1. CASE Goes(b, Terminated(b))
    BY <1>8, <2>1, SignalMoves DEF Close
  <2>2. CASE UNCHANGED <<child, overlap>>
    BY <1>8, <2>2, NoMove DEF Close
  <2> QED BY <1>8, <2>1, <2>2 DEF Close, Sigterm
<1>9. ASSUME NEW b \in Bridges, Escalate(b) PROVE FileIsRight'
  <2>1. CASE Posted(b)
    <3>1. /\ asked[b] \in Bridges /\ Goes(asked[b], "draining") /\ UNCHANGED file
          /\ child[asked[b]] \in Running
      BY <2>1 DEF Posted
    <3> QED BY <1>0, <3>1, PlainMove DEF Running, Owning
  <2>2. CASE Unposted(b)
    BY <2>2, SignalMoves, NoMove DEF Unposted, Sigterm
  <2>3. CASE Ended(b)
    BY <2>3, NoMove DEF Ended
  <2>4. CASE Kill(b)
    BY <2>4, OutsideMoves, NoMove DEF Kill, Killed, Dies
  <2> QED BY <1>9, <2>1, <2>2, <2>3, <2>4 DEF Escalate
<1>10. ASSUME NEW b \in Bridges, ViteExits(b) PROVE FileIsRight'
  <2>1. CASE child[b] = "up" /\ Goes(b, "orphan")
    BY <1>0, <1>10, <2>1, PlainMove DEF ViteExits, Owning
  <2>2. CASE UNCHANGED <<child, overlap>>
    BY <1>10, <2>2, NoMove DEF ViteExits
  <2> QED BY <1>10, <2>1, <2>2 DEF ViteExits
<1>11. CASE UNCHANGED vars
  BY <1>11, NoMove DEF vars
<1> QED BY <1>1, <1>2, <1>3, <1>4, <1>5, <1>6, <1>7, <1>8, <1>9, <1>10, <1>11 DEF Next
-----------------------------------------------------------------------------
LEMMA Inductive == Spec => []IInv
<1>1. IInv /\ [Next]_vars => IInv'
  BY TypesHold, OffHolds, WriterHolds, ClosedHolds, FileHolds DEF IInv
<1> QED BY <1>1, InitHolds, PTL DEF Spec

\* Every variable of the daemons, the bridges and the file keeps its type.
THEOREM TypeCorrect == Spec => []TypeOK
BY Inductive, PTL DEF IInv

\* A daemon that is up is in the handoff file, wherever others were killed, interrupted or
\* closed on the way, as long as no two have claimed the file at the same time
\* (handoff.ts:113-172).
THEOREM RunningIsFound == Spec => []UpIsFound
<1>1. IInv => UpIsFound
  BY DEF IInv, UpIsFound, FileIsRight, Owning, Running
<1> QED BY <1>1, Inductive, PTL

\* A bridge whose shutdown() is over has seen the end of the daemon it started or has killed
\* it, whomever it asked to stop, unless the system has refused the kill
\* (daemonBridge.ts:285-309, 411-419).
THEOREM ClosingKills == Spec => []ClosedIsDead
BY Inductive, PTL DEF IInv
-----------------------------------------------------------------------------
(***************************************************************************)
(* The reader of the file (McpBackend).  There the file is only its        *)
(* holder, the daemon whose handoff it is.                                 *)
(*                                                                         *)
(* SteadyIsAnswered needs to know of a steady call that its daemon is the  *)
(* one that serves, and that what it has looked up since is this daemon:   *)
(* then a 401 or a lost connection can only come of an older handoff, and  *)
(* the attempt after it reaches the daemon.  That nobody else has its port *)
(* follows from the daemons' coming one after the other.  Of the window it *)
(* needs that no steady call opens it, unless it was let down.             *)
(***************************************************************************)
Call == [kind : Kinds, at : Over \cup {"first", "again", "sleep", "second"},
         via : 0..Lives, steady : BOOLEAN]

\* The daemons come one after the other.
OneAtATime ==
    \A i \in Instances : phase[i] # "none" =>
        \A j \in Instances : j < i => phase[j] \in {"draining", "dead"}

\* Nothing has happened to the daemon of a steady call; where it has looked the handoff up
\* again, it has found that of this daemon.
SteadyCalls ==
    \A c \in Calls : calls[c].steady =>
        Steady /\ (calls[c].at \in {"again", "second"} => calls[c].via = holder)

\* The window is never the doing of a steady call, short of the breaker.
WindowIsExcused == unreachable /\ ~permanent => excused

ShimIInv == ShimTypeOK /\ OneAtATime /\ SteadyCalls /\ WindowIsExcused /\ SteadyIsAnswered

LEMMA ShimInitHolds == ShimInit => ShimIInv
<1> SUFFICES ASSUME ShimInit PROVE ShimIInv
  OBVIOUS
<1>1. Lives \in Nat /\ Limit \in Nat /\ Mishaps \in Nat
  BY Bounds
<1>2. Idle \in Call
  BY <1>1 DEF Idle, Outcome, Call, Kinds, Over
<1>3. /\ calls \in [Calls -> Call] /\ port \in [Instances -> Ports \cup {NoPort}]
      /\ phase \in [Instances -> {"none", "listening", "ready", "draining", "dead"}]
  BY <1>2 DEF ShimInit
<1>4. /\ holder = 0 /\ handoff = 0 /\ blamed = 0 /\ fails = 0 /\ mishaps = 0
      /\ unreachable \in BOOLEAN /\ permanent \in BOOLEAN
      /\ window \in BOOLEAN /\ excused \in BOOLEAN
  BY DEF ShimInit
<1>5. ShimTypeOK
  BY <1>1, <1>3, <1>4 DEF ShimTypeOK, Call
<1> QED BY <1>5 DEF ShimInit, ShimIInv, OneAtATime, SteadyCalls,
                     WindowIsExcused, SteadyIsAnswered, Idle, Outcome

\* Whatever happens to the daemons excuses every call in flight.
LEMMA WorldTyped ==
    ASSUME ShimTypeOK, WorldChanges
    PROVE  calls' \in [Calls -> Call] /\ \A c \in Calls : ~calls'[c].steady
<1>1. \A r \in Call : [r EXCEPT !.steady = FALSE] \in Call /\ ~[r EXCEPT !.steady = FALSE].steady
  BY DEF Call
<1> QED BY <1>1 DEF ShimTypeOK, Call, WorldChanges

LEMMA WorldHolds ==
    ASSUME ShimIInv,
           NEW i \in Instances,
           Listen(i) \/ Publish(i) \/ Drain(i) \/ Gone(i) \/ DaemonCrashes(i)
    PROVE  ShimIInv'
<1> DEFINE Phases == {"none", "listening", "ready", "draining", "dead"}
<1>0. ShimTypeOK /\ OneAtATime /\ Lives \in Nat /\ i \in 1..Lives
  BY Bounds DEF ShimIInv, Instances
<1>1. WorldChanges /\ UNCHANGED <<shim, mishaps>>
  BY DEF Listen, Publish, Drain, Gone, DaemonCrashes
<1>2. calls' \in [Calls -> Call] /\ \A c \in Calls : ~calls'[c].steady
  BY <1>0, <1>1, WorldTyped
<1>3. PICK p \in Phases : phase' = [phase EXCEPT ![i] = p]
  BY DEF Listen, Publish, Drain, Gone, DaemonCrashes
<1>4. phase' \in [Instances -> Phases]
  BY <1>0, <1>3 DEF ShimTypeOK
<1>5. port' \in [Instances -> Ports \cup {NoPort}]
  BY <1>0 DEF Listen, Publish, Drain, Gone, DaemonCrashes, ShimTypeOK
<1>6. holder' \in 0..Lives
  BY <1>0 DEF Listen, Publish, Drain, Gone, DaemonCrashes, ShimTypeOK
<1>7. ShimTypeOK'
  BY <1>0, <1>1, <1>2, <1>4, <1>5, <1>6 DEF ShimTypeOK, shim, breaker, Call
<1>8. OneAtATime'
  <2>1. CASE Listen(i)
    BY <1>0, <2>1 DEF Listen, OneAtATime, ShimTypeOK, Instances
  <2>2. CASE phase[i] # "none" /\ p \in {"draining", "dead"}
    BY <1>0, <1>3, <2>2 DEF OneAtATime, ShimTypeOK
  <2>3. CASE phase[i] = "listening" /\ p = "ready"
    BY <1>0, <1>3, <2>3 DEF OneAtATime, ShimTypeOK
  <2>4. \/ Listen(i)
        \/ phase[i] # "none" /\ p \in {"draining", "dead"}
        \/ phase[i] = "listening" /\ p = "ready"
    <3>1. phase'[i] = p
      BY <1>0, <1>3 DEF ShimTypeOK
    <3>2. CASE Publish(i)
      BY <1>0, <3>1, <3>2 DEF Publish, ShimTypeOK
    <3>3. CASE Drain(i) \/ Gone(i) \/ DaemonCrashes(i)
      BY <1>0, <3>1, <3>3 DEF Drain, Gone, DaemonCrashes, IsAlive, ShimTypeOK
    <3> QED BY <3>2, <3>3
  <2> QED BY <2>1, <2>2, <2>3, <2>4
<1>9. SteadyCalls' /\ SteadyIsAnswered'
  BY <1>2 DEF SteadyCalls, SteadyIsAnswered
<1>10. WindowIsExcused'
  BY <1>1 DEF ShimIInv, WindowIsExcused, shim, breaker
<1> QED BY <1>7, <1>8, <1>9, <1>10 DEF ShimIInv

\* While a daemon serves nobody else listens, on its port or on another.
LEMMA SteadyListens ==
    ASSUME ShimTypeOK, OneAtATime, Steady
    PROVE  ListensAt(port[holder]) = {holder} /\ Found = holder /\ holder # 0
<1>1. holder \in Instances /\ phase[holder] = "ready" /\ holder # 0
  BY Bounds DEF Steady, ShimTypeOK, Instances
<1>2. ASSUME NEW i \in Instances, phase[i] \in {"listening", "ready"} PROVE i = holder
  <2>1. ~(i < holder) /\ ~(holder < i)
    BY <1>1, <1>2 DEF OneAtATime
  <2> QED BY Bounds, <1>1, <2>1 DEF Instances
<1>3. ListensAt(port[holder]) = {holder}
  BY <1>1, <1>2 DEF ListensAt
<1> QED BY <1>1, <1>3 DEF Found, IsAlive

\* What a step of the shim must see to.
LEMMA ShimMoves ==
    ASSUME ShimIInv, ShimTypeOK', UNCHANGED daemons, SteadyCalls', WindowIsExcused',
           SteadyIsAnswered'
    PROVE  ShimIInv'
BY DEF ShimIInv, OneAtATime, daemons

\* A call moves: as far as it is steady, it is at the daemon that serves after a second
\* lookup, and has not ended in vain before the breaker tripped.
LEMMA CallMoves ==
    ASSUME ShimIInv, UNCHANGED daemons, permanent => permanent',
           NEW c \in Calls, NEW r \in Call, calls' = [calls EXCEPT ![c] = r],
           r.steady => Steady /\ (r.at \in {"again", "second"} => r.via = holder),
           r.steady /\ r.at \in {"refused", "failed"} => permanent'
    PROVE  calls' \in [Calls -> Call] /\ SteadyCalls' /\ SteadyIsAnswered'
<1>1. calls \in [Calls -> Call]
  BY DEF ShimIInv, ShimTypeOK, Call
<1>2. calls' \in [Calls -> Call] /\ calls'[c] = r /\ \A d \in Calls \ {c} : calls'[d] = calls[d]
  BY <1>1
<1>3. Steady' = Steady /\ holder' = holder
  BY DEF Steady, daemons
<1>4. ASSUME NEW d \in Calls, calls'[d].steady
      PROVE  /\ Steady' /\ (calls'[d].at \in {"again", "second"} => calls'[d].via = holder')
             /\ calls'[d].at \in {"refused", "failed"} => permanent'
  <2>1. CASE d = c
    BY <1>2, <1>3, <1>4, <2>1
  <2>2. CASE d # c
    BY <1>2, <1>3, <1>4, <2>2 DEF ShimIInv, SteadyCalls, SteadyIsAnswered
  <2> QED BY <2>1, <2>2
<1> QED BY <1>2, <1>4 DEF SteadyCalls, SteadyIsAnswered

LEMMA SendMoves ==
    ASSUME ShimIInv, UNCHANGED daemons, permanent => permanent', NEW c \in Calls,
           NEW at \in {"again", "sleep", "second"}, NEW via \in 0..Lives, Send(c, at, via),
           at # "sleep" /\ Steady => via = holder
    PROVE  calls' \in [Calls -> Call] /\ SteadyCalls' /\ SteadyIsAnswered'
<1>1. calls[c] \in Call
  BY DEF ShimIInv, ShimTypeOK, Call
<1> DEFINE r == [calls[c] EXCEPT !.at = at, !.via = via]
<1>2. r \in Call /\ r.at = at /\ r.via = via /\ r.steady = calls[c].steady
  BY <1>1 DEF Call
<1>3. calls' = [calls EXCEPT ![c] = r]
  BY DEF Send
<1>4. r.steady => Steady /\ (r.at \in {"again", "second"} => r.via = holder)
  BY <1>2 DEF ShimIInv, SteadyCalls
<1> HIDE DEF r
<1> QED BY <1>2, <1>3, <1>4, CallMoves

LEMMA OutcomesTyped ==
    ASSUME NEW at \in Over, NEW b \in BOOLEAN
    PROVE  Outcome(at, b) \in Call /\ Outcome(at, b).at = at /\ Outcome(at, b).steady = b
<1>1. /\ "current" \in Kinds /\ 0 \in 0..Lives
      /\ at \in Over \cup {"first", "again", "sleep", "second"}
  BY Bounds DEF Kinds
<1> QED BY <1>1 DEF Call, Outcome

\* A steady call fails only when it was let down or the breaker has tripped.
LEMMA FailMoves ==
    ASSUME ShimIInv, UNCHANGED daemons, permanent => permanent', NEW c \in Calls,
           NEW letDown \in BOOLEAN, Fail(c, letDown), calls[c].steady => letDown \/ permanent'
    PROVE  calls' \in [Calls -> Call] /\ SteadyCalls' /\ SteadyIsAnswered'
<1> DEFINE b == calls[c].steady /\ ~letDown
           r == Outcome("failed", b)
<1>1. b \in BOOLEAN
  BY Zenon
<1>2. (b => calls[c].steady) /\ (b => ~letDown)
  BY Zenon
<1>3. calls' = [calls EXCEPT ![c] = r]
  BY DEF Fail
<1> HIDE DEF b
<1> "failed" \in Over
  BY DEF Over
<1>4. r \in Call /\ r.at = "failed" /\ r.steady = b
  BY <1>1, OutcomesTyped
<1>5. r.steady => Steady /\ permanent'
  BY <1>2, <1>4 DEF ShimIInv, SteadyCalls
<1> HIDE DEF r
<1> QED BY <1>3, <1>4, <1>5, CallMoves

LEMMA GiveUpMoves ==
    ASSUME ShimIInv, UNCHANGED daemons, permanent => permanent', NEW c \in Calls,
           NEW letDown \in BOOLEAN, GiveUp(c, letDown), calls[c].steady => letDown \/ permanent'
    PROVE  /\ calls' \in [Calls -> Call] /\ SteadyCalls' /\ SteadyIsAnswered'
           /\ WindowIsExcused' /\ handoff' \in 0..Lives
           /\ unreachable' \in BOOLEAN /\ excused' \in BOOLEAN
<1>1. Fail(c, letDown) /\ handoff' = handoff /\ unreachable' = TRUE
  BY DEF GiveUp
<1>2. excused' \in BOOLEAN /\ (letDown => excused') /\ (~calls[c].steady => excused')
  BY Zenon DEF GiveUp
<1>3. WindowIsExcused'
  BY <1>2, Zenon DEF WindowIsExcused
<1>4. handoff \in 0..Lives
  BY DEF ShimIInv, ShimTypeOK
<1> QED BY <1>1, <1>2, <1>3, <1>4, FailMoves

\* What a lookup finds; it opens the window only where no daemon serves.
LEMMA DiscoverFinds ==
    ASSUME ShimIInv, Discover
    PROVE  /\ handoff' \in 0..Lives /\ unreachable' \in BOOLEAN /\ excused' \in BOOLEAN
           /\ handoff' = Found /\ WindowIsExcused'
           /\ Steady => handoff' = holder /\ holder # 0
<1>1. handoff' = Found /\ Found \in 0..Lives
  BY Bounds DEF Discover, Found, ShimIInv, ShimTypeOK
<1>2. Steady => Found = holder /\ holder # 0
  BY SteadyListens DEF ShimIInv
<1>3. unreachable' = (Found = 0) /\ excused' = (Found = 0 /\ ~Steady)
  BY Zenon DEF Discover
<1>4. unreachable' \in BOOLEAN /\ excused' \in BOOLEAN
  BY <1>3, Zenon
<1>5. unreachable' => excused'
  BY <1>2, <1>3, Zenon
<1> QED BY <1>1, <1>2, <1>4, <1>5 DEF WindowIsExcused

\* A second attempt is answered for by the daemon that serves, if there is one.
LEMMA RetryMoves ==
    ASSUME ShimIInv, UNCHANGED daemons, permanent => permanent', NEW c \in Calls,
           NEW at \in {"again", "second"}, DiscoverAndRetry(c, at)
    PROVE  /\ calls' \in [Calls -> Call] /\ SteadyCalls' /\ SteadyIsAnswered'
           /\ WindowIsExcused' /\ handoff' \in 0..Lives
           /\ unreachable' \in BOOLEAN /\ excused' \in BOOLEAN
<1>1. /\ handoff' \in 0..Lives /\ unreachable' \in BOOLEAN /\ excused' \in BOOLEAN
      /\ handoff' = Found /\ WindowIsExcused'
      /\ Steady => handoff' = holder /\ holder # 0
  BY DiscoverFinds DEF DiscoverAndRetry
<1>2. CASE Found = 0
  <2>1. Fail(c, FALSE) /\ ~calls[c].steady
    BY <1>1, <1>2 DEF DiscoverAndRetry, ShimIInv, SteadyCalls
  <2> QED BY <1>1, <2>1, FailMoves
<1>3. CASE Found # 0
  <2>1. Send(c, at, Found)
    BY <1>3 DEF DiscoverAndRetry
  <2> QED BY <1>1, <2>1, SendMoves
<1> QED BY <1>2, <1>3

LEMMA ShimHolds ==
    ASSUME ShimIInv, NEW c \in Calls, Ask(c) \/ Proceed(c)
    PROVE  ShimIInv'
<1>0. /\ ShimTypeOK /\ OneAtATime /\ SteadyCalls /\ WindowIsExcused
      /\ Lives \in Nat /\ Limit \in Nat /\ Mishaps \in Nat
      /\ calls \in [Calls -> Call] /\ calls[c] \in Call
  BY Bounds DEF ShimIInv, ShimTypeOK, Call
<1>1. UNCHANGED daemons
  BY DEF Ask, Proceed, Unauthorized, Wake, Thrown, Answered, TooMany
<1>2. ASSUME handoff' \in 0..Lives, unreachable' \in BOOLEAN, excused' \in BOOLEAN,
             permanent' \in BOOLEAN, fails' \in Nat, window' \in BOOLEAN, blamed' \in 0..Lives,
             mishaps' \in 0..Mishaps, calls' \in [Calls -> Call],
             SteadyCalls', WindowIsExcused', SteadyIsAnswered'
      PROVE  ShimIInv'
  <2>1. ShimTypeOK'
    BY <1>0, <1>1, <1>2 DEF ShimTypeOK, daemons, Call
  <2> QED BY <1>1, <1>2, <2>1, ShimMoves
<1>3. CASE Ask(c)
  <2>1. UNCHANGED <<permanent, fails, window, blamed, mishaps>>
    BY <1>3 DEF Ask, breaker
  <2>2. /\ handoff' \in 0..Lives /\ unreachable' \in BOOLEAN /\ excused' \in BOOLEAN
        /\ WindowIsExcused'
        /\ IsUnreachable \/ handoff' = 0 => (Steady => excused' \/ permanent)
    <3>1. CASE UNCHANGED <<handoff, unreachable, excused>> /\ (IsUnreachable \/ handoff # 0)
      <4>1. handoff' = handoff /\ unreachable' = unreachable /\ excused' = excused
        BY <3>1
      <4>2. handoff \in 0..Lives /\ unreachable \in BOOLEAN /\ excused \in BOOLEAN
        BY <1>0 DEF ShimTypeOK
      <4>3. unreachable' \in BOOLEAN /\ excused' \in BOOLEAN
        BY <4>1, <4>2, Zenon
      <4>4. WindowIsExcused'
        BY <1>0, <2>1, <4>1 DEF WindowIsExcused
      <4>5. IsUnreachable => excused' \/ permanent
        BY <1>0, <4>1 DEF WindowIsExcused, IsUnreachable
      <4> QED BY <3>1, <4>1, <4>2, <4>3, <4>4, <4>5
    <3>2. CASE Discover /\ ~IsUnreachable
      <4>1. handoff' = 0 => ~Steady
        BY <3>2, DiscoverFinds
      <4> QED BY <3>2, <4>1, DiscoverFinds
    <3> QED BY <1>3, <3>1, <3>2 DEF Ask
  <2>3. calls' \in [Calls -> Call] /\ SteadyCalls' /\ SteadyIsAnswered'
    <3>1. CASE /\ IsUnreachable \/ handoff' = 0
               /\ calls' = [calls EXCEPT ![c] = Outcome("refused", Steady /\ ~excused')]
      <4> DEFINE b == Steady /\ ~excused'
                 r == Outcome("refused", b)
      <4>1. b \in BOOLEAN /\ (b => Steady) /\ (b => ~excused')
        BY Zenon
      <4>2. calls' = [calls EXCEPT ![c] = r]
        BY <3>1
      <4> HIDE DEF b
      <4>3. "refused" \in Over
        BY DEF Over
      <4>4. r \in Call /\ r.at = "refused" /\ r.steady = b
        BY <4>1, <4>3, OutcomesTyped
      <4>5. r.steady => Steady /\ permanent'
        BY <2>1, <2>2, <3>1, <4>1, <4>4
      <4> HIDE DEF r
      <4> QED BY <1>1, <2>1, <4>2, <4>4, <4>5, CallMoves
    <3>2. CASE \E k \in Kinds :
                 calls' = [calls EXCEPT ![c] =
                             [kind |-> k, at |-> "first", via |-> handoff', steady |-> Steady]]
      <4>1. PICK k \in Kinds :
                 calls' = [calls EXCEPT ![c] =
                             [kind |-> k, at |-> "first", via |-> handoff', steady |-> Steady]]
        BY <3>2
      <4> DEFINE r == [kind |-> k, at |-> "first", via |-> handoff', steady |-> Steady]
      <4>2. r \in Call /\ r.at = "first" /\ r.steady = Steady
        BY <2>2 DEF Call, Steady
      <4>3. calls' = [calls EXCEPT ![c] = r]
        BY <4>1
      <4> HIDE DEF r
      <4> QED BY <1>1, <2>1, <4>2, <4>3, CallMoves
    <3> QED BY <1>3, <3>1, <3>2 DEF Ask
  <2> QED BY <1>0, <1>2, <2>1, <2>2, <2>3 DEF ShimTypeOK
<1>4. CASE Unauthorized(c)
  <2>1. calls[c].steady => calls[c].at = "first"
    <3>1. SUFFICES ASSUME calls[c].steady, calls[c].at \in {"again", "second"} PROVE FALSE
      BY <1>4 DEF Unauthorized, InFlight
    <3>2. Steady /\ calls[c].via = holder
      BY <1>0, <3>1 DEF SteadyCalls
    <3> QED BY <1>0, <1>4, <3>2, SteadyListens DEF Unauthorized
  <2>2. UNCHANGED mishaps
    BY <1>4 DEF Unauthorized
  <2>3. CASE ~Counts(calls[c]) /\ GiveUp(c, FALSE) /\ UNCHANGED breaker
    <3>1. ~calls[c].steady /\ UNCHANGED <<permanent, fails, window, blamed>>
      BY <2>1, <2>3 DEF Counts, breaker
    <3>2. /\ calls' \in [Calls -> Call] /\ SteadyCalls' /\ SteadyIsAnswered'
          /\ WindowIsExcused' /\ handoff' \in 0..Lives
          /\ unreachable' \in BOOLEAN /\ excused' \in BOOLEAN
      BY <1>1, <2>3, <3>1, GiveUpMoves
    <3> QED BY <1>0, <1>2, <2>2, <3>1, <3>2 DEF ShimTypeOK
  <2>4. CASE /\ RecordAuthFail /\ permanent' = (permanent \/ fails' >= Limit)
             /\ IF fails' >= Limit \/ (calls[c].at = "again" /\ calls[c].kind = "current")
                THEN GiveUp(c, FALSE)
                ELSE /\ Send(c, "sleep", calls[c].via)
                     /\ UNCHANGED <<handoff, unreachable, excused>>
    <3>1. fails' \in Nat /\ window' \in BOOLEAN /\ blamed' \in 0..Lives
      BY <1>0, <2>4 DEF RecordAuthFail, ShimTypeOK
    <3>2. permanent' \in BOOLEAN /\ (permanent => permanent')
      BY <2>4, Zenon
    <3>3. /\ calls' \in [Calls -> Call] /\ SteadyCalls' /\ SteadyIsAnswered'
          /\ WindowIsExcused' /\ handoff' \in 0..Lives
          /\ unreachable' \in BOOLEAN /\ excused' \in BOOLEAN
      <4>1. CASE GiveUp(c, FALSE) /\ (fails' >= Limit \/ calls[c].at = "again")
        <5>1. calls[c].steady => permanent'
          BY <2>1, <2>4, <4>1
        <5> QED BY <1>1, <3>2, <4>1, <5>1, GiveUpMoves
      <4>2. CASE Send(c, "sleep", calls[c].via) /\ UNCHANGED <<handoff, unreachable, excused>>
        <5>1. calls[c].via \in 0..Lives
          BY <1>0 DEF Call
        <5>2. calls' \in [Calls -> Call] /\ SteadyCalls' /\ SteadyIsAnswered'
          BY <1>1, <3>2, <4>2, <5>1, SendMoves
        <5>3. handoff' = handoff /\ unreachable' = unreachable /\ excused' = excused
          BY <4>2
        <5>4. handoff \in 0..Lives /\ unreachable \in BOOLEAN /\ excused \in BOOLEAN
          BY <1>0 DEF ShimTypeOK
        <5>5. unreachable' \in BOOLEAN /\ excused' \in BOOLEAN
          BY <5>3, <5>4, Zenon
        <5>6. WindowIsExcused'
          BY <1>0, <3>2, <5>3, Zenon DEF WindowIsExcused
        <5> QED BY <5>2, <5>3, <5>4, <5>5, <5>6
      <4> QED BY <2>4, <4>1, <4>2
    <3> QED BY <1>0, <1>2, <2>2, <3>1, <3>2, <3>3 DEF ShimTypeOK
  <2> QED BY <1>4, <2>3, <2>4 DEF Unauthorized
<1>5. CASE Wake(c)
  <2>1. DiscoverAndRetry(c, "second") /\ UNCHANGED <<permanent, fails, window, blamed, mishaps>>
    BY <1>5 DEF Wake, breaker
  <2> QED BY <1>0, <1>1, <1>2, <2>1, RetryMoves DEF ShimTypeOK
<1>6. CASE Thrown(c)
  <2>1. PICK late \in BOOLEAN :
             /\ late \/ ListensAt(port[calls[c].via]) = {}
             /\ IF calls[c].at = "first" THEN DiscoverAndRetry(c, "again") ELSE GiveUp(c, late)
    BY <1>6 DEF Thrown
  <2>2. UNCHANGED <<permanent, fails, window, blamed>> /\ mishaps' \in 0..Mishaps
    BY <1>0, <1>6 DEF Thrown, breaker, ShimTypeOK
  <2>3. /\ calls' \in [Calls -> Call] /\ SteadyCalls' /\ SteadyIsAnswered'
        /\ WindowIsExcused' /\ handoff' \in 0..Lives
        /\ unreachable' \in BOOLEAN /\ excused' \in BOOLEAN
    <3>1. CASE calls[c].at = "first"
      <4>1. DiscoverAndRetry(c, "again")
        BY <2>1, <3>1
      <4> QED BY <1>1, <2>2, <4>1, RetryMoves
    <3>2. CASE calls[c].at # "first"
      <4>1. calls[c].steady => late
        <5>1. SUFFICES ASSUME calls[c].steady, ListensAt(port[calls[c].via]) = {} PROVE FALSE
          BY <2>1
        <5>2. Steady /\ calls[c].via = holder
          BY <1>0, <1>6, <3>2, <5>1 DEF SteadyCalls, Thrown, InFlight
        <5> QED BY <1>0, <5>1, <5>2, SteadyListens
      <4>2. GiveUp(c, late)
        BY <2>1, <3>2
      <4> QED BY <1>1, <2>2, <4>1, <4>2, GiveUpMoves
    <3> QED BY <3>1, <3>2
  <2> QED BY <1>0, <1>2, <2>2, <2>3 DEF ShimTypeOK
<1>7. CASE Answered(c)
  <2>1. /\ UNCHANGED <<permanent, window, blamed, mishaps>> /\ handoff' = handoff
        /\ fails' \in Nat
    BY <1>0, <1>7 DEF Answered, MarkReachable, ShimTypeOK
  <2>2. unreachable' \in BOOLEAN /\ excused' \in BOOLEAN /\ WindowIsExcused'
    <3>1. CASE MarkReachable
      BY <3>1 DEF MarkReachable, WindowIsExcused
    <3>2. CASE UNCHANGED <<handoff, unreachable, excused>>
      <4>1. unreachable' = unreachable /\ excused' = excused /\ permanent' = permanent
        BY <2>1, <3>2
      <4>2. unreachable \in BOOLEAN /\ excused \in BOOLEAN
        BY <1>0 DEF ShimTypeOK
      <4> QED BY <1>0, <4>1, <4>2, Zenon DEF WindowIsExcused
    <3> QED BY <1>7, <3>1, <3>2 DEF Answered
  <2>3. Idle \in Call /\ ~Idle.steady
    BY Bounds DEF Idle, Outcome, Call, Kinds, Over
  <2>4. calls' \in [Calls -> Call] /\ SteadyCalls' /\ SteadyIsAnswered'
    <3>1. calls' = [calls EXCEPT ![c] = Idle]
      BY <1>7 DEF Answered
    <3> QED BY <1>1, <2>1, <2>3, <3>1, CallMoves
  <2> QED BY <1>0, <1>2, <2>1, <2>2, <2>4 DEF ShimTypeOK
<1>8. CASE TooMany(c)
  <2>1. UNCHANGED <<permanent, window, blamed>> /\ mishaps' \in 0..Mishaps /\ fails' \in {0, fails}
    BY <1>0, <1>8 DEF TooMany, ShimTypeOK
  <2>2. fails' \in Nat
    BY <1>0, <2>1 DEF ShimTypeOK
  <2>3. /\ calls' \in [Calls -> Call] /\ SteadyCalls' /\ SteadyIsAnswered'
        /\ WindowIsExcused' /\ handoff' \in 0..Lives
        /\ unreachable' \in BOOLEAN /\ excused' \in BOOLEAN
    <3>1. CASE GiveUp(c, TRUE)
      BY <1>1, <2>1, <3>1, GiveUpMoves
    <3>2. CASE Fail(c, TRUE) /\ UNCHANGED <<handoff, unreachable, excused>>
      <4>1. calls' \in [Calls -> Call] /\ SteadyCalls' /\ SteadyIsAnswered'
        BY <1>1, <2>1, <3>2, FailMoves
      <4>2. /\ unreachable' = unreachable /\ excused' = excused /\ permanent' = permanent
            /\ handoff' = handoff
        BY <2>1, <3>2
      <4>3. handoff \in 0..Lives /\ unreachable \in BOOLEAN /\ excused \in BOOLEAN
        BY <1>0 DEF ShimTypeOK
      <4>4. unreachable' \in BOOLEAN /\ excused' \in BOOLEAN /\ WindowIsExcused'
        BY <1>0, <4>2, <4>3, Zenon DEF WindowIsExcused
      <4> QED BY <4>1, <4>2, <4>3, <4>4
    <3> QED BY <1>8, <3>1, <3>2 DEF TooMany
  <2> QED BY <1>0, <1>2, <2>1, <2>2, <2>3 DEF ShimTypeOK
<1> QED BY <1>3, <1>4, <1>5, <1>6, <1>7, <1>8 DEF Proceed

LEMMA ShimStep == ShimIInv /\ [ShimNext]_shimVars => ShimIInv'
<1> SUFFICES ASSUME ShimIInv, [ShimNext]_shimVars PROVE ShimIInv'
  OBVIOUS
<1>0. ShimTypeOK /\ WindowIsExcused
  BY DEF ShimIInv
<1>1. ASSUME UNCHANGED daemons, UNCHANGED calls, UNCHANGED mishaps, UNCHANGED permanent,
             UNCHANGED handoff, unreachable' \in BOOLEAN, excused' \in BOOLEAN, fails' \in Nat,
             window' \in BOOLEAN, blamed' \in 0..Lives,
             unreachable' => unreachable /\ (excused => excused')
      PROVE  ShimIInv'
  <2>1. ShimTypeOK'
    BY <1>0, <1>1 DEF ShimTypeOK, daemons
  <2>2. SteadyCalls' /\ SteadyIsAnswered'
    BY <1>1 DEF ShimIInv, SteadyCalls, SteadyIsAnswered, Steady, daemons
  <2>3. WindowIsExcused'
    <3>1. permanent' = permanent
      BY <1>1
    <3> QED BY <1>0, <1>1, <3>1 DEF WindowIsExcused
  <2> QED BY <1>1, <2>1, <2>2, <2>3, ShimMoves
<1>2. CASE UnreachableEnds
  <2>1. /\ UNCHANGED <<daemons, calls, mishaps, permanent, handoff, fails, window, blamed>>
        /\ unreachable' = FALSE /\ excused' = FALSE
    BY <1>2 DEF UnreachableEnds, breaker
  <2>2. fails' \in Nat /\ blamed' \in 0..Lives
    BY <1>0, <2>1 DEF ShimTypeOK
  <2>3. window' \in BOOLEAN
    BY <1>0, <2>1 DEF ShimTypeOK
  <2> QED BY <1>1, <2>1, <2>2, <2>3
<1>3. CASE WindowEnds \/ UNCHANGED shimVars
  <2>1. UNCHANGED <<daemons, calls, mishaps, permanent, handoff, unreachable, excused>>
    BY <1>3 DEF WindowEnds, shimVars, shim, breaker
  <2>2. fails' \in {0, fails} /\ blamed' \in {0, blamed}
    BY <1>3 DEF WindowEnds, shimVars, shim, breaker
  <2>3. window' = FALSE \/ window' = window
    BY <1>3 DEF WindowEnds, shimVars, shim, breaker
  <2>4. fails' \in Nat /\ blamed' \in 0..Lives
    BY Bounds, <1>0, <2>2 DEF ShimTypeOK
  <2>5. unreachable' = unreachable /\ excused' = excused
    BY <2>1
  <2>6. unreachable' \in BOOLEAN /\ excused' \in BOOLEAN /\ window' \in BOOLEAN
    BY <1>0, <2>3, <2>5, Zenon DEF ShimTypeOK
  <2> QED BY <1>1, <2>1, <2>4, <2>5, <2>6
<1> QED BY <1>2, <1>3, WorldHolds, ShimHolds DEF ShimNext

LEMMA ShimInductive == ShimSpec => []ShimIInv
BY ShimInitHolds, ShimStep, PTL DEF ShimSpec

\* Every variable of the shim keeps its type.
THEOREM ShimTypeCorrect == ShimSpec => []ShimTypeOK
<1>1. ShimIInv => ShimTypeOK
  BY DEF ShimIInv
<1> QED BY <1>1, ShimInductive, PTL

\* A call during which the daemon stays does not end in vain for what is cached of older
\* daemons; it may if this daemon lets it down twice or turns it away, within the second
\* after a call that met this or no daemon, or for the breaker (daemonBackend.ts:217-513).
THEOREM SteadyCallsAreAnswered == ShimSpec => []SteadyIsAnswered
<1>1. ShimIInv => SteadyIsAnswered
  BY DEF ShimIInv
<1> QED BY <1>1, ShimInductive, PTL
=============================================================================
