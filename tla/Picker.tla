--------------------------------- MODULE Picker ---------------------------------
(***************************************************************************)
(* The element picker of the content script, packages/ext/src/content/     *)
(* picker.ts, with hitTest.ts and the message that arms it (index.ts).     *)
(*                                                                         *)
(* The picker shares the page with scripts it does not know: they move the *)
(* focus, change the DOM, open and close modals (a dialog, an aria-modal   *)
(* element, an inert subtree) and dispatch events of their own.  A frame,  *)
(* a timer or a message of the extension is a task and waits until the     *)
(* mutation observer, a microtask, has been called for the records of the  *)
(* script before.                                                          *)
(*                                                                         *)
(* Of the DOM the model keeps the elements at each point, the open shadow  *)
(* roots, what has been removed, and the focus.                            *)
(***************************************************************************)
EXTENDS Naturals, Sequences

CONSTANTS
    Elements,        \* of the page
    Points,          \* where the pointer may be
    Pointers,        \* pointer types: "mouse" and others
    Document, Body, Host, Highlight, None,
    FromPoint        \* per root and point, the elements from the innermost: elementsFromPoint

Modals == {"dialog", "aria-modal", "inert"}
Hosts == DOMAIN FromPoint \ {Document}         \* elements with an open shadow root

Resolved == Elements \cup {Host, Highlight}

\* What a root has at a point: a shadow root may list its own host too
\* (packages/ext/test/picker/hitTest.spec.ts:401).  Its host apart, no shadow root lists an
\* element that it is inside of, however deep: of any elements, there is one whose shadow root
\* has none of the others.
ASSUME DomIsWellFormed ==
    /\ LET others == <<Document, Body, Host, Highlight, None>>
       IN \A i, j \in 1..5 : others[i] \notin Elements /\ (others[i] = others[j] => i = j)
    /\ \A r \in DOMAIN FromPoint : FromPoint[r] \in [Points -> Seq(Resolved)]
    /\ Document \in DOMAIN FromPoint
    /\ Host \in Hosts /\ Hosts \subseteq Elements \cup {Host}
    /\ \A S \in SUBSET Resolved : S # {} =>
         \E e \in S : e \in Hosts =>
           \A p \in Points : \A i \in DOMAIN FromPoint[e][p] :
             FromPoint[e][p][i] \notin S \ {e}

VARIABLES
    armed, disposed,
    host,                                       \* what the shadow host is attached to
    liveRegion, listeners, observer,            \* are they there?
    raf, hasPendingPointer,                     \* a frame is requested; a position waits for it
    lastPoint, lastPointerType, lastHoverTarget,
    debounce, message,                          \* the announcement's timer and its text
    priorActiveElement,
    focus, gone, modals,                        \* the page
    records,                                    \* mutation records of the observer
    visited, old, committed, ended              \* history of this arming: points, modals open
                                                \* since before it, its commit, how it ended

picker == <<armed, disposed, host, liveRegion, listeners, observer, raf, hasPendingPointer,
            lastPoint, lastPointerType, lastHoverTarget, debounce, message,
            priorActiveElement>>
page == <<focus, gone, modals>>
pickerVars == <<picker, page, records, visited, old, committed, ended>>

PickerTypeOK ==
    /\ {armed, disposed, liveRegion, listeners, observer, raf, hasPendingPointer, debounce,
        message, records} \subseteq BOOLEAN
    /\ host \in {None, Document} \cup Modals
    /\ lastPoint \in Points /\ lastPointerType \in Pointers \cup {None}
    /\ lastHoverTarget \in Elements \cup {None}
    /\ priorActiveElement \in Elements \cup {Body, Host, None}
    /\ focus \in Elements \cup {Body, Host}
    /\ gone \subseteq Elements /\ modals \subseteq Modals /\ old \subseteq modals
    /\ visited \subseteq Points
    /\ committed \in [el : Elements \cup {None}, target : Elements \cup {None}]
    /\ ended \in {"", "cancel", "commit", "modal"}

NoCommit == [el |-> None, target |-> None]

PickerInit ==
    /\ armed = FALSE /\ disposed = FALSE /\ host = None
    /\ liveRegion = FALSE /\ listeners = FALSE /\ observer = FALSE
    /\ raf = FALSE /\ hasPendingPointer = FALSE
    /\ lastPoint \in Points /\ lastPointerType = None /\ lastHoverTarget = None
    /\ debounce = FALSE /\ message = FALSE
    /\ priorActiveElement = None
    /\ focus = Body /\ gone = {} /\ modals \in SUBSET Modals
    /\ records = FALSE
    /\ visited = {} /\ old = {} /\ committed = NoCommit /\ ended = ""
-----------------------------------------------------------------------------
(***************************************************************************)
(* hitTest()                                                               *)
(***************************************************************************)
\* document.elementsFromPoint() and that of a shadow root, by depth: what has been removed
\* is not there, and the picker's host is on top, at 0.
ElementsAt(root, p) ==
    LET there == {i \in DOMAIN FromPoint[root][p] : FromPoint[root][p][i] \notin gone}
        top == IF root = Document /\ host # None THEN {0} ELSE {}
    IN [i \in there \cup top |-> IF i = 0 THEN Host ELSE FromPoint[root][p][i]]

First(s) ==
    LET found == {i \in DOMAIN s : s[i] # None}
    IN IF found = {} THEN None ELSE s[CHOOSE i \in found : \A j \in found : i <= j]

\* Mutant of ResolveInShadow: the picker's own elements are not told from the page's.
ResolveOwnToo(p) ==
    LET f[e \in Resolved] ==
          IF e \in Hosts
          THEN LET inner == ElementsAt(e, p)
                   others == {i \in DOMAIN inner : inner[i] # e}
               IN First([i \in others |-> f[inner[i]]])
          ELSE e
    IN f

\* isInPickerRoot(): the host, and what is in its shadow root.
IsInPickerRoot(e) == e \in {Host, Highlight}

\* resolveInShadow(): nothing of the picker; in an open shadow root what is listed there, the
\* host itself apart, and nothing if nothing is; the element itself otherwise.
ResolveInShadow(p) ==
    LET f[e \in Resolved] ==
          IF IsInPickerRoot(e) THEN None
          ELSE IF e \in Hosts
          THEN LET inner == ElementsAt(e, p)
                   others == {i \in DOMAIN inner : inner[i] # e}
               IN First([i \in others |-> f[inner[i]]])
          ELSE e
    IN f

HitTest(p) ==
    LET candidates == ElementsAt(Document, p)
    IN First([i \in DOMAIN candidates |-> ResolveInShadow(p)[candidates[i]]])
-----------------------------------------------------------------------------
(***************************************************************************)
(* Arming                                                                  *)
(***************************************************************************)
\* Inside of an open modal dialog if there is one.
AttachmentTarget == IF "dialog" \in modals THEN "dialog" ELSE Document

\* The message "arm-picker" of the panel.  What it changes in the DOM comes before the
\* observer is there.
Arm ==
    /\ ~records /\ ~disposed /\ ~armed
    /\ priorActiveElement' = focus
    /\ host' = AttachmentTarget /\ liveRegion' = TRUE
    /\ armed' = TRUE
    /\ lastHoverTarget' = None /\ lastPointerType' = None
    /\ hasPendingPointer' = FALSE /\ raf' = FALSE
    /\ listeners' = TRUE /\ observer' = TRUE
    /\ focus' = Host
    /\ visited' = {} /\ old' = modals /\ committed' = NoCommit /\ ended' = ""
    /\ UNCHANGED <<disposed, lastPoint, debounce, message, gone, modals, records>>

RestoreFocus ==
    /\ priorActiveElement' = None
    /\ focus' = IF priorActiveElement \in Elements \ gone THEN priorActiveElement ELSE Body

\* Mutant of Disarm: the debounce timer stays.
DisarmTimerStays ==
    /\ armed' = FALSE
    /\ raf' = FALSE /\ hasPendingPointer' = FALSE
    /\ observer' = FALSE /\ records' = FALSE /\ listeners' = FALSE
    /\ host' = None /\ liveRegion' = FALSE
    /\ RestoreFocus
    /\ lastHoverTarget' = None /\ lastPointerType' = None
    /\ UNCHANGED <<lastPoint, debounce, message>>

\* disarm(): what it removes from the DOM comes after the observer is disconnected, which
\* drops its records.
Disarm ==
    /\ armed' = FALSE
    /\ raf' = FALSE /\ hasPendingPointer' = FALSE
    /\ debounce' = FALSE /\ message' = FALSE
    /\ observer' = FALSE /\ records' = FALSE /\ listeners' = FALSE
    /\ host' = None /\ liveRegion' = FALSE
    /\ RestoreFocus
    /\ lastHoverTarget' = None /\ lastPointerType' = None
    /\ UNCHANGED lastPoint

DisarmFor(why) ==
    /\ Disarm /\ ended' = why
    /\ UNCHANGED <<disposed, gone, modals, visited, old, committed>>

\* disarm() of the controller, and Escape, which the picker keeps to itself.
Cancel == armed /\ DisarmFor("cancel")

Dispose ==
    /\ ~disposed /\ disposed' = TRUE
    /\ IF armed
       THEN Disarm
       ELSE UNCHANGED <<armed, host, liveRegion, listeners, observer, raf, hasPendingPointer,
                        lastPoint, lastPointerType, lastHoverTarget, debounce, message,
                        priorActiveElement, focus, records>>
    /\ UNCHANGED <<gone, modals, visited, old, committed, ended>>
-----------------------------------------------------------------------------
(***************************************************************************)
(* Pointer and click                                                       *)
(***************************************************************************)
\* Pen and touch: only the first move of a burst counts.
Deduped(type) == type # "mouse" /\ type = lastPointerType

PointerMove(p, type) ==
    /\ armed /\ ~Deduped(type)
    /\ lastPointerType' = type /\ lastPoint' = p
    /\ hasPendingPointer' = TRUE /\ raf' = TRUE
    /\ message' = TRUE /\ debounce' = TRUE
    /\ visited' = visited \cup {p}
    /\ UNCHANGED <<armed, disposed, host, liveRegion, listeners, observer, lastHoverTarget,
                   priorActiveElement, page, records, old, committed, ended>>

\* resolveHoverFromLastPointer(), in an animation frame.
Frame ==
    /\ raf /\ ~records
    /\ raf' = FALSE /\ hasPendingPointer' = FALSE
    /\ lastHoverTarget' = IF hasPendingPointer THEN HitTest(lastPoint) ELSE lastHoverTarget
    /\ UNCHANGED <<armed, disposed, host, liveRegion, listeners, observer, lastPoint,
                   lastPointerType, debounce, message, priorActiveElement, page, records,
                   visited, old, committed, ended>>

\* What is hovered is forgotten; the frame under way is not.
PointerCancel ==
    /\ armed
    /\ lastHoverTarget' = None /\ lastPointerType' = None
    /\ UNCHANGED <<armed, disposed, host, liveRegion, listeners, observer, raf,
                   hasPendingPointer, lastPoint, debounce, message, priorActiveElement, page,
                   records, visited, old, committed, ended>>

\* The announcement is written in the live region, which is in the body.
Announce ==
    /\ debounce /\ ~records
    /\ debounce' = FALSE /\ message' = FALSE
    /\ records' = (observer /\ liveRegion)
    /\ UNCHANGED <<armed, disposed, host, liveRegion, listeners, observer, raf,
                   hasPendingPointer, lastPoint, lastPointerType, lastHoverTarget,
                   priorActiveElement, page, visited, old, committed, ended>>

\* A click of the user or of a script: the hovered element, else the target of the event.
Click(target) ==
    /\ armed
    /\ committed' = [el |-> IF lastHoverTarget # None THEN lastHoverTarget ELSE target,
                     target |-> target]
    /\ Disarm /\ ended' = "commit"
    /\ UNCHANGED <<disposed, gone, modals, visited, old>>
-----------------------------------------------------------------------------
(***************************************************************************)
(* The page, and the mutation observer                                     *)
(***************************************************************************)
\* The mutations the observer is told of: childList, and the attributes of attributeFilter,
\* one of which every modal changes.
Mutated == records' = observer

Observed == UNCHANGED <<picker, visited, committed, ended>>

Mutate == Mutated /\ Observed /\ UNCHANGED <<page, old>>

Remove(e) ==
    /\ gone' = gone \cup {e}
    /\ focus' = IF focus = e THEN Body ELSE focus
    /\ Mutated /\ Observed /\ UNCHANGED <<modals, old>>

OpenModal(m) ==
    /\ m \notin modals /\ modals' = modals \cup {m}
    /\ Mutated /\ Observed /\ UNCHANGED <<focus, gone, old>>

CloseModal(m) ==
    /\ modals' = modals \ {m} /\ old' = old \ {m}
    /\ Mutated /\ Observed /\ UNCHANGED <<focus, gone>>

Focus(e) ==
    /\ focus' = e
    /\ Observed /\ UNCHANGED <<gone, modals, records, old>>

\* Mutant of HasOpenModalAncestor: dialogs only.
HasOpenDialog == "dialog" \in modals

\* hasOpenModalAncestor(): anywhere in the document, the picker's host apart.
HasOpenModalAncestor == modals # {}

\* The observer is called with its records, and gives up if it finds a modal.
Observe ==
    /\ records
    /\ IF HasOpenModalAncestor
       THEN DisarmFor("modal")
       ELSE records' = FALSE /\ UNCHANGED <<picker, page, visited, old, committed, ended>>

PickerNext ==
    \/ Arm \/ Cancel \/ Dispose \/ Frame \/ PointerCancel \/ Announce \/ Observe \/ Mutate
    \/ \E p \in Points, type \in Pointers : PointerMove(p, type)
    \/ \E e \in Elements \ gone : Click(e) \/ Remove(e) \/ Focus(e)
    \/ \E m \in Modals : OpenModal(m) \/ CloseModal(m)

PickerSpec == PickerInit /\ [][PickerNext]_pickerVars
-----------------------------------------------------------------------------
\* Whatever ends it (a commit, Escape, a modal, dispose), a picker that is not armed has left
\* nothing in the page and nothing behind that could still run: no listener, observer, frame
\* or timer, no overlay, no focus on an element that is gone (picker.ts:335-400).
DisarmedIsClean ==
    ~armed =>
      /\ ~listeners /\ ~observer /\ ~records
      /\ ~raf /\ ~hasPendingPointer /\ ~debounce /\ ~message
      /\ host = None /\ ~liveRegion /\ focus # Host
      /\ lastHoverTarget = None /\ priorActiveElement = None

\* What is committed has been under the pointer since this arming, or is the target of the
\* click itself: never the picker's overlay, never what an earlier arming hovered
\* (picker.ts:446-450, hitTest.ts).  It may have been removed from the page meanwhile:
\* CommitIsConnected.
CommitIsHovered ==
    LET at(p) == UNION {{FromPoint[r][p][i] : i \in DOMAIN FromPoint[r][p]} :
                        r \in DOMAIN FromPoint}
    IN committed.el # None =>
         \/ committed.el = committed.target
         \/ committed.el \in Elements /\ \E p \in visited : committed.el \in at(p)

\* "Check `lastHoverTarget.isConnected`; if false (HMR swapped subtree between hover and click),
\* re-resolve via `elementsFromPoint` at last mouse coords",
\* docs/superpowers/specs/2026-04-19-chrome-extension-v0-design.md:248: what a click commits is
\* in the page.
CommitIsConnected ==
    [][committed' # committed /\ committed'.el # None => committed'.el \notin gone]_pickerVars

\* "Modal-opens-while-armed is detected", picker.ts:24: once the script that opened a modal
\* has returned, the picker is not armed over it.
ModalDisarms == armed /\ ~records => modals \subseteq old

\* The picker attaches itself inside of an open modal dialog, which "preserves pick
\* functionality when debugging modal-heavy apps",
\* docs/superpowers/specs/2026-04-19-chrome-extension-v0-design.md:245: only a modal that
\* opens after the arming makes it give up.
OpenModalIsNoObstacle ==
    [][armed /\ ended' = "modal" => ~(modals \subseteq old)]_pickerVars
=============================================================================
