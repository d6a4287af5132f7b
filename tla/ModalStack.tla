----------------------------- MODULE ModalStack -----------------------------
(***************************************************************************)
(* The modal dialogs of the web interface (web/src/components/ui/modal.tsx *)
(* and confirm-dialog.tsx).  Every dialog shares module-level state: a     *)
(* stack of mounted dialogs, reference counts of the elements it made      *)
(* inert, the scroll style of the body and the element that had the focus. *)
(* A dialog that is closed stays mounted for an exit animation, so dialogs *)
(* overlap and leave in any order.                                         *)
(*                                                                         *)
(* An element is a child of the body: the application, another element of  *)
(* the page that is inert by itself, or the root of a mounted dialog,      *)
(* named like the dialog.  inert stands for both inert and aria-hidden,    *)
(* which the code sets and restores side by side.                          *)
(***************************************************************************)
EXTENDS Naturals, Sequences, SequencesExt

CONSTANTS Dialogs, Triggers

\* What an instance must satisfy.
ModalAssumption ==
    /\ Dialogs \cap Triggers = {} /\ IsFiniteSet(Dialogs)
    /\ {"body", "app", "aside", "notifications"} \cap (Dialogs \cup Triggers) = {}

PageElements == {"app", "aside"}
Elements == PageElements \cup Dialogs
InertByItself == {"aside"}
Focusable == Triggers \cup Dialogs \cup {"body", "notifications"}

VARIABLES
    open,             \* dialogs whose open property is set
    exitTimer,        \* dialogs whose exit animation is running
    focusTimer,       \* dialogs that will take the focus in the next task
    modalStack,       \* the mounted dialogs, in the order they were mounted
    background,       \* dialog -> the elements it locked when mounted
    backgroundLocks,  \* element -> [count, inert]; count 0: no entry
    inert,            \* the elements that are inert now
    overflow,         \* scroll style of the body
    originalOverflow, originalFocus,  \* saved when the first dialog mounts
    previousFocus,    \* dialog -> what had the focus when it was mounted
    focus,            \* what has the focus
    owner,            \* the dialog that owns the notifications, or "body"
    connected,        \* triggers that are in the document
    pageFocus         \* ghost: what the user last focused on the page

modalVars == <<open, exitTimer, focusTimer, modalStack, background, backgroundLocks, inert,
              overflow, originalOverflow, originalFocus, previousFocus, focus, owner,
              connected, pageFocus>>
lockVars == <<modalStack, background, backgroundLocks, inert, overflow, originalOverflow,
              originalFocus, previousFocus, owner>>

Stacked == ToSet(modalStack)
Top == IF modalStack = <<>> THEN "body" ELSE Last(modalStack)
NoLock == [count |-> 0, inert |-> FALSE]

ModalTypeOK ==
    /\ open \subseteq Dialogs /\ exitTimer \subseteq Dialogs /\ focusTimer \subseteq Dialogs
    /\ modalStack \in Seq(Dialogs) /\ IsInjective(modalStack)
    /\ background \in [Dialogs -> SUBSET Elements]
    /\ backgroundLocks \in [Elements -> [count : 0..Cardinality(Dialogs), inert : BOOLEAN]]
    /\ inert \subseteq Elements
    /\ {overflow, originalOverflow} \subseteq {"scroll", "hidden"}
    /\ {focus, originalFocus, pageFocus} \subseteq Focusable
    /\ previousFocus \in [Dialogs -> Focusable]
    /\ owner \in Dialogs \cup {"body"}
    /\ connected \subseteq Triggers

ModalInit ==
    /\ open = {} /\ exitTimer = {} /\ focusTimer = {}
    /\ modalStack = <<>>
    /\ background = [d \in Dialogs |-> {}]
    /\ backgroundLocks = [e \in Elements |-> NoLock]
    /\ inert = InertByItself
    /\ overflow = "scroll" /\ originalOverflow = "scroll"
    /\ originalFocus = "body"
    /\ previousFocus = [d \in Dialogs |-> "body"]
    /\ focus = "body" /\ pageFocus = "body"
    /\ owner = "body"
    /\ connected = Triggers

-----------------------------------------------------------------------------
\* Whether focus() on x has an effect: it is in the document, and the element
\* it is in is not inert.
CanFocus(x, mounted, inerts) ==
    \/ x \in connected /\ "app" \notin inerts
    \/ x \in mounted /\ x \notin inerts
    \/ x = "notifications"

\* BROKEN, for mutation: the saved focus is the one before the last dialog.
SavePageLastFocus ==
    /\ originalOverflow' = IF modalStack = <<>> THEN overflow ELSE originalOverflow
    /\ originalFocus' = focus

\* The first dialog to mount saves the scroll style and the focus.
SavePage ==
    IF modalStack = <<>>
    THEN originalOverflow' = overflow /\ originalFocus' = focus
    ELSE UNCHANGED <<originalOverflow, originalFocus>>

\* Every element of es gets one lock more; the first one records whether it
\* was inert before.
Lock(es) ==
    /\ backgroundLocks' = [e \in Elements |->
          IF e \notin es THEN backgroundLocks[e]
          ELSE IF backgroundLocks[e].count = 0 THEN [count |-> 1, inert |-> e \in inert]
          ELSE [backgroundLocks[e] EXCEPT !.count = @ + 1]]
    /\ inert' = inert \cup es

\* The layout effect of a mounting dialog.
Mount(d) ==
    LET es == (PageElements \cup Stacked) \ {d} IN
    /\ SavePage
    /\ previousFocus' = [previousFocus EXCEPT ![d] = focus]
    /\ owner' = d
    /\ modalStack' = Append(modalStack, d)
    /\ overflow' = "hidden"
    /\ background' = [background EXCEPT ![d] = es]
    /\ Lock(es)
    /\ focusTimer' = focusTimer \cup {d}
    /\ focus' = IF focus = "notifications" THEN focus ELSE "body"  \* it has become inert

\* Every element d locked loses a lock; with the last one it becomes what it
\* was before.  The root of d leaves the document.
Unlock(d) ==
    LET Freed(e) == e \in background[d] /\ backgroundLocks[e].count = 1 IN
    /\ backgroundLocks' = [e \in Elements |->
          IF e = d \/ Freed(e) THEN NoLock
          ELSE IF e \in background[d] THEN [backgroundLocks[e] EXCEPT !.count = @ - 1]
          ELSE backgroundLocks[e]]
    /\ inert' = {e \in inert : e # d /\ (Freed(e) => backgroundLocks[e].inert)}

\* The dialog that owns the notifications once d has left: the next one on
\* the stack, if d was its top.
OwnerAfter(d, rest) ==
    IF Top = d THEN (IF rest = <<>> THEN "body" ELSE Last(rest))
    ELSE IF owner = d THEN "body" ELSE owner

stackIndex(d) == CHOOSE i \in DOMAIN modalStack : modalStack[i] = d

\* The cleanup of the layout effect: d leaves the stack, wherever it is in it.
\* No focus can be returned into the root of d afterwards.
Cleanup(d) ==
    LET rest == RemoveAt(modalStack, stackIndex(d))
        lost == IF focus = d THEN "body" ELSE focus
        back == IF rest = <<>> THEN originalFocus
                ELSE IF Top = d THEN previousFocus[d] ELSE lost
    IN
    /\ focusTimer' = focusTimer \ {d}
    /\ modalStack' = rest
    /\ owner' = OwnerAfter(d, rest)
    /\ Unlock(d)
    /\ background' = [x \in Dialogs |-> IF x = d THEN {} ELSE background[x] \ {d}]
    /\ overflow' = IF rest = <<>> THEN originalOverflow ELSE overflow
    /\ focus' = IF CanFocus(back, ToSet(rest), inert') THEN back ELSE lost
    /\ originalFocus' = IF rest = <<>> THEN "body" ELSE originalFocus
    /\ previousFocus' = [x \in Dialogs |-> IF x = d \/ previousFocus[x] = d THEN "body"
                                           ELSE previousFocus[x]]
    /\ UNCHANGED originalOverflow

-----------------------------------------------------------------------------

\* The owner of a dialog sets its open property.  During the exit animation
\* the dialog is still mounted and just stays.
Open(d) ==
    /\ d \notin open
    /\ open' = open \cup {d}
    /\ exitTimer' = exitTimer \ {d}
    /\ IF d \in Stacked
       THEN UNCHANGED <<lockVars, focusTimer, focus>>
       ELSE Mount(d)
    /\ UNCHANGED <<connected, pageFocus>>

\* The owner resets open, by itself or in onClose: the exit begins.
Close(d) ==
    /\ d \in open
    /\ open' = open \ {d}
    /\ exitTimer' = exitTimer \cup {d}
    /\ UNCHANGED <<lockVars, focusTimer, focus, connected, pageFocus>>

\* Escape or a click on the backdrop, of the dialog on top and not while it
\* is leaving.
Dismiss(d) ==
    /\ Top = d /\ focus # "notifications"
    /\ Close(d)

\* The exit timer fires.
Exit(d) ==
    /\ d \in exitTimer
    /\ exitTimer' = exitTimer \ {d}
    /\ Cleanup(d)
    /\ UNCHANGED <<open, connected, pageFocus>>

\* The page that shows the dialog is unmounted.
Unmount(d) ==
    /\ d \in Stacked
    /\ open' = open \ {d}
    /\ exitTimer' = exitTimer \ {d}
    /\ Cleanup(d)
    /\ UNCHANGED <<connected, pageFocus>>

\* The initial focus of a dialog, in the task after its mount.
TakeFocus(d) ==
    /\ d \in focusTimer
    /\ focusTimer' = focusTimer \ {d}
    /\ focus' = IF CanFocus(d, Stacked, inert) THEN d ELSE focus
    /\ UNCHANGED <<open, exitTimer, lockVars, connected, pageFocus>>

\* Tab: the focus cycles through the dialog on top and the notifications.
Tab ==
    /\ modalStack # <<>>
    /\ focus' \in {Top, "notifications"}
    /\ UNCHANGED <<open, exitTimer, focusTimer, lockVars, connected, pageFocus>>

\* The user focuses something on the page, where the page is not inert.
FocusPage(t) ==
    /\ "app" \notin inert /\ t \in connected
    /\ focus' = t /\ pageFocus' = t
    /\ UNCHANGED <<open, exitTimer, focusTimer, lockVars, connected>>

\* What opened the dialog disappears, e.g. the row that was deleted.
Disconnect(t) ==
    /\ t \in connected
    /\ connected' = connected \ {t}
    /\ focus' = IF focus = t THEN "body" ELSE focus
    /\ pageFocus' = IF pageFocus = t THEN "body" ELSE pageFocus
    /\ UNCHANGED <<open, exitTimer, focusTimer, lockVars>>

ModalNext ==
    \/ \E d \in Dialogs : Open(d)
    \/ \E d \in Dialogs : Close(d)
    \/ \E d \in Dialogs : Dismiss(d)
    \/ \E d \in Dialogs : Exit(d)
    \/ \E d \in Dialogs : Unmount(d)
    \/ \E d \in Dialogs : TakeFocus(d)
    \/ Tab
    \/ \E t \in Triggers : FocusPage(t)
    \/ \E t \in Triggers : Disconnect(t)

ModalSpec == ModalInit /\ [][ModalNext]_modalVars

-----------------------------------------------------------------------------
(* Properties.                                                             *)

\* When the last dialog has left, in whatever order, the page is as it was:
\* only what was inert by itself is inert, nothing is locked, it scrolls.
PageIsRestored ==
    modalStack = <<>> =>
        /\ inert = InertByItself
        /\ \A e \in Elements : backgroundLocks[e].count = 0
        /\ overflow = "scroll"

\* While dialogs are mounted the one on top is the only element of the body
\* the user can reach, also while others are leaving below or above it.
OnlyTopIsReachable ==
    modalStack # <<>> =>
        /\ PageElements \cup (Stacked \ {Top}) \subseteq inert
        /\ Top \notin inert
        /\ overflow = "hidden"

\* A lock stands for a dialog that is mounted above the element.
LocksAreCounted ==
    \A e \in Elements :
        backgroundLocks[e].count = Cardinality({d \in Stacked : e \in background[d]})

\* The notifications belong to the dialog on top.
TopOwnsNotifications == owner = Top

\* After the last dialog the focus is back where the user had put it.
FocusReturnsToThePage ==
    modalStack = <<>> /\ focus # "notifications" => focus = pageFocus

\* A dialog that is open is on the screen: an exit animation that was
\* interrupted by reopening it does not remove it later.
OpenIsShown == open \subseteq Stacked

\* Whatever the order in which dialogs open and leave: the one on top is all
\* the user can reach and owns the notifications, an open one is shown, and
\* after the last the page and its focus are as they were.
ModalsAreSound ==
    /\ PageIsRestored /\ OnlyTopIsReachable /\ LocksAreCounted
    /\ TopOwnsNotifications /\ FocusReturnsToThePage /\ OpenIsShown

=============================================================================
