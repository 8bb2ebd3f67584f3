----------------------------- MODULE QuickWindow -----------------------------
(***************************************************************************)
(* WebOSQuickWindow (src/common/webosquickwindow.cpp): what a window is    *)
(* asked to tell its shell surface before it is shown, while it is shown   *)
(* and while it is hidden again.                                           *)
(*                                                                         *)
(* A slot is one thing the surface is told.  Window properties (title,     *)
(* type, appId, parameters, ...), the location hint and the addon wait in  *)
(* m_pending... while the window is hidden.  The key mask and the input    *)
(* region are kept in members and sent whenever there is a surface.  Unset *)
(* is the value that is not sent: no pending property,                     *)
(* LocationHintUndefined, an empty addon, KeyMaskDefault, no region.       *)
(***************************************************************************)
EXTENDS Naturals

CONSTANTS
    Properties,    \* window properties
    Hint, Addon,   \* the slots of the location hint and of the addon
    KeyMask, InputRegion,
    Values, Unset,
    PlatformDrops, \* may the platform drop the surface of a hidden window?
    MaxChanges,    \* bound: changes asked for
    MaxShows       \* bound: times the window is shown

Waiting == Properties \cup {Hint, Addon}
Members == {KeyMask, InputRegion}
Slots   == Waiting \cup Members

ASSUME SlotsAssumption ==
    /\ Hint \notin Properties /\ Addon \notin Properties /\ Hint # Addon
    /\ Waiting \cap Members = {} /\ KeyMask # InputRegion
ASSUME PlatformAssumption == PlatformDrops \in BOOLEAN
ASSUME ValuesAssumption == Unset \notin Values
ASSUME BoundsAssumption == MaxChanges \in Nat /\ MaxShows \in Nat

VARIABLES
    visible,      \* QWindow::isVisible()
    asked,        \* [Slots -> value asked for last], m_windowProperties and members
    pending,      \* m_pendingProperties, m_pendingLocationHint, m_pendingAddon
    exists,       \* is there a WebOSShellSurface for the window?
    surface,      \* [Slots -> what the surface was told last]
    askedHidden,  \* slots whose value was asked for while the window was hidden
    changes, shows

vars == << visible, asked, pending, exists, surface, askedHidden, changes, shows >>

WindowTypeOK ==
    /\ visible \in BOOLEAN /\ exists \in BOOLEAN
    /\ asked \in [Slots -> Values \cup {Unset}]
    /\ pending \in [Waiting -> Values \cup {Unset}]
    /\ surface \in [Slots -> Values \cup {Unset}]
    /\ askedHidden \subseteq Waiting
    /\ changes \in 0 .. MaxChanges /\ shows \in 0 .. MaxShows

Nothing == [s \in Slots |-> Unset]

\* The constructor creates the platform window; whether the shell surface exists
\* before the window is shown is up to the platform.
Init ==
    /\ visible = FALSE
    /\ asked = Nothing /\ surface = Nothing
    /\ pending = [s \in Waiting |-> Unset]
    /\ exists \in BOOLEAN
    /\ askedHidden = {}
    /\ changes = 0 /\ shows = 0

Changes == changes < MaxChanges /\ changes' = changes + 1

Asks(slot, value) ==
    /\ asked' = [asked EXCEPT ![slot] = value]
    /\ askedHidden' = IF visible THEN askedHidden \ {slot}
                                 ELSE askedHidden \cup {slot}

----------------------------------------------------------------------------
\* setTitle() and its like, and writes to windowProperties: only a value that
\* differs is passed on.
MayAsk(slot, value) ==
    \/ slot \in Properties /\ value \in Values /\ value # asked[slot]
    \/ slot \in {Hint, Addon} /\ value \in Values \cup {Unset}

\* Mutant: a window that was shown once has its surface told, hidden or not.
SetOnSurface(slot, value) ==
    /\ Changes
    /\ MayAsk(slot, value)
    /\ Asks(slot, value)
    /\ IF exists /\ shows > 0
       THEN surface' = [surface EXCEPT ![slot] = value] /\ UNCHANGED pending
       ELSE pending' = [pending EXCEPT ![slot] = value] /\ UNCHANGED surface
    /\ UNCHANGED << visible, exists, shows >>

\* setWindowProperty(), setLocationHint(), setAddon()
Set(slot, value) ==
    /\ Changes
    /\ MayAsk(slot, value)
    /\ Asks(slot, value)
    /\ IF exists /\ visible
       THEN surface' = [surface EXCEPT ![slot] = value] /\ UNCHANGED pending
       ELSE pending' = [pending EXCEPT ![slot] = value] /\ UNCHANGED surface
    /\ UNCHANGED << visible, exists, shows >>

\* resetAddon(): without a surface nothing happens, and an addon that waits is
\* set when the window is shown.
ResetAddon ==
    /\ Changes
    /\ Asks(Addon, Unset)
    /\ IF exists
       THEN /\ surface' = [surface EXCEPT ![Addon] = Unset]
            /\ pending' = [pending EXCEPT ![Addon] = Unset]
       ELSE UNCHANGED << surface, pending >>
    /\ UNCHANGED << visible, exists, shows >>

\* Mutant: waits for the next show, as the other setters do.
SetMemberShown(slot, value) ==
    /\ Changes
    /\ asked' = [asked EXCEPT ![slot] = value]
    /\ surface' = IF exists /\ visible THEN [surface EXCEPT ![slot] = value] ELSE surface
    /\ UNCHANGED << visible, pending, exists, askedHidden, shows >>

\* setKeyMask(), setInputRegion(); a null region is ignored.
SetMember(slot, value) ==
    /\ Changes
    /\ slot = InputRegion => value # Unset
    /\ asked' = [asked EXCEPT ![slot] = value]
    /\ surface' = IF exists THEN [surface EXCEPT ![slot] = value] ELSE surface
    /\ UNCHANGED << visible, pending, exists, askedHidden, shows >>

----------------------------------------------------------------------------
\* What updatePendingWindowProperties() tells a surface that knows `known'.
Told(known) ==
    [s \in Slots |-> LET sent == IF s \in Waiting THEN pending[s] ELSE asked[s]
                     IN  IF sent = Unset THEN known[s] ELSE sent]

\* The window is shown, again perhaps: the platform has the surface that it kept
\* or a new one, and visibleChanged sends it everything that waits.  Nothing of
\* what waits is forgotten afterwards.  Expose events send the region again.
Show ==
    /\ ~visible /\ shows < MaxShows
    /\ visible' = TRUE
    /\ shows' = shows + 1
    /\ exists' = TRUE
    /\ surface' = Told(IF exists THEN surface ELSE Nothing)
    /\ UNCHANGED << asked, pending, askedHidden, changes >>

\* hide(), from QML or as the answer to a close event of a keepAlive window: the
\* platform keeps the surface or drops it.
Hide ==
    /\ visible
    /\ visible' = FALSE
    /\ \/ UNCHANGED << exists, surface >>
       \/ PlatformDrops /\ exists' = FALSE /\ surface' = Nothing
    /\ UNCHANGED << asked, pending, askedHidden, changes, shows >>

Next ==
    \/ \E slot \in Waiting, value \in Values \cup {Unset} : Set(slot, value)
    \/ ResetAddon
    \/ \E slot \in Members, value \in Values \cup {Unset} : SetMember(slot, value)
    \/ Show \/ Hide

Spec == Init /\ [][Next]_vars

----------------------------------------------------------------------------
(***************************************************************************)
(* Properties                                                              *)
(***************************************************************************)

\* What was asked for last while the window was hidden is what the shown surface
\* has, however often the window is shown and whichever surface it gets
\* (webosquickwindow.cpp:390-438).
AskedHiddenIsShown ==
    visible => \A s \in askedHidden : asked[s] # Unset => surface[s] = asked[s]

\* The key mask and the input region of a shown window are those asked for last,
\* also when they went back to the default (webosquickwindow.cpp:416-424, 440-469).
MembersAreShown == visible => \A s \in Members : surface[s] = asked[s]

\* "The properties cannot be set prior the platform window being set visible"
\* (webosquickwindow.h:208) is what m_pendingProperties is for: a shown window has
\* told its surface the properties it has.  This fails when the window is shown
\* again: the properties of before the first show are sent once more.
SurfaceShowsProperties == visible => \A s \in Properties : surface[s] = asked[s]
=============================================================================
