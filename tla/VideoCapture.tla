---------------------------- MODULE VideoCapture ----------------------------
(***************************************************************************)
(* Eos.Items VideoCapture (src/Eos/Items/src/videocapture.cpp): shows the  *)
(* frames of the platform's video texture service (VT) as textures.        *)
(*                                                                         *)
(* Two threads: the GUI thread, which takes the queued calls of initialize,*)
(* enabledChanged and acquireVideoTexture in order, and the thread of VT,  *)
(* which runs OnEvent without the mutex.  updatePaintNode runs while the   *)
(* GUI thread is blocked or on it, so it is one step.  The three handlers  *)
(* hold the mutex, and no other thread takes it.  GL hands out the name of *)
(* a deleted texture again.                                                *)
(***************************************************************************)
EXTENDS Naturals, Sequences, FiniteSets

CONSTANTS
    Textures,     \* names of GL textures
    None,         \* 0 as a texture name, NULL as a texture
    MaxToggles,   \* bound: changes of `enabled'
    MaxFrames,    \* bound: VT_AVAILABLE events
    MaxQueue      \* bound: queued calls at which the item is not painted again

ASSUME NoneAssumption == None \notin Textures
ASSUME BoundsAssumption ==
    MaxToggles \in Nat /\ MaxFrames \in Nat /\ MaxQueue \in Nat

VARIABLES
    enabled,            \* QQuickItem::isEnabled()
    queue,              \* calls queued for the GUI thread
    m_initialized,
    m_isVTAvailable,
    currentTextureId,
    nextTextureId,
    currentTexture,     \* the texture that currentTexture wraps
    node,               \* the texture of the scene graph's node, None: no texture
    live,               \* textures that VT generated and did not delete
    inEvent,            \* is OnEvent between its two statements?
    toggles, frames     \* changes and events so far

vars == << enabled, queue, m_initialized, m_isVTAvailable, currentTextureId,
           nextTextureId, currentTexture, node, live, inEvent, toggles, frames >>

textures == << currentTextureId, nextTextureId, currentTexture, live >>

Calls == {"initialize", "enabledChanged", "acquireVideoTexture"}

VideoTypeOK ==
    /\ enabled \in BOOLEAN /\ m_initialized \in BOOLEAN
    /\ m_isVTAvailable \in BOOLEAN /\ inEvent \in BOOLEAN
    /\ queue \in Seq(Calls)
    /\ {currentTextureId, nextTextureId, currentTexture, node}
            \subseteq Textures \cup {None}
    /\ live \subseteq Textures
    /\ toggles \in 0 .. MaxToggles /\ frames \in 0 .. MaxFrames

Init ==
    /\ enabled = TRUE
    /\ queue = << >>
    /\ m_initialized = FALSE /\ m_isVTAvailable = FALSE
    /\ currentTextureId = None /\ nextTextureId = None /\ currentTexture = None
    /\ node = None
    /\ live = {}
    /\ inEvent = FALSE
    /\ toggles = 0 /\ frames = 0

Takes(call) == queue # << >> /\ Head(queue) = call /\ queue' = Tail(queue)

----------------------------------------------------------------------------
(***************************************************************************)
(* The VT service's thread                                                 *)
(***************************************************************************)

\* OnEvent(VT_AVAILABLE): the call is queued first.  An event may be on its way
\* when the handler is unregistered.
EventEmits ==
    /\ m_initialized /\ ~inEvent
    /\ frames < MaxFrames
    /\ frames' = frames + 1
    /\ queue' = Append(queue, "acquireVideoTexture")
    /\ inEvent' = TRUE
    /\ UNCHANGED << enabled, m_initialized, m_isVTAvailable, textures, node, toggles >>

\* ... and the flag is set next.
EventSetsFlag ==
    /\ inEvent
    /\ inEvent' = FALSE
    /\ m_isVTAvailable' = TRUE
    /\ UNCHANGED << enabled, queue, m_initialized, textures, node, toggles, frames >>

----------------------------------------------------------------------------
(***************************************************************************)
(* The GUI thread                                                          *)
(***************************************************************************)

\* QML sets enabled.
SetEnabled ==
    /\ toggles < MaxToggles
    /\ toggles' = toggles + 1
    /\ enabled' = ~enabled
    /\ queue' = Append(queue, "enabledChanged")
    /\ UNCHANGED << m_initialized, m_isVTAvailable, textures, node, inEvent, frames >>

\* initialize(): any call of VT may fail, and what was acquired is released.
Initialize ==
    /\ m_initialized' = TRUE \/ UNCHANGED m_initialized
    /\ UNCHANGED << m_isVTAvailable, textures >>

\* What terminate() deletes; the node shows the name of a deleted texture until
\* the item is painted again.
Deleted == {currentTextureId, nextTextureId, currentTexture}

Terminate ==
    IF ~m_initialized
    THEN UNCHANGED << m_initialized, m_isVTAvailable, textures >>
    ELSE /\ live' = live \ Deleted
         /\ currentTextureId' = IF currentTextureId \in live THEN None
                                                             ELSE currentTextureId
         /\ nextTextureId' = IF nextTextureId \in live THEN None ELSE nextTextureId
         /\ currentTexture' = IF currentTexture \in live THEN None ELSE currentTexture
         /\ m_initialized' = FALSE
         /\ m_isVTAvailable' = FALSE

CallInitialize ==
    /\ Takes("initialize")
    /\ Initialize
    /\ UNCHANGED << enabled, node, inEvent, toggles, frames >>

EnabledChanged ==
    /\ Takes("enabledChanged")
    /\ IF enabled THEN Initialize ELSE Terminate
    /\ UNCHANGED << enabled, node, inEvent, toggles, frames >>

\* Mutant: makes room by deleting the texture that is shown.
ReplacedCurrent == {currentTextureId} \ {None}

\* The texture that gives way to the new frame, unless it is the one shown.
Replaced == {nextTextureId} \ {None, currentTexture}

AcquireVideoTexture ==
    /\ Takes("acquireVideoTexture")
    /\ IF ~(m_isVTAvailable /\ m_initialized)
       THEN UNCHANGED << m_isVTAvailable, textures >>
       ELSE /\ m_isVTAvailable' = FALSE
            /\ \/ nextTextureId' = None /\ live' = live \ Replaced   \* not VT_OK
               \/ \E t \in Textures \ (live \ Replaced) :
                    nextTextureId' = t /\ live' = (live \ Replaced) \cup {t}
            /\ UNCHANGED << currentTextureId, currentTexture >>
    /\ UNCHANGED << enabled, m_initialized, node, inEvent, toggles, frames >>

----------------------------------------------------------------------------
(***************************************************************************)
(* updatePaintNode                                                         *)
(***************************************************************************)

\* Mutant: asks for initialize() whether the item is enabled or not.
PaintAsksAlways ==
    /\ ~m_initialized
    /\ Len(queue) < MaxQueue
    /\ queue' = Append(queue, "initialize")
    /\ UNCHANGED << enabled, m_initialized, m_isVTAvailable, textures, node,
                    inEvent, toggles, frames >>

\* The item is not initialized: the node stays and initialize() is queued.
PaintAsks ==
    /\ enabled /\ ~m_initialized
    /\ Len(queue) < MaxQueue
    /\ queue' = Append(queue, "initialize")
    /\ UNCHANGED << enabled, m_initialized, m_isVTAvailable, textures, node,
                    inEvent, toggles, frames >>

\* Mutant: the two textures are not swapped.
ShowsNextOnly ==
    /\ currentTexture' = nextTextureId
    /\ UNCHANGED << currentTextureId, nextTextureId >>

\* A new frame: it is wrapped in currentTexture, and the two textures swap.
ShowsNext ==
    /\ currentTexture' = nextTextureId
    /\ currentTextureId' = nextTextureId
    /\ nextTextureId' = currentTextureId

HasNext == nextTextureId \in live /\ nextTextureId # currentTexture
HasCurrent == currentTextureId \in live /\ currentTextureId # currentTexture

\* The node shows currentTexture, or a transparent hole when there is none.
PaintShows ==
    /\ enabled /\ m_initialized
    /\ \/ HasNext /\ ShowsNext
       \/ /\ ~HasNext
          /\ currentTexture' = IF HasCurrent THEN currentTextureId ELSE currentTexture
          /\ UNCHANGED << currentTextureId, nextTextureId >>
    /\ node' = currentTexture'
    /\ UNCHANGED << enabled, queue, m_initialized, m_isVTAvailable, live, inEvent,
                    toggles, frames >>

Next ==
    \/ EventEmits \/ EventSetsFlag
    \/ SetEnabled \/ CallInitialize \/ EnabledChanged \/ AcquireVideoTexture
    \/ PaintAsks \/ PaintShows

Spec == Init /\ [][Next]_vars

----------------------------------------------------------------------------
(***************************************************************************)
(* Properties                                                              *)
(***************************************************************************)

\* Once every change of `enabled' is handled, a disabled item holds nothing of VT,
\* whatever initialize() calls and frames were queued before (videocapture.cpp:187).
DisabledHoldsNothing ==
    ~enabled /\ (\A i \in DOMAIN queue : queue[i] # "enabledChanged") =>
        ~m_initialized /\ live = {}

\* A capturing item never deletes the texture that its node shows, and shows no
\* name that GL has given to something else (videocapture.cpp:211-222, 259-316).
ShownTextureIsLive ==
    m_initialized /\ currentTexture # None =>
        currentTexture \in live /\ node = currentTexture

\* No texture is lost: the item still knows each one that is not deleted, through
\* frames that come faster than they are shown, failures and terminate().
NoTextureLeaks == live \subseteq {currentTextureId, nextTextureId, currentTexture}
=============================================================================
