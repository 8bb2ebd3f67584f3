------------------------- MODULE VideoCaptureProofs -------------------------
(***************************************************************************)
(* The invariants of VideoCapture, for any set of texture names and any    *)
(* number of frames and changes of `enabled'.                              *)
(***************************************************************************)
EXTENDS VideoCapture, TLAPS

\* The textures.  currentTexture always wraps currentTextureId: the branch of
\* updatePaintNode that falls back to currentTextureId is never taken.
TextureInv ==
    /\ m_initialized \in BOOLEAN
    /\ currentTexture = currentTextureId
    /\ currentTexture # None => currentTexture \in live /\ node = currentTexture
    /\ nextTextureId # None => nextTextureId \in live \ {currentTexture}
    /\ NoTextureLeaks
    /\ ~m_initialized => live = {}
    /\ None \notin live

\* Of a disabled item, a call that initializes and one that is done are both
\* followed by a call of enabledChanged.
QueueInv ==
    /\ queue \in Seq(Calls)
    /\ ~enabled =>
        /\ m_initialized => \E i \in 1 .. Len(queue) : queue[i] = "enabledChanged"
        /\ \A j \in 1 .. Len(queue) : queue[j] = "initialize" =>
              \E i \in j + 1 .. Len(queue) : queue[i] = "enabledChanged"

----------------------------------------------------------------------------
\* Type correctness (the members in videocapture.h:59-67).
THEOREM VideoTypeCorrect == Spec => []VideoTypeOK
<1>1. Init => VideoTypeOK
  <2>1. << >> \in Seq(Calls) /\ 0 \in 0 .. MaxToggles /\ 0 \in 0 .. MaxFrames
    BY BoundsAssumption
  <2> QED
    BY <2>1 DEF Init, VideoTypeOK
<1>2. VideoTypeOK /\ [Next]_vars => VideoTypeOK'
  <2> SUFFICES ASSUME VideoTypeOK, [Next]_vars PROVE VideoTypeOK'
    OBVIOUS
  <2> USE BoundsAssumption DEF VideoTypeOK
  <2>1. CASE EventEmits
    BY <2>1 DEF EventEmits, textures, Calls
  <2>2. CASE EventSetsFlag
    BY <2>2 DEF EventSetsFlag, textures
  <2>3. CASE SetEnabled
    BY <2>3 DEF SetEnabled, textures, Calls
  <2>4. ASSUME NEW call, Takes(call) PROVE queue' \in Seq(Calls)
    BY <2>4 DEF Takes
  <2>5. CASE CallInitialize
    <3>1. m_initialized' = TRUE \/ m_initialized' = m_initialized
      BY <2>5 DEF CallInitialize, Initialize
    <3>2. m_initialized' \in BOOLEAN
      BY <3>1
    <3> QED
      BY <2>4, <2>5, <3>2 DEF CallInitialize, Initialize, textures
  <2>6. CASE EnabledChanged
    <3>1. /\ m_initialized' \in {TRUE, FALSE, m_initialized}
          /\ m_isVTAvailable' \in {FALSE, m_isVTAvailable}
      BY <2>6 DEF EnabledChanged, Initialize, Terminate
    <3>2. m_initialized' \in BOOLEAN /\ m_isVTAvailable' \in BOOLEAN
      BY <3>1
    <3>3. /\ {currentTextureId', nextTextureId', currentTexture'}
                \subseteq Textures \cup {None}
          /\ live' \subseteq Textures
      BY <2>6 DEF EnabledChanged, Initialize, Terminate, textures
    <3> QED
      BY <2>4, <2>6, <3>2, <3>3 DEF EnabledChanged
  <2>7. CASE AcquireVideoTexture
    <3>1. nextTextureId' \in Textures \cup {None} /\ live' \subseteq Textures
      BY <2>7 DEF AcquireVideoTexture, textures
    <3>2. m_isVTAvailable' \in BOOLEAN
      BY <2>7 DEF AcquireVideoTexture
    <3> QED
      BY <2>4, <2>7, <3>1, <3>2 DEF AcquireVideoTexture, textures
  <2>8. CASE PaintAsks
    BY <2>8 DEF PaintAsks, textures, Calls
  <2>9. CASE PaintShows
    BY <2>9 DEF PaintShows, ShowsNext
  <2>10. CASE UNCHANGED vars
    BY <2>10 DEF vars, textures
  <2> QED
    BY <2>1, <2>2, <2>3, <2>5, <2>6, <2>7, <2>8, <2>9, <2>10 DEF Next
<1> QED
  BY <1>1, <1>2, PTL DEF Spec

----------------------------------------------------------------------------
\* Every step keeps the relation of the textures to the node.
LEMMA TextureStep == TextureInv /\ [Next]_vars => TextureInv'
<1> SUFFICES ASSUME TextureInv, [Next]_vars PROVE TextureInv'
  OBVIOUS
<1> USE NoneAssumption DEF TextureInv, NoTextureLeaks
<1>1. CASE EventEmits \/ EventSetsFlag \/ SetEnabled \/ PaintAsks \/ UNCHANGED vars
  BY <1>1 DEF EventEmits, EventSetsFlag, SetEnabled, PaintAsks, vars, textures
<1>2. CASE CallInitialize
  <2>1. m_initialized' \in BOOLEAN /\ (~m_initialized' => ~m_initialized)
    <3>1. m_initialized' = TRUE \/ m_initialized' = m_initialized
      BY <1>2 DEF CallInitialize, Initialize
    <3> QED
      BY <3>1, Zenon
  <2>2. UNCHANGED << currentTextureId, nextTextureId, currentTexture, live, node >>
    BY <1>2 DEF CallInitialize, Initialize, textures
  <2> QED
    BY <2>1, <2>2
<1>3. CASE EnabledChanged
  <2>1. CASE enabled
    <3>1. m_initialized' \in BOOLEAN /\ (~m_initialized' => ~m_initialized)
      BY <1>3, <2>1 DEF EnabledChanged, Initialize
    <3> QED
      BY <1>3, <2>1, <3>1 DEF EnabledChanged, Initialize, textures
  <2>2. CASE ~enabled
    BY <1>3, <2>2 DEF EnabledChanged, Terminate, Deleted, textures
  <2> QED
    BY <2>1, <2>2
<1>4. CASE AcquireVideoTexture
  BY <1>4 DEF AcquireVideoTexture, Replaced, textures
<1>5. CASE PaintShows
  BY <1>5 DEF PaintShows, HasNext, HasCurrent, ShowsNext
<1> QED
  BY <1>1, <1>2, <1>3, <1>4, <1>5 DEF Next

\* Taking the head of the queue moves every other call one place forward.
LEMMA TailShifts ==
    ASSUME NEW q \in Seq(Calls), q # << >>
    PROVE  /\ Tail(q) \in Seq(Calls)
           /\ Len(q) \in Nat \ {0}
           /\ Len(Tail(q)) = Len(q) - 1
           /\ \A i \in 1 .. Len(Tail(q)) : Tail(q)[i] = q[i + 1]
           /\ Head(q) = q[1]
  OBVIOUS

\* Every step keeps the order of the queued calls.
LEMMA QueueStep == QueueInv /\ [Next]_vars => QueueInv'
<1> SUFFICES ASSUME QueueInv, [Next]_vars PROVE QueueInv'
  OBVIOUS
<1> DEFINE Shifted(call) ==
      /\ queue # << >> /\ Head(queue) = call /\ queue' = Tail(queue)
      /\ Tail(queue) \in Seq(Calls)
      /\ Len(queue) \in Nat \ {0}
      /\ Len(queue') = Len(queue) - 1
      /\ \A i \in 1 .. Len(queue') : queue'[i] = queue[i + 1]
      /\ queue[1] = call
<1>a. ASSUME NEW call, Takes(call) PROVE Shifted(call)
  BY <1>a, TailShifts DEF Takes, QueueInv
<1>b. ASSUME NEW call, Shifted(call), ~enabled
      PROVE  \A j \in 1 .. Len(queue') : queue'[j] = "initialize" =>
                \E i \in j + 1 .. Len(queue') : queue'[i] = "enabledChanged"
  <2> SUFFICES ASSUME NEW j \in 1 .. Len(queue'), queue'[j] = "initialize"
               PROVE  \E i \in j + 1 .. Len(queue') : queue'[i] = "enabledChanged"
    OBVIOUS
  <2>1. j + 1 \in 1 .. Len(queue) /\ queue[j + 1] = "initialize"
    BY <1>b
  <2>2. PICK i \in j + 2 .. Len(queue) : queue[i] = "enabledChanged"
    BY <1>b, <2>1 DEF QueueInv
  <2>3. i - 1 \in j + 1 .. Len(queue') /\ queue'[i - 1] = queue[i]
    BY <1>b
  <2> QED
    BY <2>2, <2>3
<1>1. CASE EventSetsFlag \/ PaintShows \/ UNCHANGED vars
  BY <1>1 DEF QueueInv, EventSetsFlag, PaintShows, vars
<1>2. CASE EventEmits
  BY <1>2 DEF QueueInv, EventEmits, Calls
<1>3. CASE SetEnabled
  BY <1>3 DEF QueueInv, SetEnabled, Calls
<1>4. CASE PaintAsks
  BY <1>4 DEF QueueInv, PaintAsks, Calls
<1>5. CASE CallInitialize
  <2>1. Shifted("initialize") /\ enabled' = enabled
    BY <1>5, <1>a DEF CallInitialize
  <2>2. ASSUME ~enabled PROVE \E i \in 1 .. Len(queue') : queue'[i] = "enabledChanged"
    <3>1. PICK i \in 2 .. Len(queue) : queue[i] = "enabledChanged"
      BY <2>1, <2>2 DEF QueueInv
    <3>2. i - 1 \in 1 .. Len(queue') /\ queue'[i - 1] = queue[i]
      BY <2>1
    <3> QED
      BY <3>1, <3>2
  <2> QED
    BY <2>1, <2>2, <1>b DEF QueueInv
<1>6. CASE EnabledChanged
  <2>1. Shifted("enabledChanged") /\ enabled' = enabled
    BY <1>6, <1>a DEF EnabledChanged
  <2>2. ~enabled => ~m_initialized'
    BY <1>6 DEF EnabledChanged, Terminate
  <2> QED
    BY <2>1, <2>2, <1>b DEF QueueInv
<1>7. CASE AcquireVideoTexture
  <2>1. Shifted("acquireVideoTexture") /\ enabled' = enabled
          /\ m_initialized' = m_initialized
    BY <1>7, <1>a DEF AcquireVideoTexture
  <2>2. ASSUME ~enabled, m_initialized
        PROVE  \E i \in 1 .. Len(queue') : queue'[i] = "enabledChanged"
    <3>1. PICK i \in 1 .. Len(queue) : queue[i] = "enabledChanged"
      BY <2>2 DEF QueueInv
    <3>2. i - 1 \in 1 .. Len(queue') /\ queue'[i - 1] = queue[i]
      BY <2>1, <3>1
    <3> QED
      BY <3>1, <3>2
  <2> QED
    BY <2>1, <2>2, <1>b DEF QueueInv
<1> QED
  BY <1>1, <1>2, <1>3, <1>4, <1>5, <1>6, <1>7 DEF Next

----------------------------------------------------------------------------
\* A capturing item never deletes the texture its node shows
\* (videocapture.cpp:211-222, 259-316).
THEOREM ShownTextureStaysLive == Spec => []ShownTextureIsLive
<1>1. Init => TextureInv
  BY DEF Init, TextureInv, NoTextureLeaks
<1>2. TextureInv => ShownTextureIsLive
  BY DEF TextureInv, ShownTextureIsLive
<1> QED
  BY <1>1, <1>2, TextureStep, PTL DEF Spec

\* Every texture that is not deleted is still known (videocapture.cpp:101-149).
THEOREM TexturesNeverLeak == Spec => []NoTextureLeaks
<1>1. Init => TextureInv
  BY DEF Init, TextureInv, NoTextureLeaks
<1>2. TextureInv => NoTextureLeaks
  BY DEF TextureInv
<1> QED
  BY <1>1, <1>2, TextureStep, PTL DEF Spec

\* A disabled item has released VT once its queue holds no change of enabled
\* (videocapture.cpp:187-194, 239-241).
THEOREM DisabledReleases == Spec => []DisabledHoldsNothing
<1>1. Init => TextureInv /\ QueueInv
  <2>1. Init => TextureInv
    BY DEF Init, TextureInv, NoTextureLeaks
  <2>2. << >> \in Seq(Calls)
    OBVIOUS
  <2> QED
    BY <2>1, <2>2 DEF Init, QueueInv
<1>2. TextureInv /\ QueueInv => DisabledHoldsNothing
  BY DEF TextureInv, QueueInv, DisabledHoldsNothing
<1> QED
  BY <1>1, <1>2, TextureStep, QueueStep, PTL DEF Spec
=============================================================================
