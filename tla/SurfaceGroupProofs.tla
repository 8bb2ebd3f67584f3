------------------------- MODULE SurfaceGroupProofs --------------------------
(***************************************************************************)
(* The window of a surface group is a QuickWindow whatever the group does; *)
(* the client's and the owner's invariants, for any names, z and bounds.   *)
(***************************************************************************)
EXTENDS SurfaceGroup, TLAPS

\* A step of the composition is a step of the window, or leaves it alone.
LEMMA WindowStepOrNot ==
    GroupNext => Next \/ UNCHANGED vars
<1>1. WindowShows \/ WindowHides \/ WindowChanges => Next
      BY DEF WindowShows, WindowHides, WindowChanges, Next
<1>2. ComponentComplete \/ Destroy \/ BecomesAvailable => UNCHANGED vars
      BY DEF ComponentComplete, Destroy, BecomesAvailable, vars
<1>3. LaterChanges => UNCHANGED vars
      BY DEF LaterChanges, SetWebOSWindow, SetGroupName, SetAllowAnonymous, SetLayerName,
             AddLayer, TakenElsewhere, SurfaceComesOrGoes, SetZ, Sets, vars
<1> QED  BY <1>1, <1>2, <1>3 DEF GroupNext

\* The composition implements the window's specification, so what is proved of
\* QuickWindow holds of it (webosquickwindow.cpp:390-438 runs before the slots of the
\* surface group).
THEOREM GroupImplementsWindow == GroupSpec => Spec
<1>1. GroupInit => Init
      BY DEF GroupInit
<1>2. [GroupNext]_<< vars, groupVars >> => [Next]_vars
      BY WindowStepOrNot
<1> QED  BY <1>1, <1>2, PTL DEF GroupSpec, Spec

----------------------------------------------------------------------------
\* A client is attached only through the signal of its window.
ClientInv ==
    /\ visible \in BOOLEAN
    /\ m_attached \in BOOLEAN
    /\ m_layerName \in LayerNames \cup {Anonymous}
    /\ role = "client" /\ m_attached => m_webOSWindow
    /\ AttachedWhileShown

\* What the client's slot does, when the window is (not) visible now.
LEMMA ClientSlot ==
    ASSUME ClientInv, NEW shown \in BOOLEAN, ClientHandles(shown),
           visible' = shown, role = "client",
           m_webOSWindow, m_webOSWindow' = m_webOSWindow
    PROVE  ClientInv'
<1>1. m_layerName' = m_layerName /\ m_layerName # NotAttached
      BY NamesAssumption DEF ClientHandles, ClientInv
<1>2. /\ m_attached => m_SurfaceGroup \/ refused
      /\ m_attached <=> attachedAs # NotAttached
      /\ attachedAs \in {NotAttached, Anonymous, m_layerName}
      BY DEF ClientInv, AttachedWhileShown
<1>3. CASE ~shown /\ m_attached /\ ~m_SurfaceGroup
      <2>1. role' = "crashed" /\ refused' = refused /\ m_attached' = m_attached
            BY <1>3 DEF ClientHandles
      <2>2. role' # "client" /\ refused'
            BY <1>2, <1>3, <2>1
      <2> QED  BY <1>1, <1>3, <2>1, <2>2 DEF ClientInv, AttachedWhileShown
<1>4. CASE ~shown /\ (m_attached => m_SurfaceGroup)
      <2>1. /\ role' = "client" /\ m_attached' = FALSE /\ attachedAs' = NotAttached
            BY <1>4 DEF ClientHandles
      <2> QED  BY <1>1, <1>4, <2>1 DEF ClientInv, AttachedWhileShown
<1>5. CASE shown /\ available /\ m_groupName
      <2>1. PICK found \in BOOLEAN :
               /\ role' = "client" /\ m_SurfaceGroup' = found
               /\ m_attached' = (m_attached \/ found)
               /\ attachedAs' = IF found /\ ~m_attached THEN m_layerName ELSE attachedAs
               /\ refused' = (m_attached /\ ~found)
            BY <1>5 DEF ClientHandles, Attaches
      <2>2. /\ m_attached' <=> attachedAs' # NotAttached
            /\ attachedAs' \in {NotAttached, Anonymous, m_layerName}
            BY <1>1, <1>2, <2>1
      <2>3. m_attached' \in BOOLEAN /\ (m_attached' => (m_SurfaceGroup' <=> ~refused'))
            BY <2>1 DEF ClientInv
      <2> QED  BY <1>1, <1>5, <2>1, <2>2, <2>3 DEF ClientInv, AttachedWhileShown
<1>6. CASE shown /\ ~(available /\ m_groupName)
      <2>1. UNCHANGED << role, m_SurfaceGroup, m_attached, attachedAs, refused >>
            BY <1>6 DEF ClientHandles, Attaches
      <2> QED  BY <1>1, <1>6, <2>1 DEF ClientInv, AttachedWhileShown
<1> QED  BY <1>3, <1>4, <1>5, <1>6

\* An owner's slot leaves what a client has.
LEMMA OwnerLeavesClient ==
    ASSUME ClientInv, NEW shown, OwnerHandles(shown), role = "owner",
           visible' \in BOOLEAN
    PROVE  ClientInv'
<1>1. role' = "owner" /\ UNCHANGED client
      BY DEF OwnerHandles
<1> QED  BY <1>1 DEF ClientInv, AttachedWhileShown, client

LEMMA ClientStep == ClientInv /\ [GroupNext]_<< vars, groupVars >> => ClientInv'
<1> SUFFICES ASSUME ClientInv, [GroupNext]_<< vars, groupVars >>
             PROVE  ClientInv'
    OBVIOUS
<1>1. ASSUME NEW shown \in BOOLEAN, visible' = shown, visible = ~shown, Signals(shown)
      PROVE  ClientInv'
      <2>1. m_webOSWindow' = m_webOSWindow
            BY <1>1 DEF Signals
      <2>2. CASE m_webOSWindow /\ role # "gone"
            BY <1>1, <2>1, <2>2, ClientSlot, OwnerLeavesClient DEF Signals, Handles
      <2>3. CASE ~(m_webOSWindow /\ role # "gone")
            <3>1. UNCHANGED << role, m_SurfaceGroup, client >>
                  BY <1>1, <2>3 DEF Signals
            <3>2. ~(role = "client" /\ m_attached)
                  BY <2>3 DEF ClientInv
            <3> QED  BY <1>1, <2>1, <3>1, <3>2 DEF ClientInv, AttachedWhileShown, client
      <2> QED  BY <2>2, <2>3
<1>2. CASE WindowShows
      <2>1. visible' = TRUE /\ visible = FALSE
            BY <1>2 DEF WindowShows, Show
      <2> QED  BY <1>1, <1>2, <2>1 DEF WindowShows
<1>3. CASE WindowHides
      <2>1. visible' = FALSE /\ visible = TRUE
            BY <1>3 DEF WindowHides, Hide
      <2> QED  BY <1>1, <1>3, <2>1 DEF WindowHides
<1>4. CASE ComponentComplete
      <2>1. UNCHANGED << visible, m_webOSWindow >>
            BY <1>4 DEF ComponentComplete, vars
      <2>2. CASE m_webOSWindow /\ m_groupName
            <3>1. Handles(visible)
                  BY <1>4, <2>2 DEF ComponentComplete
            <3>2. visible \in BOOLEAN
                  BY DEF ClientInv
            <3> QED  BY <2>1, <2>2, <3>1, <3>2, ClientSlot, OwnerLeavesClient DEF Handles
      <2>3. CASE ~(m_webOSWindow /\ m_groupName)
            <3>1. UNCHANGED << role, m_SurfaceGroup, client >>
                  BY <1>4, <2>3 DEF ComponentComplete
            <3> QED  BY <2>1, <3>1 DEF ClientInv, AttachedWhileShown, client
      <2> QED  BY <2>2, <2>3
<1>5. CASE WindowChanges
      <2>1. UNCHANGED << groupVars, visible >>
            BY <1>5 DEF WindowChanges, Set, ResetAddon, SetMember
      <2> QED  BY <2>1 DEF groupVars, common, client, ClientInv, AttachedWhileShown
<1>6. CASE \E l \in LayerNames : SetLayerName(l)
      <2>1. PICK l \in LayerNames : SetLayerName(l)
            BY <1>6
      <2>2. /\ m_layerName = Anonymous /\ m_layerName' = l
            /\ UNCHANGED << visible, role, m_webOSWindow, m_SurfaceGroup, m_attached,
                            attachedAs, refused >>
            BY <2>1 DEF SetLayerName, Sets, vars, common
      <2> QED  BY <2>2 DEF ClientInv, AttachedWhileShown
<1>7. CASE SetWebOSWindow \/ SetGroupName \/ BecomesAvailable
      BY <1>7 DEF SetWebOSWindow, SetGroupName, BecomesAvailable, Sets, vars, client, ClientInv,
                  AttachedWhileShown
<1>8. CASE \/ SetAllowAnonymous
           \/ \E l \in LayerNames : AddLayer(l) \/ TakenElsewhere(l) \/ SurfaceComesOrGoes(l)
      BY <1>8 DEF SetAllowAnonymous, AddLayer, TakenElsewhere, SurfaceComesOrGoes, Sets, vars, common, client,
                  ClientInv, AttachedWhileShown
<1>9. CASE \E l \in LayerNames, z \in Zs : SetZ(l, z)
      BY <1>9 DEF SetZ, Sets, vars, common, client, ClientInv, AttachedWhileShown
<1>10. CASE Destroy
      BY <1>10 DEF Destroy, vars, client, ClientInv, AttachedWhileShown
<1>11. CASE UNCHANGED << vars, groupVars >>
      BY <1>11 DEF vars, groupVars, common, client, ClientInv, AttachedWhileShown
<1> QED  BY <1>2, <1>3, <1>4, <1>5, <1>6, <1>7, <1>8, <1>9, <1>10, <1>11
         DEF GroupNext, LaterChanges

\* A client's surface is attached only while its window is visible, and as the client
\* names its layer; only a group that is refused to a client that is attached makes it
\* detach without one (eossurfacegroupclient.cpp:56-108).
THEOREM ClientIsAttached == GroupSpec => []AttachedWhileShown
<1>1. GroupInit => ClientInv
      <2> SUFFICES ASSUME GroupInit PROVE ClientInv
          OBVIOUS
      <2>1. /\ m_attached = FALSE /\ attachedAs = NotAttached /\ visible = FALSE
            /\ role # "crashed"
            BY DEF GroupInit, Init
      <2>2. m_layerName \in LayerNames \cup {Anonymous}
            BY DEF GroupInit
      <2> QED  BY <2>1, <2>2 DEF ClientInv, AttachedWhileShown
<1>2. ClientInv => AttachedWhileShown
      BY DEF ClientInv
<1> QED  BY <1>1, <1>2, ClientStep, PTL DEF GroupSpec

----------------------------------------------------------------------------
OwnerInv ==
    /\ m_layers \in [LayerNames -> {"no", "listed", "late"}]
    /\ m_z \in [LayerNames -> Zs]
    /\ groupLayers \in [LayerNames -> Zs \cup {NotThere}]
    /\ m_SurfaceGroupLayer \in [LayerNames -> {"none", "here", "elsewhere"}]
    /\ GroupHasItsLayers
    /\ role = "owner" => \A l \in LayerNames :
          /\ m_SurfaceGroupLayer[l] = "here" <=> groupLayers[l] # NotThere
          /\ ~m_SurfaceGroup => groupLayers[l] = NotThere

\* What the owner's slot does: nothing, or the group gets the listed layers that the
\* compositor creates.
LEMMA OwnerSlot ==
    ASSUME OwnerInv, NEW shown, Handles(shown), UNCHANGED listed
    PROVE  OwnerInv'
<1>1. CASE role = "client"
      <2>1. UNCHANGED owned /\ role' # "owner"
            BY <1>1 DEF Handles, ClientHandles
      <2> QED  BY <2>1 DEF OwnerInv, GroupHasItsLayers, owned, listed
<1>2. ASSUME UNCHANGED << role, m_SurfaceGroup, groupAllows, groupLayers,
                          m_SurfaceGroupLayer, refusedLayers >>
      PROVE  OwnerInv'
      BY <1>2 DEF OwnerInv, GroupHasItsLayers, listed
<1>3. ASSUME NEW made \in SUBSET Creatable, role = "owner", role' = role,
             ~m_SurfaceGroup, m_SurfaceGroup' = TRUE,
             groupLayers' = CreatedLayers(made),
             m_SurfaceGroupLayer' = [l \in LayerNames |->
                 IF l \in made THEN "here" ELSE m_SurfaceGroupLayer[l]],
             refusedLayers' = Creatable \ made
      PROVE  OwnerInv'
      <2>1. \A l \in LayerNames :
               /\ groupLayers'[l] = IF l \in made THEN m_z[l] ELSE NotThere
               /\ m_SurfaceGroupLayer'[l] =
                     IF l \in made THEN "here" ELSE m_SurfaceGroupLayer[l]
               /\ m_SurfaceGroupLayer[l] \in {"none", "elsewhere"}
               /\ m_z[l] \in Zs /\ m_z[l] # NotThere
            BY <1>3, NamesAssumption DEF CreatedLayers, OwnerInv
      <2>2. /\ groupLayers' \in [LayerNames -> Zs \cup {NotThere}]
            /\ m_SurfaceGroupLayer' \in [LayerNames -> {"none", "here", "elsewhere"}]
            BY <1>3, <2>1 DEF CreatedLayers
      <2>3. ASSUME NEW l \in LayerNames
            PROVE  groupLayers'[l] = IF /\ m_layers[l] = "listed"
                                        /\ l \notin refusedLayers'
                                        /\ m_SurfaceGroupLayer'[l] # "elsewhere"
                                     THEN m_z[l] ELSE NotThere
            <3>1. CASE l \in made
                  BY <1>3, <2>1, <3>1 DEF Creatable
            <3>2. CASE l \notin made /\ l \in Creatable
                  BY <1>3, <2>1, <3>2
            <3>3. CASE l \notin Creatable
                  BY <1>3, <2>1, <3>3 DEF Creatable
            <3> QED  BY <3>1, <3>2, <3>3
      <2>4. GroupHasItsLayers'
            BY <2>3 DEF GroupHasItsLayers, listed
      <2>5. \A l \in LayerNames : m_SurfaceGroupLayer'[l] = "here" <=> groupLayers'[l] # NotThere
            BY <2>1
      <2> QED  BY <1>3, <2>2, <2>4, <2>5 DEF OwnerInv, listed
<1> QED  BY <1>1, <1>2, <1>3 DEF Handles, OwnerHandles

LEMMA OwnerStep == OwnerInv /\ [GroupNext]_<< vars, groupVars >> => OwnerInv'
<1> SUFFICES ASSUME OwnerInv, [GroupNext]_<< vars, groupVars >>
             PROVE  OwnerInv'
    OBVIOUS
<1>1. ASSUME UNCHANGED << role, listed, m_SurfaceGroup, groupLayers, m_SurfaceGroupLayer,
                          refusedLayers >>
      PROVE  OwnerInv'
      BY <1>1 DEF OwnerInv, GroupHasItsLayers, listed
<1>2. CASE WindowShows
      BY <1>1, <1>2, OwnerSlot DEF WindowShows, Signals, owned
<1>3. CASE WindowHides
      BY <1>1, <1>3, OwnerSlot DEF WindowHides, Signals, owned
<1>4. CASE ComponentComplete
      BY <1>1, <1>4, OwnerSlot DEF ComponentComplete, owned
<1>5. CASE WindowChanges \/ UNCHANGED << vars, groupVars >>
      BY <1>1, <1>5 DEF WindowChanges, groupVars, common, owned
<1>6. CASE SetWebOSWindow \/ SetGroupName \/ BecomesAvailable
      BY <1>1, <1>6 DEF SetWebOSWindow, SetGroupName, BecomesAvailable, owned
<1>7. CASE \E l \in LayerNames : SetLayerName(l)
      BY <1>1, <1>7 DEF SetLayerName, common, owned
<1>8. CASE SetAllowAnonymous \/ \E l \in LayerNames : SurfaceComesOrGoes(l)
      BY <1>8 DEF SetAllowAnonymous, SurfaceComesOrGoes, common, listed, owned, OwnerInv,
                  GroupHasItsLayers
<1>8a. CASE \E l \in LayerNames : TakenElsewhere(l)
      <2>1. PICK l \in LayerNames : TakenElsewhere(l)
            BY <1>8a
      <2>2. /\ role = "owner" /\ m_SurfaceGroupLayer[l] = "none"
            /\ m_SurfaceGroupLayer' = [m_SurfaceGroupLayer EXCEPT ![l] = "elsewhere"]
            /\ UNCHANGED << role, listed, m_SurfaceGroup, groupLayers, refusedLayers >>
            BY <2>1 DEF TakenElsewhere, common
      <2>3. m_SurfaceGroupLayer' \in [LayerNames -> {"none", "here", "elsewhere"}]
            BY <2>2 DEF OwnerInv
      <2>4. \A k \in LayerNames : m_SurfaceGroupLayer'[k] =
                IF k = l THEN "elsewhere" ELSE m_SurfaceGroupLayer[k]
            BY <2>2 DEF OwnerInv
      <2>5. groupLayers[l] = NotThere
            BY <2>2 DEF OwnerInv
      <2>6. GroupHasItsLayers'
            BY <2>2, <2>4, <2>5 DEF OwnerInv, GroupHasItsLayers, listed
      <2>7. \A k \in LayerNames : m_SurfaceGroupLayer'[k] = "here" <=> groupLayers'[k] # NotThere
            BY <2>2, <2>4, <2>5 DEF OwnerInv
      <2> QED  BY <2>2, <2>3, <2>6, <2>7 DEF OwnerInv, listed
<1>9. CASE \E l \in LayerNames : AddLayer(l)
      <2>1. PICK l \in LayerNames : AddLayer(l)
            BY <1>9
      <2>2. /\ m_layers[l] = "no"
            /\ UNCHANGED << role, m_SurfaceGroup, m_z, groupLayers, m_SurfaceGroupLayer,
                            refusedLayers >>
            /\ m_layers' = [m_layers EXCEPT
                                ![l] = IF m_SurfaceGroup THEN "late" ELSE "listed"]
            BY <2>1 DEF AddLayer, common, owned
      <2>3. CASE m_SurfaceGroup
            BY <2>2, <2>3 DEF OwnerInv, GroupHasItsLayers
      <2>4. CASE ~m_SurfaceGroup
            BY <2>2, <2>4 DEF OwnerInv, GroupHasItsLayers
      <2> QED  BY <2>3, <2>4
<1>10. CASE \E l \in LayerNames, z \in Zs : SetZ(l, z)
      <2>1. PICK l \in LayerNames, z \in Zs : SetZ(l, z)
            BY <1>10
      <2>2. /\ UNCHANGED << role, m_SurfaceGroup, m_layers, m_SurfaceGroupLayer, refusedLayers >>
            /\ m_z' = [m_z EXCEPT ![l] = z] /\ role = "owner" /\ z # NotThere
            BY <2>1, NamesAssumption DEF SetZ, common
      <2>3. groupLayers' = IF m_SurfaceGroupLayer[l] = "here"
                           THEN [groupLayers EXCEPT ![l] = z] ELSE groupLayers
            BY <2>1 DEF SetZ
      <2>4. groupLayers' \in [LayerNames -> Zs \cup {NotThere}]
            BY <2>3 DEF OwnerInv
      <2>5. m_z' \in [LayerNames -> Zs]
            BY <2>2 DEF OwnerInv
      <2>6. m_SurfaceGroupLayer[l] = "here" <=> groupLayers[l] # NotThere
            BY <2>2 DEF OwnerInv
      <2>7. ASSUME m_SurfaceGroup, NEW k \in LayerNames
            PROVE  groupLayers'[k] = IF /\ m_layers[k] = "listed"
                                        /\ k \notin refusedLayers
                                        /\ m_SurfaceGroupLayer[k] # "elsewhere"
                                     THEN m_z'[k] ELSE NotThere
            <3>1. groupLayers[k] = IF /\ m_layers[k] = "listed"
                                      /\ k \notin refusedLayers
                                      /\ m_SurfaceGroupLayer[k] # "elsewhere"
                                   THEN m_z[k] ELSE NotThere
                  BY <2>2, <2>7 DEF OwnerInv, GroupHasItsLayers
            <3>2. m_z[k] # NotThere
                  BY NamesAssumption DEF OwnerInv
            <3>3. CASE k = l
                  BY <2>2, <2>3, <2>6, <3>1, <3>2, <3>3 DEF OwnerInv
            <3>4. CASE k # l
                  BY <2>2, <2>3, <3>1, <3>4 DEF OwnerInv
            <3> QED  BY <3>3, <3>4
      <2>8. ASSUME NEW k \in LayerNames
            PROVE  /\ m_SurfaceGroupLayer[k] = "here" <=> groupLayers'[k] # NotThere
                   /\ ~m_SurfaceGroup => groupLayers'[k] = NotThere
            BY <2>2, <2>3, <2>6 DEF OwnerInv
      <2>9. GroupHasItsLayers'
            BY <2>2, <2>7 DEF GroupHasItsLayers
      <2> QED  BY <2>2, <2>4, <2>5, <2>8, <2>9 DEF OwnerInv
<1>11. CASE Destroy
      BY <1>11 DEF Destroy, listed, owned, OwnerInv, GroupHasItsLayers
<1> QED  BY <1>2, <1>3, <1>4, <1>5, <1>6, <1>7, <1>8, <1>8a, <1>9, <1>10, <1>11
         DEF GroupNext, LaterChanges

\* An owner's group has the layers listed before it was created, at their z, but for those
\* that the compositor refused and those that another owner's group has, and no others
\* (eossurfacegroupowner.cpp:56-82, eossurfacegrouplayer.cpp:72-107).
THEOREM OwnerLayersAreInGroup == GroupSpec => []GroupHasItsLayers
<1>1. GroupInit => OwnerInv
      <2> SUFFICES ASSUME GroupInit PROVE OwnerInv
          OBVIOUS
      <2>1. /\ m_SurfaceGroup = FALSE
            /\ groupLayers = [l \in LayerNames |-> NotThere]
            /\ m_SurfaceGroupLayer = [l \in LayerNames |-> "none"]
            BY DEF GroupInit
      <2>2. m_layers \in [LayerNames -> {"no", "listed", "late"}]
            <3>1. \/ m_layers \in [LayerNames -> {"no", "listed"}]
                  \/ m_layers \in [LayerNames -> {"no"}]
                  BY DEF GroupInit
            <3> QED  BY <3>1
      <2>3. m_z \in [LayerNames -> Zs]
            BY DEF GroupInit
      <2> QED  BY <2>1, <2>2, <2>3 DEF OwnerInv, GroupHasItsLayers
<1>2. OwnerInv => GroupHasItsLayers
      BY DEF OwnerInv
<1> QED  BY <1>1, <1>2, OwnerStep, PTL DEF GroupSpec
=============================================================================
