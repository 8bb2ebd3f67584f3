---------------------------- MODULE SurfaceGroup -----------------------------
(***************************************************************************)
(* Eos.SurfaceGroup (src/Eos/SurfaceGroup): the window of a process owns a *)
(* group of surfaces, or is attached to the group of another process as a  *)
(* client.  The owner or client is a QML object beside the window: it      *)
(* follows the signal visibleChanged of the QuickWindow, which has told    *)
(* its surface what waits before it does.  Its properties are declared in  *)
(* QML or set later.  The group itself is the compositor's.                *)
(***************************************************************************)
EXTENDS QuickWindow

CONSTANTS
    LayerNames,
    Anonymous,      \* the empty layer name; attached without a layer
    NotAttached,
    Zs, NotThere    \* z of a layer; a layer that the group does not have

ASSUME NamesAssumption ==
    /\ Anonymous \notin LayerNames /\ NotAttached \notin LayerNames \cup {Anonymous}
    /\ NotThere \notin Zs

VARIABLES
    role,            \* "owner" or "client"; "gone": destroyed; "crashed": with the process
    complete,        \* has componentComplete() been called?
    available,       \* is the compositor's surfaceGroupCompositor() there?
    m_webOSWindow,   \* is it set, so that visibleChanged is connected?
    m_groupName,     \* is it set?
    m_SurfaceGroup,  \* is there a group?
    m_layerName, m_attached,      \* of a client
    attachedAs,      \* how the compositor has the client's surface
    refused,         \* history: did an attached client ask for its group in vain?
    m_allowAnonymous,             \* of an owner
    m_layers,        \* [LayerNames -> "no", "listed", "late": since there is a group]
    m_z,             \* of the layers
    m_SurfaceGroupLayer,          \* [LayerNames -> "none", "here": of this group, "elsewhere"]
    m_isSurfaceAttached,          \* layers that a surface is attached to
    groupAllows, groupLayers,     \* the compositor's group: anonymous surfaces, z of layers
    refusedLayers,                \* history: what the compositor did not create
    settings         \* changes of the object so far

common == << role, complete, available, m_webOSWindow, m_groupName, m_SurfaceGroup >>
client == << m_layerName, m_attached, attachedAs, refused >>
listed == << m_allowAnonymous, m_layers, m_z >>
owned  == << m_SurfaceGroupLayer, m_isSurfaceAttached, groupAllows, groupLayers,
             refusedLayers >>

groupVars == << common, client, listed, owned, settings >>

\* MaxChanges bounds the changes of the window and of the object together.
Room == changes + settings < MaxChanges

GroupTypeOK ==
    /\ role \in {"owner", "client", "gone", "crashed"}
    /\ {complete, available, m_webOSWindow, m_groupName, m_SurfaceGroup, m_attached,
        refused, m_allowAnonymous, groupAllows} \subseteq BOOLEAN
    /\ m_layerName \in LayerNames \cup {Anonymous}
    /\ attachedAs \in LayerNames \cup {Anonymous, NotAttached}
    /\ m_layers \in [LayerNames -> {"no", "listed", "late"}]
    /\ m_z \in [LayerNames -> Zs]
    /\ m_SurfaceGroupLayer \in [LayerNames -> {"none", "here", "elsewhere"}]
    /\ m_isSurfaceAttached \subseteq LayerNames /\ refusedLayers \subseteq LayerNames
    /\ groupLayers \in [LayerNames -> Zs \cup {NotThere}]
    /\ settings \in 0 .. MaxChanges

\* The object is being created: any of its properties may be declared.
GroupInit ==
    /\ Init
    /\ role \in {"owner", "client"} /\ complete = FALSE
    /\ available \in BOOLEAN
    /\ m_webOSWindow \in BOOLEAN /\ m_groupName \in BOOLEAN
    /\ m_SurfaceGroup = FALSE
    /\ m_layerName \in (IF role = "client" THEN LayerNames ELSE {}) \cup {Anonymous}
    /\ m_attached = FALSE /\ attachedAs = NotAttached /\ refused = FALSE
    /\ m_allowAnonymous = FALSE
    /\ m_layers \in [LayerNames -> IF role = "owner" THEN {"no", "listed"} ELSE {"no"}]
    /\ \E z \in Zs : m_z = [l \in LayerNames |-> z]
    /\ m_SurfaceGroupLayer = [l \in LayerNames |-> "none"]
    /\ m_isSurfaceAttached = {} /\ refusedLayers = {}
    /\ groupAllows = FALSE /\ groupLayers = [l \in LayerNames |-> NotThere]
    /\ settings = 0

----------------------------------------------------------------------------
\* getGroup() gives a group, the one that is attached to or another object for it, or none;
\* the pointer is overwritten.
Attaches ==
    IF available /\ m_groupName
    THEN \E found \in BOOLEAN :
            /\ m_SurfaceGroup' = found
            /\ m_attached' = (m_attached \/ found)
            /\ attachedAs' = IF found /\ ~m_attached THEN m_layerName ELSE attachedAs
            /\ refused' = (m_attached /\ ~found)
    ELSE UNCHANGED << m_SurfaceGroup, m_attached, attachedAs, refused >>

\* Mutant: the client stays attached for itself when it is detached.
ClientHandlesKeepingFlag(shown) ==
    /\ \/ shown /\ Attaches /\ UNCHANGED role
       \/ /\ ~shown /\ attachedAs' = NotAttached
          /\ UNCHANGED << role, m_SurfaceGroup, m_attached, refused >>
    /\ UNCHANGED << m_layerName, owned >>

\* EosSurfaceGroupClient::handleWindowVisibility().  Detaching without a group
\* dereferences null.
ClientHandles(shown) ==
    /\ \/ shown /\ Attaches /\ UNCHANGED role
       \/ /\ ~shown /\ m_attached /\ ~m_SurfaceGroup
          /\ role' = "crashed"
          /\ UNCHANGED << m_SurfaceGroup, m_attached, attachedAs, refused >>
       \/ /\ ~shown /\ (m_attached => m_SurfaceGroup)
          /\ m_attached' = FALSE /\ attachedAs' = NotAttached
          /\ UNCHANGED << role, m_SurfaceGroup, refused >>
    /\ UNCHANGED << m_layerName, owned >>

\* createWebOSSurfaceGroupLayer() of each layer that is listed: one that has a layer, which
\* another owner's group has, is skipped; of the others the compositor creates `made'.
Creatable == {l \in LayerNames : m_layers[l] = "listed" /\ m_SurfaceGroupLayer[l] = "none"}

CreatedLayers(made) == [l \in LayerNames |-> IF l \in made THEN m_z[l] ELSE NotThere]

\* EosSurfaceGroupOwner::handleWindowVisibility(): once, the group is created, which
\* the compositor may refuse, with the layers and the permission of that time.
OwnerHandles(shown) ==
    /\ \/ /\ shown /\ ~m_SurfaceGroup /\ available /\ m_groupName
          /\ m_SurfaceGroup' = TRUE
          /\ groupAllows' = m_allowAnonymous
          /\ \E made \in SUBSET Creatable :
                /\ groupLayers' = CreatedLayers(made)
                /\ m_SurfaceGroupLayer' = [l \in LayerNames |->
                      IF l \in made THEN "here" ELSE m_SurfaceGroupLayer[l]]
                /\ refusedLayers' = Creatable \ made
       \/ UNCHANGED << m_SurfaceGroup, groupAllows, groupLayers, m_SurfaceGroupLayer,
                       refusedLayers >>
    /\ UNCHANGED << role, client, m_isSurfaceAttached >>

Handles(shown) ==
    \/ role = "client" /\ ClientHandles(shown)
    \/ role = "owner" /\ OwnerHandles(shown)

\* The slot is called when it is connected.
Signals(shown) ==
    /\ IF m_webOSWindow /\ role # "gone"
       THEN Handles(shown)
       ELSE UNCHANGED << role, m_SurfaceGroup, client, owned >>
    /\ UNCHANGED << complete, available, m_webOSWindow, m_groupName, listed, settings >>

Running == role # "crashed"

\* The window is shown or hidden.
WindowShows == Running /\ Show /\ Signals(TRUE)

WindowHides == Running /\ Hide /\ Signals(FALSE)

WindowChanges ==
    /\ Running /\ Room
    /\ \/ \E slot \in Waiting, value \in Values \cup {Unset} : Set(slot, value)
       \/ ResetAddon
       \/ \E slot \in Members, value \in Values \cup {Unset} : SetMember(slot, value)
    /\ UNCHANGED groupVars

\* componentComplete(): without a window or a name nothing is done.
ComponentComplete ==
    /\ role \in {"owner", "client"} /\ ~complete /\ complete' = TRUE
    /\ IF m_webOSWindow /\ m_groupName
       THEN Handles(visible)
       ELSE UNCHANGED << role, m_SurfaceGroup, client, owned >>
    /\ UNCHANGED << available, m_webOSWindow, m_groupName, listed, settings,
                    vars >>

----------------------------------------------------------------------------
\* Properties that are set later; all but the permission and z only once.
Sets ==
    /\ role \in {"owner", "client"} /\ Room
    /\ settings' = settings + 1 /\ UNCHANGED vars

SetWebOSWindow ==
    /\ Sets /\ ~m_webOSWindow /\ m_webOSWindow' = TRUE
    /\ UNCHANGED << role, complete, available, m_groupName, m_SurfaceGroup, client, listed,
                    owned >>

SetGroupName ==
    /\ Sets /\ ~m_groupName /\ m_groupName' = TRUE
    /\ UNCHANGED << role, complete, available, m_webOSWindow, m_SurfaceGroup, client, listed,
                    owned >>

\* Mutant: a layer name can be replaced.
SetLayerNameAgain(name) ==
    /\ Sets /\ role = "client"
    /\ m_layerName' = name
    /\ UNCHANGED << common, m_attached, attachedAs, refused, listed, owned >>

SetLayerName(name) ==
    /\ Sets /\ role = "client"
    /\ m_layerName = Anonymous /\ m_layerName' = name
    /\ UNCHANGED << common, m_attached, attachedAs, refused, listed, owned >>

SetAllowAnonymous ==
    /\ Sets /\ role = "owner"
    /\ m_allowAnonymous' = ~m_allowAnonymous
    /\ UNCHANGED << common, client, m_layers, m_z, owned >>

\* The list property "layers": nothing is done for a layer that comes late.
AddLayer(l) ==
    /\ Sets /\ role = "owner" /\ m_layers[l] = "no"
    /\ m_layers' = [m_layers EXCEPT ![l] = IF m_SurfaceGroup THEN "late" ELSE "listed"]
    /\ UNCHANGED << common, client, m_allowAnonymous, m_z, owned >>

\* Mutant: the compositor is not told.
SetZHere(l, z) ==
    /\ Sets /\ role = "owner" /\ m_layers[l] # "no" /\ z # m_z[l]
    /\ m_z' = [m_z EXCEPT ![l] = z]
    /\ UNCHANGED << common, client, m_allowAnonymous, m_layers, owned >>

\* EosSurfaceGroupLayer::setZ()
SetZ(l, z) ==
    /\ Sets /\ role = "owner" /\ m_layers[l] # "no" /\ z # m_z[l]
    /\ m_z' = [m_z EXCEPT ![l] = z]
    /\ groupLayers' = IF m_SurfaceGroupLayer[l] = "here"
                      THEN [groupLayers EXCEPT ![l] = z] ELSE groupLayers
    /\ UNCHANGED << common, client, m_allowAnonymous, m_layers, m_SurfaceGroupLayer,
                    m_isSurfaceAttached, groupAllows, refusedLayers >>

\* Another owner that lists the layer too creates its group.
TakenElsewhere(l) ==
    /\ Sets /\ role = "owner" /\ m_SurfaceGroupLayer[l] = "none"
    /\ m_SurfaceGroupLayer' = [m_SurfaceGroupLayer EXCEPT ![l] = "elsewhere"]
    /\ UNCHANGED << common, client, listed, m_isSurfaceAttached, groupAllows, groupLayers,
                    refusedLayers >>

\* onSurfaceAttached(), onSurfaceDetached(): clients come to and leave a layer.
SurfaceComesOrGoes(l) ==
    /\ Sets /\ role = "owner" /\ m_SurfaceGroupLayer[l] # "none"
    /\ m_isSurfaceAttached' = IF l \in m_isSurfaceAttached
                              THEN m_isSurfaceAttached \ {l} ELSE m_isSurfaceAttached \cup {l}
    /\ UNCHANGED << common, client, listed, m_SurfaceGroupLayer, groupAllows, groupLayers,
                    refusedLayers >>

\* The destructors delete the group and its layers; a client does not detach first.
Destroy ==
    /\ role \in {"owner", "client"} /\ complete /\ role' = "gone"
    /\ m_SurfaceGroup' = FALSE
    /\ UNCHANGED << complete, available, m_webOSWindow, m_groupName, client, listed, owned,
                    settings, vars >>

\* The platform hears of the compositor's interface.
BecomesAvailable ==
    /\ Running /\ ~available /\ available' = TRUE
    /\ UNCHANGED << role, complete, m_webOSWindow, m_groupName, m_SurfaceGroup, client, listed,
                    owned, settings, vars >>

LaterChanges ==
    \/ SetWebOSWindow \/ SetGroupName \/ SetAllowAnonymous
    \/ \E l \in LayerNames :
          SetLayerName(l) \/ AddLayer(l) \/ TakenElsewhere(l) \/ SurfaceComesOrGoes(l)
    \/ \E l \in LayerNames, z \in Zs : SetZ(l, z)

GroupNext ==
    \/ WindowShows \/ WindowHides \/ WindowChanges
    \/ ComponentComplete \/ LaterChanges \/ Destroy \/ BecomesAvailable

GroupSpec == GroupInit /\ [][GroupNext]_<< vars, groupVars >>

----------------------------------------------------------------------------
(***************************************************************************)
(* Properties                                                              *)
(***************************************************************************)

\* The compositor has the surface exactly as long as the client believes it, which is
\* only while the window is visible; and it has it in the layer that the client names, or
\* anonymously.  There is a group to detach it from, and the null pointer at :81 is not
\* dereferenced, unless the compositor refused the group to a client that was attached
\* already and asked again (eossurfacegroupclient.cpp:56-85, 103-108).
AttachedWhileShown ==
    /\ role = "client" =>
          /\ m_attached => visible /\ (m_SurfaceGroup <=> ~refused)
          /\ m_attached <=> attachedAs # NotAttached
          /\ attachedAs \in {NotAttached, Anonymous, m_layerName}
    /\ role = "crashed" => refused

\* The group has every layer that was listed before it was created, at the z that the
\* layer has, whenever that was set, except for those that the compositor did not create
\* and those that another owner's group has; it has no other layer
\* (eossurfacegroupowner.cpp:56-82, eossurfacegrouplayer.cpp:72-107).
GroupHasItsLayers ==
    role = "owner" /\ m_SurfaceGroup =>
        \A l \in LayerNames :
            groupLayers[l] = IF /\ m_layers[l] = "listed"
                                /\ l \notin refusedLayers
                                /\ m_SurfaceGroupLayer[l] # "elsewhere"
                             THEN m_z[l] ELSE NotThere
=============================================================================
