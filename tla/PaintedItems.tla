---------------------------- MODULE PaintedItems ----------------------------
(***************************************************************************)
(* The painted items of Eos.Items: a Beziergon or a Parallelogram, its     *)
(* sources, its nodes in the scene graph and what its shaders receive.     *)
(***************************************************************************)
EXTENDS Beziergon, Parallelogram, Mesh, UniformBlock

CONSTANT Resolutions    \* bound: resolutions that QML sets

\* No resolution is negative, which setResolution() does not refuse, and the counts
\* of its meshes are ints.
ASSUME ResolutionsAssumption ==
    \A r \in Resolutions \cup {<< 4, 4 >>} : r \in Nat \X Nat /\ CountsFit(r[1], r[2])

VARIABLE kind           \* the class of the item

Kinds == {"beziergon", "parallelogram"}

subclassVars == << points, resolution, angle, offset >>

vars == << itemVars, sourceVars, renderVars, changes, subclassVars, kind >>

Init ==
    /\ ItemInit /\ BeziergonInit /\ ParallelogramInit
    /\ kind \in Kinds
    /\ linked = {"dest", "blending"} \cup (IF kind = "beziergon" THEN Points ELSE {})

\* What QML does with an item of either class, and with its source.
ItemNext ==
    /\ \/ \E color \in Colors : SetColor(color)
       \/ \E b \in BOOLEAN : SetBlending(b) \/ SetAntialiasing(b) \/ SetClampToEdge(b)
       \/ \E l \in Lengths : SetDest(<< l, l >>)
       \/ \E s \in Sources \cup {None} : SetSourceItem(s)
       \/ \E s \in Sources : SourceDestroyed(s) \/ LayerChanges(s)
       \/ SceneChanges
       \/ MarkDirtyMaterial
    /\ UNCHANGED << subclassVars, kind >>

BeziergonNext ==
    /\ kind = "beziergon"
    /\ \/ \E p \in SettablePoints, l \in Lengths : SetPoint(p, << l, l >>)
       \/ \E l \in Lengths : SetWidth(l) \/ SetHeight(l)
       \/ \E r \in Resolutions : SetResolution(r)
       \/ PaintBeziergon
    /\ UNCHANGED << angle, offset, kind >>

ParallelogramNext ==
    /\ kind = "parallelogram"
    /\ \/ \E l \in Lengths : SetWidthOfParallelogram(l) \/ SetHeightOfParallelogram(l)
       \/ \E a \in Angles : SetAngle(a)
       \/ PaintParallelogram
    /\ UNCHANGED << points, resolution, kind >>

ProvidersNext ==
    /\ \E p \in Providers : ProviderDestroyed(p)
    /\ UNCHANGED << subclassVars, kind >>

Next == ItemNext \/ BeziergonNext \/ ParallelogramNext \/ ProvidersNext

Spec == Init /\ [][Next]_vars

----------------------------------------------------------------------------
(***************************************************************************)
(* Properties                                                              *)
(***************************************************************************)
\* The code that a paint cannot reach: "should have fringe!" (samplergeometry.cpp:203)
\* and the materials of a null fringe (186).  Whenever an antialiased item is painted
\* it has its fringe, made before or in the same paint.
FringeWhenNeeded ==
    DOMAIN node # {} /\ ~dirty.geometry =>
        (item.antialiasing <=> "fringe" \in DOMAIN node)

\* A source is referred to the item's window exactly while it is the source of an
\* item in a window (samplergeometry.cpp:63-75, 90-97).
WindowRefsBalanced ==
    \A s \in Sources :
        refs[s] = IF inWindow /\ s = item.sourceItem THEN 1 ELSE 0

\* The node that was painted last, the fringe of an antialiased item, keeps no
\* provider that was destroyed (samplergeometry.cpp:219-279, 323-327).
LastNodeForgetsProvider ==
    DOMAIN node # {} =>
        LET last == node[IF "fringe" \in DOMAIN node THEN "fringe" ELSE "body"]
        IN  Samples(last) => last.material.provider \in Live

\* Does a part of the node show the item as it is?
Shows(part) ==
    /\ node[part].geometry = IF kind = "beziergon" THEN BeziergonGeometry
                                                   ELSE ParallelogramGeometry
    /\ node[part].material.color = item.color
    /\ node[part].material.dest = item.dest
    /\ node[part].material.fast = IF kind = "beziergon" THEN BeziergonFast ELSE ParallelogramFast
    /\ node[part].material.blending = (part = "fringe" \/ item.blending)
    /\ kind = "beziergon" => node[part].material.state = points

Paint == \/ kind = "beziergon" /\ PaintBeziergon
         \/ kind = "parallelogram" /\ PaintParallelogram

\* Whatever changed since the last paint, and whether or not it asked for one: after
\* updatePaintNode the nodes show the item as it is (samplergeometry.cpp:152-212).
PaintShowsItem ==
    [][Paint => \A part \in DOMAIN node' : Shows(part)']_vars

\* An item in a window that awaits no repaint is on the screen with its colour, its
\* dest and its points, each where the shader's block has it, and with no texture
\* when it has no source.  Points that followed a change of size set no flag.
ScreenShowsItem ==
    inWindow /\ ~asked =>
        /\ {Color, Dest} \cup Corners \subseteq ArrivingMembers
        /\ \A part \in DOMAIN node :
               /\ node[part].material.color = item.color
               /\ node[part].material.dest = item.dest
               /\ kind = "beziergon" => node[part].material.state = points
               /\ item.sourceItem = None => ~Samples(node[part])

\* The meshes of an item as it is painted: filled as the asserts say, no index
\* outside, and no vertex left out as long as unsigned shorts can index them
\* (beziergon.cpp:331-383, 406-503, parallelogram.cpp:168-182).
MeshIsDrawn ==
    DOMAIN node # {} =>
        IF kind = "beziergon"
        THEN LET r == node["body"].geometry[1]
             IN  Filled(r[1], r[2]) /\ Inside(r[1], r[2]) /\ Covered(r[1], r[2])
        ELSE FrameIndices = 0 .. FrameVertexCount - 1
=============================================================================
