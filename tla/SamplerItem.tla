----------------------------- MODULE SamplerItem -----------------------------
(***************************************************************************)
(* SamplerGeometry::Item (src/Eos/Items/src/samplergeometry.cpp), the base *)
(* of the painted items: an item that is filled with a colour or with the  *)
(* texture of another item, its source.                                    *)
(*                                                                         *)
(* The GUI thread changes the item's members and notes in three flags what *)
(* the next updatePaintNode has to do.  The render thread runs             *)
(* updatePaintNode while the GUI thread is blocked, and owns the nodes: the*)
(* body, the fringe of an antialiased item, their materials and the texture*)
(* providers of the sources.  A subclass gives updatePaintNode its         *)
(* geometries, the state its shaders need and whether the fast shader does.*)
(***************************************************************************)
EXTENDS Integers, FiniteSets

CONSTANTS
    Sources,      \* items that can be a sourceItem
    Providers,    \* addresses of QSGTextureProviders
    None,         \* null pointer
    MaxChanges    \* bound: steps of the GUI thread

ASSUME NoneAssumption == None \notin Sources /\ None \notin Providers
ASSUME BoundAssumption == MaxChanges \in Nat

Colors == {"transparent", "opaque"}
Lengths == {0, 2}
WindowSize == << 2, 2 >>

VARIABLES
    item,        \* the members of Item
    size,        \* width() and height()
    linked,      \* slots calculate...() that a setter has not disconnected yet
    dirty,       \* m_geometryDirty, m_materialDirty, m_newMaterial
    asked,       \* will Qt call updatePaintNode at the next synchronization?
    inWindow,    \* window() # 0
    providerOf,  \* the source's texture provider, None when it has no layer
    gone,        \* sources that were destroyed
    refs,        \* windowRefCount that the source has from this item
    dying,       \* providers that the render thread has yet to destroy
    node,        \* the parts of the ComposedNode: a body, and a fringe perhaps
    hears,       \* m_destroyedTo...: a provider, and the part that hears of its end
    marks,       \* is a call of markDirtyMaterial queued for the GUI thread?
    changes

itemVars == << item, size, linked, dirty, asked, inWindow >>
sourceVars == << providerOf, gone, refs, dying >>
renderVars == << node, hears, marks >>

Live == dying \cup ({providerOf[s] : s \in Sources} \ {None})

\* No connection to any provider.
Disconnected == [provider |-> None, by |-> "nobody"]

ItemInit ==
    /\ item = [color |-> "transparent", blending |-> FALSE, antialiasing |-> TRUE,
               clampToEdge |-> FALSE, sourceItem |-> None, dest |-> << 0, 0 >>]
    /\ size = << 0, 0 >>
    /\ dirty = [geometry |-> FALSE, material |-> FALSE, newMaterial |-> FALSE]
    /\ inWindow \in BOOLEAN /\ asked = inWindow
    /\ providerOf \in [Sources -> Providers \cup {None}]
    /\ \A s, t \in Sources : s # t /\ providerOf[s] = providerOf[t] => providerOf[s] = None
    /\ gone = {} /\ dying = {}
    /\ refs = [s \in Sources |-> 0]
    /\ node = [part \in {} |-> None]
    /\ hears = Disconnected /\ marks = FALSE
    /\ changes = 0

\* A step of the GUI thread, counted.
Change == changes < MaxChanges /\ changes' = changes + 1

\* update()
Asks == asked' = TRUE

----------------------------------------------------------------------------
(***************************************************************************)
(* Setters                                                                 *)
(***************************************************************************)

\* updateBlending(), and what else becomes dirty.
Blended(changed, blending) ==
    LET differs == blending # changed.blending
    IN  /\ item' = [changed EXCEPT !.blending = blending]
        /\ dirty' = [dirty EXCEPT !.geometry = @ \/ differs,
                                  !.material = @ \/ differs \/ changed # item]

\* calculateBlending(): a colour that is not opaque is blended.
CalculatedBlending(color) == color = "transparent"

\* setColor(), and calculateBlending() as long as it is connected.
SetColor(color) ==
    /\ Change
    /\ color # item.color
    /\ Blended([item EXCEPT !.color = color],
               IF "blending" \in linked THEN CalculatedBlending(color) ELSE item.blending)
    /\ Asks
    /\ UNCHANGED << size, linked, inWindow, sourceVars, renderVars >>

\* setBlending() does not ask for a repaint.
SetBlending(blending) ==
    /\ Change
    /\ linked' = linked \ {"blending"}
    /\ Blended(item, blending)
    /\ UNCHANGED << size, asked, inWindow, sourceVars, renderVars >>

\* Mutant: the fringe is left to the next change of the geometry.
SetAntialiasingOnly(antialiasing) ==
    /\ Change
    /\ antialiasing # item.antialiasing
    /\ item' = [item EXCEPT !.antialiasing = antialiasing]
    /\ dirty' = [dirty EXCEPT !.newMaterial = TRUE]
    /\ UNCHANGED << size, linked, asked, inWindow, sourceVars, renderVars >>

\* setAntialiasing() does not ask for a repaint.
SetAntialiasing(antialiasing) ==
    /\ Change
    /\ antialiasing # item.antialiasing
    /\ item' = [item EXCEPT !.antialiasing = antialiasing]
    /\ dirty' = [dirty EXCEPT !.geometry = TRUE, !.newMaterial = TRUE]
    /\ UNCHANGED << size, linked, asked, inWindow, sourceVars, renderVars >>

\* setClampToEdge() does not ask for a repaint.
SetClampToEdge(clamp) ==
    /\ Change
    /\ clamp # item.clampToEdge
    /\ item' = [item EXCEPT !.clampToEdge = clamp]
    /\ dirty' = [dirty EXCEPT !.newMaterial = TRUE]
    /\ UNCHANGED << size, linked, asked, inWindow, sourceVars, renderVars >>

\* setDest()
SetDest(dest) ==
    /\ Change
    /\ linked' = linked \ {"dest"}
    /\ IF dest = item.dest
       THEN UNCHANGED << item, dirty, asked >>
       ELSE /\ item' = [item EXCEPT !.dest = dest]
            /\ dirty' = [dirty EXCEPT !.material = TRUE]
            /\ Asks
    /\ UNCHANGED << size, inWindow, sourceVars, renderVars >>

\* The item gets another width or height: Qt asks for a repaint, and
\* calculateDest() is called as long as it is connected.
Resize(newSize) ==
    /\ Change
    /\ newSize # size
    /\ size' = newSize
    /\ item' = IF "dest" \in linked THEN [item EXCEPT !.dest = newSize] ELSE item
    /\ Asks
    /\ UNCHANGED << linked, inWindow, sourceVars, renderVars >>

----------------------------------------------------------------------------
(***************************************************************************)
(* The source item                                                         *)
(***************************************************************************)

\* Mutant: refers the source to the window that the item is yet to get.
ReferredAlways(old, new) ==
    [s \in Sources |-> refs[s] + (IF s = new THEN 1 ELSE 0)
                               - (IF s = old /\ inWindow THEN 1 ELSE 0)]

\* refWindow() and derefWindow() in setSourceItem().
Referred(old, new) ==
    [s \in Sources |-> refs[s] + (IF s = new /\ inWindow THEN 1 ELSE 0)
                               - (IF s = old /\ inWindow THEN 1 ELSE 0)]

\* setSourceItem() with an item that can be one.
SourceBecomes(source) ==
    IF source = item.sourceItem
    THEN UNCHANGED << item, dirty, asked, refs >>
    ELSE /\ item' = [item EXCEPT !.sourceItem = source]
         /\ refs' = Referred(item.sourceItem, source)
         /\ dirty' = [dirty EXCEPT !.material = TRUE,
                                   !.newMaterial = @ \/ None \in {source, item.sourceItem}]
         /\ Asks

\* setSourceItem(): an item that provides no texture is taken for none.
SetSourceItem(source) ==
    /\ Change
    /\ source \notin gone
    /\ SourceBecomes(IF source # None /\ providerOf[source] # None THEN source ELSE None)
    /\ UNCHANGED << size, linked, inWindow, providerOf, gone, dying, renderVars >>

\* The source is destroyed: sourceItemDestroyed().
SourceDestroyed(source) ==
    /\ Change
    /\ source \notin gone
    /\ gone' = gone \cup {source}
    /\ dying' = dying \cup ({providerOf[source]} \ {None})
    /\ providerOf' = [providerOf EXCEPT ![source] = None]
    /\ IF source = item.sourceItem THEN SourceBecomes(None)
                                   ELSE UNCHANGED << item, dirty, asked, refs >>
    /\ UNCHANGED << size, linked, inWindow, renderVars >>

\* The source gets a texture provider (layer.enabled), at an address in use by no
\* other, or loses it.
LayerChanges(source) ==
    /\ Change
    /\ source \notin gone
    /\ IF providerOf[source] = None
       THEN /\ \E p \in Providers \ Live : providerOf' = [providerOf EXCEPT ![source] = p]
            /\ UNCHANGED dying
       ELSE /\ providerOf' = [providerOf EXCEPT ![source] = None]
            /\ dying' = dying \cup {providerOf[source]}
    /\ UNCHANGED << itemVars, gone, refs, renderVars >>

\* itemChange(ItemSceneChange): the item comes into a window, or leaves it with its
\* nodes.
SceneChanges ==
    /\ Change
    /\ inWindow' = ~inWindow
    /\ refs' = [s \in Sources |->
                   IF s # item.sourceItem THEN refs[s]
                   ELSE IF inWindow THEN refs[s] - 1 ELSE refs[s] + 1]
    /\ IF inWindow
       THEN /\ node' = [part \in {} |-> None]
            /\ hears' = [hears EXCEPT !.by = "nobody"]
            /\ UNCHANGED asked
       ELSE Asks /\ UNCHANGED << node, hears >>
    /\ UNCHANGED << item, size, linked, dirty, providerOf, gone, dying, marks >>

----------------------------------------------------------------------------
(***************************************************************************)
(* The render thread                                                       *)
(***************************************************************************)

\* QRectF::contains(): never for an empty rectangle.
Contains(outer, inner) ==
    \A i \in 1 .. 2 : 0 < inner[i] /\ inner[i] <= outer[i]

\* Mutant: the third flag is reset like the others.
CleanAll(isNew) == [geometry |-> FALSE, material |-> FALSE, newMaterial |-> FALSE]

\* The flags after updatePaintNode: m_newMaterial stays set from the first paint on,
\* so that every paint creates the materials again.
Clean(isNew) == [geometry |-> FALSE, material |-> FALSE, newMaterial |-> isNew]

\* Mutant: the first part to hear of a provider stays the one that does.
FirstHears(heard, old, new, part) ==
    IF item.sourceItem = None THEN Disconnected
    ELSE IF old = new \/ heard.by # "nobody" THEN heard
    ELSE IF new = None THEN Disconnected ELSE [provider |-> new, by |-> part]

\* The connections after updateSampledMaterial() of a part: there is one provider
\* and one part for each item.
Hears(heard, old, new, part) ==
    IF item.sourceItem = None THEN Disconnected
    ELSE IF old = new THEN heard
    ELSE IF new = None THEN Disconnected ELSE [provider |-> new, by |-> part]

\* updatePaintNode()
UpdatePaintNode(geometry, state, fast) ==
    /\ inWindow /\ asked
    /\ asked' = FALSE
    /\ LET first  == DOMAIN node = {}
           shape  == first \/ dirty.geometry
           isNew  == first \/ dirty.newMaterial
           redo   == isNew \/ dirty.material
           parts  == IF ~shape THEN DOMAIN node
                     ELSE IF item.antialiasing THEN {"body", "fringe"} ELSE {"body"}
           \* The provider that updateSampledMaterial() finds in a part's material,
           \* and the one it leaves there.
           Old(part) == IF isNew THEN None ELSE node[part].material.provider
           New(part) == IF item.sourceItem = None THEN Old(part)
                                                  ELSE providerOf[item.sourceItem]
           before == IF hears.by \in parts THEN hears ELSE [hears EXCEPT !.by = "nobody"]
           byBody == Hears(before, Old("body"), New("body"), "body")
       IN  /\ node' = [part \in parts |->
                 [geometry |-> IF shape THEN geometry ELSE node[part].geometry,
                  material |->
                      IF ~redo THEN node[part].material
                      ELSE [color    |-> item.color,
                            dest     |-> item.dest,
                            state    |-> state,
                            blending |-> part = "fringe" \/ item.blending,
                            fast     |-> IF isNew THEN fast ELSE node[part].material.fast,
                            provider |-> New(part)]]]
           /\ hears' = IF ~redo THEN before
                       ELSE IF "fringe" \notin parts THEN byBody
                       ELSE Hears(byBody, Old("fringe"), New("fringe"), "fringe")
           /\ dirty' = Clean(isNew)
    /\ UNCHANGED << item, size, linked, inWindow, sourceVars, marks, changes >>

\* GeometryNode::sampling(): a part is drawn in its colour when it has no provider,
\* or one without a texture at that moment.
Samples(part) == part.material.provider # None

\* A provider is destroyed: sourceProviderDestroyed() of the part that hears of it,
\* and markDirtyMaterial() of the item, which is queued for the GUI thread.
ProviderDestroyed(p) ==
    /\ p \in dying
    /\ dying' = dying \ {p}
    /\ IF hears.provider = p
       THEN /\ node' = IF hears.by \in DOMAIN node
                       THEN [node EXCEPT ![hears.by].material.provider = None] ELSE node
            /\ hears' = Disconnected
            /\ marks' = TRUE
       ELSE UNCHANGED renderVars
    /\ UNCHANGED << itemVars, providerOf, gone, refs, changes >>

\* markDirtyMaterial()
MarkDirtyMaterial ==
    /\ marks
    /\ marks' = FALSE
    /\ dirty' = [dirty EXCEPT !.material = TRUE]
    /\ Asks
    /\ UNCHANGED << item, size, linked, inWindow, sourceVars, node, hears, changes >>
=============================================================================
