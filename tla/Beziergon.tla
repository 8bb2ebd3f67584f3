------------------------------ MODULE Beziergon ------------------------------
(***************************************************************************)
(* Beziergon (src/Eos/Items/src/beziergon.cpp): the four corners and eight *)
(* control points of a painted item whose edges are Bezier curves.  A point*)
(* follows the size or other points until it is set; signals and slots     *)
(* carry a change through the points that still follow.                    *)
(***************************************************************************)
EXTENDS SamplerItem

CONSTANT SettablePoints   \* bound: the points that QML sets

VARIABLES
    points,       \* the twelve points
    resolution    \* m_resolution

Corner == {"topLeft", "topRight", "bottomLeft", "bottomRight"}

\* The control points that follow two corners, and those that follow another
\* control point.
FirstControl == {"controlTopLeft", "controlBottomLeft", "controlLeftTop", "controlRightTop"}
SecondControl ==
    {"controlTopRight", "controlBottomRight", "controlLeftBottom", "controlRightBottom"}

Points == Corner \cup FirstControl \cup SecondControl

ASSUME SettableAssumption == SettablePoints \subseteq Points

BeziergonInit ==
    /\ points = [p \in Points |-> << 0, 0 >>]
    /\ resolution = << 4, 4 >>

\* (p + q) * 0.5, for even corners
Middle(p, q) == << (p[1] + q[1]) \div 2, (p[2] + q[2]) \div 2 >>

\* What calculate...() gives a point, in an item of the given size.
Interpolation(at, sz, p) ==
    CASE p = "topLeft"            -> << 0, 0 >>
      [] p = "topRight"           -> << sz[1], 0 >>
      [] p = "bottomLeft"         -> << 0, sz[2] >>
      [] p = "bottomRight"        -> sz
      [] p = "controlTopLeft"     -> Middle(at["topLeft"], at["topRight"])
      [] p = "controlBottomLeft"  -> Middle(at["bottomLeft"], at["bottomRight"])
      [] p = "controlLeftTop"     -> Middle(at["topLeft"], at["bottomLeft"])
      [] p = "controlRightTop"    -> Middle(at["topRight"], at["bottomRight"])
      [] p = "controlTopRight"    -> at["controlTopLeft"]
      [] p = "controlBottomRight" -> at["controlBottomLeft"]
      [] p = "controlLeftBottom"  -> at["controlLeftTop"]
      [] p = "controlRightBottom" -> at["controlRightTop"]

\* The slots that the constructor connected to the ...Changed signal of a control
\* point.
Second(first) ==
    CASE first = "controlTopLeft"    -> "controlTopRight"
      [] first = "controlBottomLeft" -> "controlBottomRight"
      [] first = "controlLeftTop"    -> "controlLeftBottom"
      [] first = "controlRightTop"   -> "controlRightBottom"

\* Mutant: nothing connects bottomRightChanged with the right edge.
SlotsForgotten(corner) ==
    CASE corner = "topLeft" ->
             << "controlTopRight", "controlTopLeft", "controlLeftTop", "controlLeftBottom" >>
      [] corner = "topRight" ->
             << "controlTopRight", "controlTopLeft", "controlRightTop", "controlRightBottom" >>
      [] corner = "bottomLeft" ->
             << "controlBottomRight", "controlBottomLeft",
                "controlLeftTop", "controlLeftBottom" >>
      [] corner = "bottomRight" ->
             << "controlBottomRight", "controlBottomLeft",
                "controlBottomRight", "controlBottomLeft" >>

\* The slots connected to the ...Changed signal of a corner, in their order.
Slots(corner) ==
    CASE corner = "topLeft" ->
             << "controlTopRight", "controlTopLeft", "controlLeftTop", "controlLeftBottom" >>
      [] corner = "topRight" ->
             << "controlTopRight", "controlTopLeft", "controlRightTop", "controlRightBottom" >>
      [] corner = "bottomLeft" ->
             << "controlBottomRight", "controlBottomLeft",
                "controlLeftTop", "controlLeftBottom" >>
      [] corner = "bottomRight" ->
             << "controlBottomRight", "controlBottomLeft",
                "controlRightTop", "controlRightBottom" >>

\* calculate...() of a control point, if it is connected: the points after it and
\* after what its signal calls.
Follows(at, p, links) ==
    IF p \in links THEN [at EXCEPT ![p] = Interpolation(at, << 0, 0 >>, p)] ELSE at

Calculated(at, p, links) ==
    IF p \in FirstControl /\ p \in links
    THEN Follows(Follows(at, p, links), Second(p), links)
    ELSE Follows(at, p, links)

\* The ...Changed signal of a point that has just changed.
Emitted(at, p, links) ==
    IF p \in Corner
    THEN LET slot == Slots(p)
             a == Calculated(at, slot[1], links)
             b == Calculated(a, slot[2], links)
             c == Calculated(b, slot[3], links)
         IN  Calculated(c, slot[4], links)
    ELSE IF p \in FirstControl THEN Follows(at, Second(p), links) ELSE at

\* set...(): the point does not follow any longer.
SetPoint(p, value) ==
    /\ Change
    /\ linked' = linked \ {p}
    /\ IF value = points[p]
       THEN UNCHANGED << points, dirty, asked >>
       ELSE /\ points' = Emitted([points EXCEPT ![p] = value], p, linked')
            /\ dirty' = [dirty EXCEPT !.material = TRUE]
            /\ Asks
    /\ UNCHANGED << item, size, inWindow, sourceVars, renderVars, resolution >>

\* The slots of widthChanged() and heightChanged(): calculate...() of a corner,
\* if it is connected, and its signal.
CornerFollows(at, corner, sz) ==
    IF corner \in linked
    THEN Emitted([at EXCEPT ![corner] = Interpolation(at, sz, corner)], corner, linked)
    ELSE at

SetWidth(w) ==
    /\ Resize(<< w, size[2] >>)
    /\ points' = CornerFollows(CornerFollows(points, "topRight", size'),
                               "bottomRight", size')
    /\ UNCHANGED << dirty, resolution >>

SetHeight(h) ==
    /\ Resize(<< size[1], h >>)
    /\ points' = CornerFollows(CornerFollows(points, "bottomLeft", size'),
                               "bottomRight", size')
    /\ UNCHANGED << dirty, resolution >>

\* setResolution()
SetResolution(r) ==
    /\ Change
    /\ r # resolution
    /\ resolution' = r
    /\ dirty' = [dirty EXCEPT !.geometry = TRUE]
    /\ Asks
    /\ UNCHANGED << item, size, linked, inWindow, sourceVars, renderVars, points >>

\* What the virtual functions give updatePaintNode.
BeziergonGeometry == << resolution, item.antialiasing >>
BeziergonFast == Contains(item.dest, WindowSize) \/ item.clampToEdge

PaintBeziergon ==
    /\ UpdatePaintNode(BeziergonGeometry, points, BeziergonFast)
    /\ UNCHANGED << points, resolution >>

----------------------------------------------------------------------------
\* A point that was never set is where its neighbours or the size put it, through
\* whichever order of signals the last change ran (beziergon.cpp:226-262, 509-522).
DefaultsFollow ==
    \A p \in Points \cap linked : points[p] = Interpolation(points, size, p)
=============================================================================
