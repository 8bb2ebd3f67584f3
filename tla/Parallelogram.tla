---------------------------- MODULE Parallelogram ----------------------------
(***************************************************************************)
(* Parallelogram (src/Eos/Items/src/parallelogram.cpp): a painted item that*)
(* is slanted by an angle.  Its vertices lie where size and offset put     *)
(* them, so that each change of these needs another geometry.              *)
(***************************************************************************)
EXTENDS SamplerItem

CONSTANTS Angles, FirstAngle    \* angle(), and the one it starts with

ASSUME AngleAssumption == FirstAngle \in Angles

VARIABLES angle, offset

\* tan(angle) * height: what it depends on stands for the value.
Slant(a, height) == << a, height >>

ParallelogramInit ==
    /\ angle = FirstAngle
    /\ offset = Slant(FirstAngle, 0)

\* Mutant: the offset is kept for the next change of the geometry.
UpdateOffsetOnly(a, height) ==
    /\ offset' = Slant(a, height)
    /\ UNCHANGED dirty

\* updateOffset()
UpdateOffset(a, height) ==
    /\ offset' = Slant(a, height)
    /\ dirty' = [dirty EXCEPT !.geometry = TRUE]

\* markDirtyGeometry() is connected to widthChanged, updateOffset() to
\* heightChanged.
SetWidthOfParallelogram(w) ==
    /\ Resize(<< w, size[2] >>)
    /\ dirty' = [dirty EXCEPT !.geometry = TRUE]
    /\ UNCHANGED << angle, offset >>

SetHeightOfParallelogram(h) ==
    /\ Resize(<< size[1], h >>)
    /\ UpdateOffset(angle, h)
    /\ UNCHANGED angle

\* setAngle()
SetAngle(a) ==
    /\ Change
    /\ a # angle
    /\ angle' = a
    /\ UpdateOffset(a, size[2])
    /\ Asks
    /\ UNCHANGED << item, size, linked, inWindow, sourceVars, renderVars >>

\* What the virtual functions give updatePaintNode: the vertices are computed from
\* the angle, the offset, the size and the antialiasing.
ParallelogramGeometry == << angle, offset, size, item.antialiasing >>
ParallelogramFast == Contains(item.dest, size) \/ item.clampToEdge

PaintParallelogram ==
    /\ UpdatePaintNode(ParallelogramGeometry, None, ParallelogramFast)
    /\ UNCHANGED << angle, offset >>
=============================================================================
