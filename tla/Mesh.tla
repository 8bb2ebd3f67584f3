-------------------------------- MODULE Mesh --------------------------------
(***************************************************************************)
(* The triangle meshes of the painted items: generateBodyGeometry() and    *)
(* generateFringeGeometry() of beziergon.cpp and parallelogram.cpp.  A mesh*)
(* is a number of vertices and a list of indices into them, six for each   *)
(* quad; indices are unsigned shorts, counts are ints, and the helpers of  *)
(* securecoding.h saturate.                                                *)
(***************************************************************************)
EXTENDS Integers

CONSTANTS UShortMax, IntMax    \* USHRT_MAX and INT_MAX

ASSUME WidthsAssumption ==
    UShortMax \in Nat /\ IntMax \in Nat /\ 15 <= UShortMax /\ UShortMax < IntMax

\* int2ushort()
Int2UShort(v) == IF v > UShortMax THEN UShortMax ELSE IF v < 0 THEN 0 ELSE v

\* What becomes of an int that is stored in a quint16.
AsUShort(v) == v % (UShortMax + 1)

\* checkIntMax() of numbers that are not negative
CheckIntMax(v) == IF v > IntMax THEN IntMax ELSE v

\* multiplicationInt() of numbers that are not negative
MultiplicationInt(a, b) == IF a * b > IntMax THEN IntMax ELSE a * b

----------------------------------------------------------------------------
(***************************************************************************)
(* The body of a Beziergon with resolution rx, ry: a grid.                 *)
(***************************************************************************)
Across(r) == CheckIntMax(2 + r)

BodyVertexCount(rx, ry) == MultiplicationInt(Across(rx), Across(ry))

BodyIndexCount(rx, ry) ==
    CheckIntMax(CheckIntMax(MultiplicationInt(Across(rx) - 1, Across(ry) - 1) * 2) * 3)

\* The indices of the quad whose upper left vertex is in row y, column x.
BodyQuad(rx, x, y) ==
    LET at    == y * Across(rx) + x
        below == at + Across(rx)
    IN  { AsUShort(at), AsUShort(at + 1), Int2UShort(below), Int2UShort(below + 1) }

BodyIndices(rx, ry) ==
    UNION {BodyQuad(rx, x, y) : x \in 0 .. Across(rx) - 2, y \in 0 .. Across(ry) - 2}

----------------------------------------------------------------------------
(***************************************************************************)
(* Its fringe: strips along the top, the bottom, the left and the right    *)
(* edge, each two vertices wide.                                           *)
(***************************************************************************)
FringeVertexCount(rx, ry) ==
    CheckIntMax((2 * (6 + 2 * rx)) + (2 * (6 + 2 * ry)))

FringeIndexCount(rx, ry) ==
    CheckIntMax(CheckIntMax((2 * (6 + 2 * rx)) + (2 * (2 + 2 * ry))) * 3)

\* Pairs of vertices that the loops write for a horizontal and a vertical strip.
Pairs(rx, ry, edge) == IF edge \in {"top", "bottom"} THEN 4 + rx ELSE 2 + ry

\* Mutant: takes a horizontal strip for one pair shorter than it is.
BaseShort(rx, ry, edge) ==
    CASE edge = "top"    -> 0
      [] edge = "bottom" -> 2 * (rx + 3)
      [] edge = "left"   -> 4 * (rx + 4)
      [] edge = "right"  -> 4 * (rx + 4) + (4 + ry * 2)

\* The first vertex of a strip.
Base(rx, ry, edge) ==
    CASE edge = "top"    -> 0
      [] edge = "bottom" -> 2 * (rx + 4)
      [] edge = "left"   -> 4 * (rx + 4)
      [] edge = "right"  -> 4 * (rx + 4) + (4 + ry * 2)

Edges == {"top", "bottom", "left", "right"}

\* The indices of the k-th quad of a strip that starts at `base'.
StripQuad(base, k) ==
    {Int2UShort(CheckIntMax(base + k * 2 + i)) : i \in 0 .. 3}

Quads(rx, ry, edge) == IF edge \in {"top", "bottom"} THEN rx + 3 ELSE ry + 1

FringeIndices(rx, ry) ==
    UNION {UNION {StripQuad(Base(rx, ry, edge), k) : k \in 0 .. Quads(rx, ry, edge) - 1} :
              edge \in Edges}

----------------------------------------------------------------------------
(***************************************************************************)
(* The meshes of a Parallelogram: one quad, not modelled, and around it the*)
(* fringe, a grid of 4 x 4 vertices whose middle quad is left out.         *)
(***************************************************************************)
FrameQuad(x, y) ==
    {Int2UShort(row * 4 + column) : row \in {y, y + 1}, column \in {x, x + 1}}

FrameIndices ==
    (UNION {FrameQuad(x, y) : x \in 0 .. 2, y \in {0, 2}})
        \cup FrameQuad(0, 1) \cup FrameQuad(2, 1)

FrameVertexCount == 4 * 4

----------------------------------------------------------------------------
\* Nothing saturates in the counts.
CountsFit(rx, ry) ==
    /\ 6 * ((1 + rx) * (1 + ry)) <= IntMax /\ (2 + rx) * (2 + ry) <= IntMax
    /\ 48 + 12 * rx + 12 * ry <= IntMax

\* The asserts at the end of both functions: the loops write as many vertices and
\* indices as were allocated.
Filled(rx, ry) ==
    /\ Across(rx) * Across(ry) = BodyVertexCount(rx, ry)
    /\ 6 * ((Across(rx) - 1) * (Across(ry) - 1)) = BodyIndexCount(rx, ry)
    /\ 2 * (2 * Pairs(rx, ry, "top") + 2 * Pairs(rx, ry, "left"))
            = FringeVertexCount(rx, ry)
    /\ 6 * (2 * Quads(rx, ry, "top") + 2 * Quads(rx, ry, "left"))
            = FringeIndexCount(rx, ry)

\* No index leads outside the mesh, however fine it is.
Inside(rx, ry) ==
    /\ BodyIndices(rx, ry) \subseteq 0 .. BodyVertexCount(rx, ry) - 1
    /\ FringeIndices(rx, ry) \subseteq 0 .. FringeVertexCount(rx, ry) - 1

\* Every vertex belongs to a triangle, in a mesh that unsigned shorts can index.
Covered(rx, ry) ==
    /\ BodyVertexCount(rx, ry) <= UShortMax + 1
          => 0 .. BodyVertexCount(rx, ry) - 1 \subseteq BodyIndices(rx, ry)
    /\ FringeVertexCount(rx, ry) <= UShortMax + 1
          => 0 .. FringeVertexCount(rx, ry) - 1 \subseteq FringeIndices(rx, ry)
=============================================================================
