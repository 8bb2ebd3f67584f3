------------------------- MODULE PaintedItemsProofs -------------------------
(***************************************************************************)
(* Proofs about the painted items, for any sources, any resolutions and any*)
(* sequence of changes.                                                    *)
(***************************************************************************)
EXTENDS PaintedItems, SequenceTheorems, WellFoundedInduction, TLAPS

----------------------------------------------------------------------------
(***************************************************************************)
(* The meshes of the painted items are well formed for every resolution.   *)
(***************************************************************************)

\* Products of naturals, which the provers need to be told.
LEMMA ProductBound ==
    ASSUME NEW a \in Nat, NEW b \in Nat, NEW x \in Nat, NEW y \in Nat,
           x < a, y < b
    PROVE  /\ y * a + x < a * b
           /\ y * a + x \in Nat
<1>1. y * a \in Nat /\ a * b \in Nat
  OBVIOUS
<1>2. (y + 1) * a <= b * a
  <2>1. PICK d \in Nat : b = (y + 1) + d
    <3>1. b - (y + 1) \in Nat
      OBVIOUS
    <3> QED BY <3>1
  <2>2. b * a = (y + 1) * a + d * a
    BY <2>1
  <2>3. d * a >= 0
    BY <2>1
  <2> QED BY <2>2, <2>3
<1>3. (y + 1) * a = y * a + a /\ b * a = a * b
  OBVIOUS
<1> QED BY <1>1, <1>2, <1>3

\* An index that is stored stays below the number it was computed from, and below
\* what a quint16 holds.
LEMMA StoredIndex ==
    ASSUME NEW v \in Nat
    PROVE  /\ AsUShort(v) \in Nat /\ AsUShort(v) <= v /\ AsUShort(v) <= UShortMax
           /\ Int2UShort(v) \in Nat /\ Int2UShort(v) <= v /\ Int2UShort(v) <= UShortMax
           /\ v <= UShortMax => AsUShort(v) = v /\ Int2UShort(v) = v
<1>1. v % (UShortMax + 1) \in 0 .. UShortMax
  BY WidthsAssumption
<1>2. v % (UShortMax + 1) <= v /\ (v <= UShortMax => v % (UShortMax + 1) = v)
  BY WidthsAssumption
<1> QED BY <1>1, <1>2, WidthsAssumption DEF AsUShort, Int2UShort

\* The asserts of both functions hold when no count saturates
\* (beziergon.cpp:382-383, 502-503).
THEOREM MeshesAreFilled ==
    ASSUME NEW rx \in Nat, NEW ry \in Nat, CountsFit(rx, ry)
    PROVE  Filled(rx, ry)
<1>1. (2 + rx) * (2 + ry) \in Nat /\ (1 + rx) * (1 + ry) \in Nat
  OBVIOUS
<1>2. (2 + rx) * (2 + ry) = (1 + rx) * (1 + ry) + (1 + rx) + (1 + ry) + 1
  OBVIOUS
<1>3. Across(rx) = 2 + rx /\ Across(ry) = 2 + ry
  <2>1. 2 + rx <= IntMax /\ 2 + ry <= IntMax
    BY WidthsAssumption DEF CountsFit
  <2> QED BY <2>1, WidthsAssumption DEF Across, CheckIntMax
<1>4. Across(rx) * Across(ry) = BodyVertexCount(rx, ry)
  BY <1>1, <1>3, WidthsAssumption DEF BodyVertexCount, MultiplicationInt, CountsFit
<1>5. 6 * ((Across(rx) - 1) * (Across(ry) - 1)) = BodyIndexCount(rx, ry)
  <2>1. Across(rx) - 1 = 1 + rx /\ Across(ry) - 1 = 1 + ry
    BY <1>3
  <2>2. PICK n \in Nat : n = (1 + rx) * (1 + ry)
    BY <1>1
  <2>3. 6 * n <= IntMax
    BY <2>2 DEF CountsFit
  <2>4. MultiplicationInt(1 + rx, 1 + ry) = n
    BY <2>2, <2>3, WidthsAssumption DEF MultiplicationInt
  <2>5. CheckIntMax(CheckIntMax(n * 2) * 3) = 6 * n
    BY <2>3, WidthsAssumption DEF CheckIntMax
  <2> QED BY <2>1, <2>2, <2>4, <2>5 DEF BodyIndexCount
<1>6. 2 * (2 * Pairs(rx, ry, "top") + 2 * Pairs(rx, ry, "left"))
            = FringeVertexCount(rx, ry)
  BY WidthsAssumption DEF Pairs, FringeVertexCount, CheckIntMax, CountsFit
<1>7. 6 * (2 * Quads(rx, ry, "top") + 2 * Quads(rx, ry, "left"))
            = FringeIndexCount(rx, ry)
  BY WidthsAssumption DEF Quads, FringeIndexCount, CheckIntMax, CountsFit
<1> QED BY <1>4, <1>5, <1>6, <1>7 DEF Filled

\* No index of a mesh leads outside, however fine the mesh and whether or not its
\* counts and indices fit their types (beziergon.cpp:373-378, 461-466, 493-498).
THEOREM MeshesStayInside ==
    ASSUME NEW rx \in Nat, NEW ry \in Nat
    PROVE  Inside(rx, ry)
<1> DEFINE A == Across(rx)
<1> DEFINE B == Across(ry)
<1>0. A \in Nat /\ B \in Nat /\ 1 <= A /\ 1 <= B
  BY WidthsAssumption DEF Across, CheckIntMax
<1>1. ASSUME NEW v \in Nat, v < A * B
      PROVE  /\ AsUShort(v) \in 0 .. BodyVertexCount(rx, ry) - 1
             /\ Int2UShort(v) \in 0 .. BodyVertexCount(rx, ry) - 1
  <2>1. A * B \in Nat
    BY <1>0
  <2>2. BodyVertexCount(rx, ry) \in {A * B, IntMax}
    BY DEF BodyVertexCount, MultiplicationInt
  <2> HIDE DEF A, B
  <2> QED BY <1>1, <2>1, <2>2, StoredIndex, WidthsAssumption
<1>2. BodyIndices(rx, ry) \subseteq 0 .. BodyVertexCount(rx, ry) - 1
  <2> SUFFICES ASSUME NEW x \in 0 .. A - 2, NEW y \in 0 .. B - 2
               PROVE  BodyQuad(rx, x, y) \subseteq 0 .. BodyVertexCount(rx, ry) - 1
    BY DEF BodyIndices
  <2> DEFINE at == y * A + x
  <2>1. at \in Nat /\ at + 1 \in Nat /\ at + A \in Nat /\ at + A + 1 \in Nat
    BY <1>0, ProductBound DEF at
  <2>2. at + A = (y + 1) * A + x /\ at + A + 1 = (y + 1) * A + (x + 1)
        /\ at + 1 = y * A + (x + 1)
    BY <1>0
  <2>3. at < A * B /\ at + 1 < A * B /\ at + A < A * B /\ at + A + 1 < A * B
    <3> HIDE DEF A, B
    <3>1. x \in Nat /\ x + 1 \in Nat /\ y \in Nat /\ y + 1 \in Nat
          /\ x < A /\ x + 1 < A /\ y < B /\ y + 1 < B
      BY <1>0
    <3>2. y * A + x < A * B /\ y * A + (x + 1) < A * B
      BY <1>0, <3>1, ProductBound
    <3>3. (y + 1) * A + x < A * B /\ (y + 1) * A + (x + 1) < A * B
      BY <1>0, <3>1, ProductBound
    <3> QED BY <2>2, <3>2, <3>3
  <2> HIDE DEF at
  <2>4. {AsUShort(at), AsUShort(at + 1), Int2UShort(at + A), Int2UShort(at + A + 1)}
            \subseteq 0 .. BodyVertexCount(rx, ry) - 1
    BY <1>1, <2>1, <2>3
  <2> QED BY <2>4 DEF BodyQuad, at
<1>3. ASSUME NEW v \in Nat, v < 24 + 4 * rx + 4 * ry
      PROVE  Int2UShort(CheckIntMax(v)) \in 0 .. FringeVertexCount(rx, ry) - 1
  <2>1. FringeVertexCount(rx, ry) \in {24 + 4 * rx + 4 * ry, IntMax}
    BY DEF FringeVertexCount, CheckIntMax
  <2>2. CheckIntMax(v) \in Nat /\ CheckIntMax(v) <= v
    BY WidthsAssumption DEF CheckIntMax
  <2> QED BY <1>3, <2>1, <2>2, StoredIndex, WidthsAssumption
<1>4. FringeIndices(rx, ry) \subseteq 0 .. FringeVertexCount(rx, ry) - 1
  <2> SUFFICES ASSUME NEW edge \in Edges, NEW k \in 0 .. Quads(rx, ry, edge) - 1,
                      NEW i \in 0 .. 3
               PROVE  Int2UShort(CheckIntMax(Base(rx, ry, edge) + k * 2 + i))
                          \in 0 .. FringeVertexCount(rx, ry) - 1
    BY DEF FringeIndices, StripQuad
  <2>1. /\ Base(rx, ry, edge) + k * 2 + i \in Nat
        /\ Base(rx, ry, edge) + k * 2 + i < 24 + 4 * rx + 4 * ry
    BY DEF Edges, Quads, Base
  <2> QED BY <1>3, <2>1
<1> QED BY <1>2, <1>4 DEF Inside

\* Every vertex is drawn, in meshes whose counts fit and whose vertices unsigned shorts
\* can index.
THEOREM MeshesAreCovered ==
    ASSUME NEW rx \in Nat, NEW ry \in Nat, CountsFit(rx, ry)
    PROVE  Covered(rx, ry)
<1> DEFINE A == Across(rx)
<1> DEFINE B == Across(ry)
<1>1. A \in Nat /\ B \in Nat /\ 2 <= A /\ 2 <= B
  <2>1. 2 <= IntMax
    BY WidthsAssumption DEF CountsFit
  <2> QED BY <2>1, WidthsAssumption DEF Across, CheckIntMax
<1>2. A * B = BodyVertexCount(rx, ry)
  BY MeshesAreFilled DEF Filled
<1>3. ASSUME BodyVertexCount(rx, ry) <= UShortMax + 1,
             NEW v \in 0 .. BodyVertexCount(rx, ry) - 1
      PROVE  v \in BodyIndices(rx, ry)
  <2> HIDE DEF A, B
  <2>1. v \in Nat /\ v < A * B /\ v <= UShortMax /\ A * B \in Nat
    BY <1>1, <1>2, <1>3, WidthsAssumption
  <2> DEFINE x == v % A
  <2> DEFINE y == v \div A
  <2>2. x \in 0 .. A - 1 /\ y \in Nat /\ v = y * A + x
    BY <1>1, <2>1
  <2> HIDE DEF x, y
  <2>3. y <= B - 1
    <3> SUFFICES ASSUME B <= y PROVE FALSE
      BY <1>1, <2>2
    <3>1. PICK d \in Nat : y = B + d
      <4>1. y - B \in Nat
        BY <1>1, <2>2
      <4> QED BY <1>1, <2>2, <4>1
    <3>2. y * A = B * A + d * A /\ d * A \in Nat /\ B * A = A * B
      BY <1>1, <3>1
    <3>3. v = A * B + d * A + x
      BY <2>2, <3>2
    <3>4. PICK m \in Nat, e \in Nat : m = A * B /\ e = d * A
      BY <2>1, <3>2
    <3>5. v = m + e + x /\ v < m
      BY <2>1, <3>3, <3>4
    <3> QED BY <2>1, <2>2, <3>4, <3>5
  <2> DEFINE column == IF x = A - 1 THEN A - 2 ELSE x
  <2> DEFINE row == IF y = B - 1 THEN B - 2 ELSE y
  <2>4. column \in 0 .. A - 2 /\ row \in 0 .. B - 2
    BY <1>1, <2>2, <2>3
  <2>5. x \in {column, column + 1} /\ y \in {row, row + 1}
    BY <1>1, <2>2
  <2> HIDE DEF column, row
  <2>6. v \in {row * A + column, row * A + column + 1,
               row * A + column + A, row * A + column + A + 1}
    <3>1. (row + 1) * A = row * A + A
      BY <1>1, <2>4
    <3> QED BY <1>1, <2>2, <2>4, <2>5, <3>1
  <2>7. v \in BodyQuad(rx, column, row)
    <3>1. AsUShort(v) = v /\ Int2UShort(v) = v
      BY <2>1, StoredIndex
    <3>2. BodyQuad(rx, column, row) =
              {AsUShort(row * A + column), AsUShort(row * A + column + 1),
               Int2UShort(row * A + column + A), Int2UShort(row * A + column + A + 1)}
      BY DEF BodyQuad, A
    <3> QED BY <2>6, <3>1, <3>2
  <2> QED BY <2>4, <2>7 DEF BodyIndices, A, B
<1>4. ASSUME FringeVertexCount(rx, ry) <= UShortMax + 1,
             NEW v \in 0 .. FringeVertexCount(rx, ry) - 1
      PROVE  v \in FringeIndices(rx, ry)
  <2>1. FringeVertexCount(rx, ry) = 24 + 4 * rx + 4 * ry
    BY WidthsAssumption DEF FringeVertexCount, CheckIntMax, CountsFit
  <2>2. v \in Nat /\ v < 24 + 4 * rx + 4 * ry /\ Int2UShort(CheckIntMax(v)) = v
    <3>1. v \in Nat /\ v <= UShortMax /\ v <= IntMax
      BY <1>4, <2>1, WidthsAssumption
    <3> QED BY <1>4, <2>1, <3>1, StoredIndex, WidthsAssumption DEF CheckIntMax
  <2>3. \E edge \in Edges : \E k \in 0 .. Quads(rx, ry, edge) - 1, i \in 0 .. 3 :
            v = Base(rx, ry, edge) + k * 2 + i
    <3>1. ASSUME NEW edge \in Edges, NEW n \in Nat, n <= 2 * Quads(rx, ry, edge) + 1,
                 v = Base(rx, ry, edge) + n
          PROVE  \E k \in 0 .. Quads(rx, ry, edge) - 1, i \in 0 .. 3 :
                     v = Base(rx, ry, edge) + k * 2 + i
      <4>0. Quads(rx, ry, edge) \in Nat /\ 1 <= Quads(rx, ry, edge)
            /\ Base(rx, ry, edge) \in Nat
        BY DEF Edges, Quads, Base
      <4>1. CASE n >= 2 * Quads(rx, ry, edge)
        <5>1. Quads(rx, ry, edge) - 1 \in 0 .. Quads(rx, ry, edge) - 1
              /\ n - 2 * (Quads(rx, ry, edge) - 1) \in 0 .. 3
              /\ v = Base(rx, ry, edge) + (Quads(rx, ry, edge) - 1) * 2
                         + (n - 2 * (Quads(rx, ry, edge) - 1))
          BY <3>1, <4>0, <4>1
        <5> DEFINE k == Quads(rx, ry, edge) - 1
        <5> DEFINE i == n - 2 * (Quads(rx, ry, edge) - 1)
        <5>2. k \in 0 .. Quads(rx, ry, edge) - 1 /\ i \in 0 .. 3
              /\ v = Base(rx, ry, edge) + k * 2 + i
          BY <5>1
        <5> HIDE DEF k, i
        <5> QED BY <5>2
      <4>2. CASE n < 2 * Quads(rx, ry, edge)
        <5>1. n \div 2 \in 0 .. Quads(rx, ry, edge) - 1 /\ n % 2 \in 0 .. 3
              /\ v = Base(rx, ry, edge) + (n \div 2) * 2 + (n % 2)
          BY <3>1, <4>0, <4>2
        <5> DEFINE k == n \div 2
        <5> DEFINE i == n % 2
        <5>2. k \in 0 .. Quads(rx, ry, edge) - 1 /\ i \in 0 .. 3
              /\ v = Base(rx, ry, edge) + k * 2 + i
          BY <5>1
        <5> HIDE DEF k, i
        <5> QED BY <5>2
      <4> QED BY <3>1, <4>0, <4>1, <4>2
    <3>2. CASE v < 2 * (rx + 4)
      BY <2>2, <3>1, <3>2 DEF Edges, Quads, Base
    <3>3. CASE 2 * (rx + 4) <= v /\ v < 4 * (rx + 4)
      <4>1. v - 2 * (rx + 4) \in Nat
            /\ v - 2 * (rx + 4) <= 2 * Quads(rx, ry, "bottom") + 1
            /\ v = Base(rx, ry, "bottom") + (v - 2 * (rx + 4))
        BY <2>2, <3>3 DEF Quads, Base
      <4> QED BY <3>1, <4>1 DEF Edges
    <3>4. CASE 4 * (rx + 4) <= v /\ v < 4 * (rx + 4) + (4 + ry * 2)
      <4>1. v - 4 * (rx + 4) \in Nat
            /\ v - 4 * (rx + 4) <= 2 * Quads(rx, ry, "left") + 1
            /\ v = Base(rx, ry, "left") + (v - 4 * (rx + 4))
        BY <2>2, <3>4 DEF Quads, Base
      <4> QED BY <3>1, <4>1 DEF Edges
    <3>5. CASE 4 * (rx + 4) + (4 + ry * 2) <= v
      <4>1. v - (4 * (rx + 4) + (4 + ry * 2)) \in Nat
            /\ v - (4 * (rx + 4) + (4 + ry * 2)) <= 2 * Quads(rx, ry, "right") + 1
            /\ v = Base(rx, ry, "right") + (v - (4 * (rx + 4) + (4 + ry * 2)))
        BY <2>2, <3>5 DEF Quads, Base
      <4> QED BY <3>1, <4>1 DEF Edges
    <3> QED BY <2>2, <3>2, <3>3, <3>4, <3>5
  <2> QED BY <2>2, <2>3 DEF FringeIndices, StripQuad
<1> QED BY <1>3, <1>4 DEF Covered

----------------------------------------------------------------------------
(***************************************************************************)
(* The items and their nodes.                                              *)
(***************************************************************************)

Places == Int \X Int
Geometries ==
    ((Resolutions \cup {<< 4, 4 >>}) \X BOOLEAN)
        \cup (Angles \X (Angles \X Int) \X Places \X BOOLEAN)
Materials ==
    [color : Colors, dest : Places, state : [Points -> Places] \cup {None},
     blending : BOOLEAN, fast : BOOLEAN, provider : Providers \cup {None}]
PartNames == {{}, {"body"}, {"body", "fringe"}}

\* Types of the item and its nodes.
PaintTypeOK ==
    /\ item \in [color : Colors, blending : BOOLEAN, antialiasing : BOOLEAN,
                 clampToEdge : BOOLEAN, sourceItem : Sources \cup {None}, dest : Places]
    /\ size \in Places
    /\ dirty \in [geometry : BOOLEAN, material : BOOLEAN, newMaterial : BOOLEAN]
    /\ asked \in BOOLEAN /\ inWindow \in BOOLEAN /\ marks \in BOOLEAN
    /\ providerOf \in [Sources -> Providers \cup {None}]
    /\ gone \subseteq Sources /\ dying \subseteq Providers
    /\ refs \in [Sources -> Int]
    /\ DOMAIN node \in PartNames
    /\ node \in [DOMAIN node -> [geometry : Geometries, material : Materials]]
    /\ hears \in [provider : Providers \cup {None}, by : {"body", "fringe", "nobody"}]
    /\ points \in [Points -> Places]
    /\ resolution \in Resolutions \cup {<< 4, 4 >>}
    /\ angle \in Angles /\ offset \in Angles \X Int
    /\ kind \in Kinds

\* From the first paint on each paint creates the materials: m_newMaterial is set for as
\* long as there are nodes.
NewStays == DOMAIN node # {} => dirty.newMaterial

LEMMA PaintTypeInit == Init => PaintTypeOK
<1> SUFFICES ASSUME Init PROVE PaintTypeOK
  OBVIOUS
<1> USE DEF Init, ItemInit
<1>1. << 0, 0 >> \in Places
  BY DEF Places
<1>2. item \in [color : Colors, blending : BOOLEAN, antialiasing : BOOLEAN,
                clampToEdge : BOOLEAN, sourceItem : Sources \cup {None}, dest : Places]
      /\ size \in Places
  BY <1>1 DEF Colors
<1>3. dirty \in [geometry : BOOLEAN, material : BOOLEAN, newMaterial : BOOLEAN]
      /\ asked \in BOOLEAN /\ inWindow \in BOOLEAN /\ marks \in BOOLEAN
  OBVIOUS
<1>4. providerOf \in [Sources -> Providers \cup {None}] /\ gone \subseteq Sources
      /\ dying \subseteq Providers /\ refs \in [Sources -> Int]
  OBVIOUS
<1>5. /\ DOMAIN node \in PartNames
      /\ node \in [DOMAIN node -> [geometry : Geometries, material : Materials]]
  BY DEF PartNames
<1>6. hears \in [provider : Providers \cup {None}, by : {"body", "fringe", "nobody"}]
  BY DEF Disconnected
<1>7. points \in [Points -> Places] /\ resolution \in Resolutions \cup {<< 4, 4 >>}
      /\ angle \in Angles /\ offset \in Angles \X Int /\ kind \in Kinds
  BY <1>1, AngleAssumption DEF BeziergonInit, ParallelogramInit, Slant
<1> QED BY <1>2, <1>3, <1>4, <1>5, <1>6, <1>7 DEF PaintTypeOK

\* Every way of the points keeps them points.
LEMMA CalculatedType ==
    ASSUME NEW at \in [Points -> Places], NEW p \in Points, NEW links
    PROVE  /\ Follows(at, p, links) \in [Points -> Places]
           /\ Calculated(at, p, links) \in [Points -> Places]
<1>1. ASSUME NEW b \in [Points -> Places], NEW q \in Points, NEW sz \in Places
      PROVE  Interpolation(b, sz, q) \in Places
  BY <1>1 DEF Interpolation, Middle, Points, Corner, FirstControl, SecondControl, Places
<1>2. ASSUME NEW b \in [Points -> Places], NEW q \in Points
      PROVE  Follows(b, q, links) \in [Points -> Places]
  <2>1. << 0, 0 >> \in Places
    BY DEF Places
  <2> QED BY <1>1, <1>2, <2>1 DEF Follows
<1>3. p \in FirstControl => Second(p) \in Points
  BY DEF FirstControl, Second, Points, SecondControl
<1> QED BY <1>2, <1>3 DEF Calculated

LEMMA EmittedType ==
    ASSUME NEW at \in [Points -> Places], NEW p \in Points, NEW links
    PROVE  Emitted(at, p, links) \in [Points -> Places]
<1>1. CASE p \in Corner
  <2>1. /\ Slots(p)[1] \in Points /\ Slots(p)[2] \in Points
        /\ Slots(p)[3] \in Points /\ Slots(p)[4] \in Points
    BY <1>1 DEF Corner, Slots, Points, FirstControl, SecondControl
  <2> DEFINE a == Calculated(at, Slots(p)[1], links)
  <2> DEFINE b == Calculated(a, Slots(p)[2], links)
  <2> DEFINE c == Calculated(b, Slots(p)[3], links)
  <2>2. a \in [Points -> Places]
    BY <2>1, CalculatedType
  <2>3. b \in [Points -> Places]
    BY <2>1, <2>2, CalculatedType
  <2>4. c \in [Points -> Places]
    BY <2>1, <2>3, CalculatedType
  <2>5. Calculated(c, Slots(p)[4], links) \in [Points -> Places]
    BY <2>1, <2>4, CalculatedType
  <2> QED BY <1>1, <2>5 DEF Emitted
<1>2. CASE p \notin Corner
  <2>1. p \in FirstControl => Second(p) \in Points
    BY DEF FirstControl, Second, Points, SecondControl
  <2> QED BY <1>2, <2>1, CalculatedType DEF Emitted
<1> QED BY <1>1, <1>2

LEMMA CornerFollowsType ==
    ASSUME NEW at \in [Points -> Places], NEW corner \in Corner, NEW sz \in Places
    PROVE  CornerFollows(at, corner, sz) \in [Points -> Places]
<1>1. corner \in Points /\ Interpolation(at, sz, corner) \in Places
  BY DEF Points, Corner, Interpolation, Places
<1>2. [at EXCEPT ![corner] = Interpolation(at, sz, corner)] \in [Points -> Places]
  BY <1>1
<1> QED BY <1>1, <1>2, EmittedType DEF CornerFollows

\* What a paint leaves, since every material is new: the part painted last hears of
\* the provider.
Painted == IF DOMAIN node # {} /\ ~dirty.geometry THEN DOMAIN node
           ELSE IF item.antialiasing THEN {"body", "fringe"} ELSE {"body"}

Provided == IF item.sourceItem = None THEN None ELSE providerOf[item.sourceItem]

Last(parts) == IF "fringe" \in parts THEN "fringe" ELSE "body"

NewPart(part, geometry, state, fast) ==
    [geometry |-> IF DOMAIN node # {} /\ ~dirty.geometry
                  THEN node[part].geometry ELSE geometry,
     material |-> [color |-> item.color, dest |-> item.dest, state |-> state,
                   blending |-> part = "fringe" \/ item.blending,
                   fast |-> fast, provider |-> Provided]]

LEMMA PaintResult ==
    ASSUME PaintTypeOK, NewStays, NEW geometry, NEW state, NEW fast,
           UpdatePaintNode(geometry, state, fast)
    PROVE  /\ DOMAIN node' = Painted
           /\ node' = [part \in DOMAIN node' |-> node'[part]]
           /\ dirty' = [geometry |-> FALSE, material |-> FALSE, newMaterial |-> TRUE]
           /\ Provided # None => hears' = [provider |-> Provided, by |-> Last(Painted)]
           /\ hears' \in [provider : Providers \cup {None}, by : {"body", "fringe", "nobody"}]
           /\ UNCHANGED << item, size, linked, inWindow, sourceVars, marks, changes >>
           /\ asked' = FALSE /\ inWindow
<1> DEFINE first == DOMAIN node = {}
<1> DEFINE shape == first \/ dirty.geometry
<1> DEFINE isNew == first \/ dirty.newMaterial
<1> DEFINE redo == isNew \/ dirty.material
<1> DEFINE parts == IF ~shape THEN DOMAIN node
                    ELSE IF item.antialiasing THEN {"body", "fringe"} ELSE {"body"}
<1> DEFINE Old(part) == IF isNew THEN None ELSE node[part].material.provider
<1> DEFINE New(part) == IF item.sourceItem = None THEN Old(part)
                                                  ELSE providerOf[item.sourceItem]
<1> DEFINE before == IF hears.by \in parts THEN hears ELSE [hears EXCEPT !.by = "nobody"]
<1> DEFINE byBody == Hears(before, Old("body"), New("body"), "body")
<1>1. /\ node' = [part \in parts |->
            [geometry |-> IF shape THEN geometry ELSE node[part].geometry,
             material |-> IF ~redo THEN node[part].material
                          ELSE [color |-> item.color, dest |-> item.dest,
                                state |-> state,
                                blending |-> part = "fringe" \/ item.blending,
                                fast |-> IF isNew THEN fast ELSE node[part].material.fast,
                                provider |-> New(part)]]]
      /\ hears' = IF ~redo THEN before
                  ELSE IF "fringe" \notin parts THEN byBody
                  ELSE Hears(byBody, Old("fringe"), New("fringe"), "fringe")
      /\ dirty' = Clean(isNew)
      /\ UNCHANGED << item, size, linked, inWindow, sourceVars, marks, changes >>
      /\ asked' = FALSE /\ inWindow
  BY DEF UpdatePaintNode
<1>2. isNew /\ redo /\ dirty' = [geometry |-> FALSE, material |-> FALSE, newMaterial |-> TRUE]
  BY <1>1 DEF NewStays, Clean
<1>3. parts = Painted
  BY DEF Painted
<1>4. \A part : Old(part) = None /\ New(part) = Provided
  BY <1>2 DEF Provided
<1>5. node' = [part \in Painted |->
                 [geometry |-> IF DOMAIN node # {} /\ ~dirty.geometry
                               THEN node[part].geometry ELSE geometry,
                  material |-> [color |-> item.color, dest |-> item.dest, state |-> state,
                                blending |-> part = "fringe" \/ item.blending,
                                fast |-> fast, provider |-> Provided]]]
  <2> HIDE DEF isNew, redo, Old, New, parts
  <2> QED BY <1>1, <1>2, <1>3, <1>4
<1>5a. node' = [part \in Painted |-> NewPart(part, geometry, state, fast)]
  BY <1>5 DEF NewPart
<1>6. hears' = IF "fringe" \notin Painted THEN Hears(before, None, Provided, "body")
              ELSE Hears(Hears(before, None, Provided, "body"), None, Provided, "fringe")
  <2> HIDE DEF isNew, redo, Old, New, parts, before
  <2> QED BY <1>1, <1>2, <1>3, <1>4
<1>7. before \in [provider : Providers \cup {None}, by : {"body", "fringe", "nobody"}]
  BY DEF PaintTypeOK
<1>8. Provided \in Providers \cup {None} /\ (item.sourceItem = None => Provided = None)
  BY DEF PaintTypeOK, Provided
<1>9. /\ Provided # None => hears' = [provider |-> Provided, by |-> Last(Painted)]
      /\ hears' \in [provider : Providers \cup {None}, by : {"body", "fringe", "nobody"}]
  <2> HIDE DEF before
  <2> QED BY <1>6, <1>7, <1>8 DEF Hears, Last, Disconnected
<1> QED BY <1>1, <1>2, <1>5a, <1>9

LEMMA PaintedPart ==
    ASSUME PaintTypeOK, NewStays, NEW geometry, NEW state, NEW fast,
           UpdatePaintNode(geometry, state, fast), NEW part \in Painted
    PROVE  node'[part] = NewPart(part, geometry, state, fast)
<1>1. node'[part] = [geometry |-> IF DOMAIN node # {} /\ ~dirty.geometry
                                  THEN node[part].geometry ELSE geometry,
                     material |-> [color |-> item.color, dest |-> item.dest,
                                   state |-> state,
                                   blending |-> part = "fringe" \/ item.blending,
                                   fast |-> fast, provider |-> Provided]]
  BY DEF UpdatePaintNode, NewStays, Painted, Provided
<1> QED BY <1>1 DEF NewPart

LEMMA PaintType ==
    ASSUME PaintTypeOK, NewStays, NEW geometry \in Geometries,
           NEW state \in [Points -> Places] \cup {None}, NEW fast \in BOOLEAN,
           UpdatePaintNode(geometry, state, fast)
    PROVE  /\ DOMAIN node' \in PartNames
           /\ node' \in [DOMAIN node' -> [geometry : Geometries, material : Materials]]
           /\ NewStays'
<1>1. Painted \in PartNames
  BY DEF Painted, PartNames, PaintTypeOK
<1>2. Provided \in Providers \cup {None} /\ item.color \in Colors /\ item.dest \in Places
      /\ item.blending \in BOOLEAN
  BY DEF PaintTypeOK, Provided
<1>3. ASSUME NEW part \in Painted
      PROVE  NewPart(part, geometry, state, fast)
                 \in [geometry : Geometries, material : Materials]
  <2>1. DOMAIN node # {} /\ ~dirty.geometry => node[part].geometry \in Geometries
    BY <1>3 DEF PaintTypeOK, Painted
  <2>2. (part = "fringe" \/ item.blending) \in BOOLEAN
    OBVIOUS
  <2> QED BY <1>2, <2>1, <2>2 DEF Materials, NewPart
<1>4. DOMAIN node' = Painted
  BY PaintResult
<1>5. node' \in [Painted -> [geometry : Geometries, material : Materials]]
  <2>1. \A part \in Painted : node'[part] = NewPart(part, geometry, state, fast)
    BY PaintedPart
  <2>2. node' = [part \in DOMAIN node' |-> node'[part]]
    BY PaintResult
  <2> QED BY <1>3, <1>4, <2>1, <2>2
<1>6. NewStays'
  <2>1. dirty' = [geometry |-> FALSE, material |-> FALSE, newMaterial |-> TRUE]
    BY PaintResult
  <2> QED BY <2>1 DEF NewStays
<1> QED BY <1>1, <1>4, <1>5, <1>6

LEMMA SettersType ==
    ASSUME PaintTypeOK, NewStays,
           \/ \E color \in Colors : SetColor(color)
           \/ \E b \in BOOLEAN : SetBlending(b) \/ SetAntialiasing(b) \/ SetClampToEdge(b)
           \/ \E l \in Lengths : SetDest(<< l, l >>),
           UNCHANGED << subclassVars, kind >>
    PROVE  PaintTypeOK' /\ NewStays'
<1> USE DEF PaintTypeOK, NewStays, subclassVars, sourceVars, renderVars, Change, Asks
<1>1. ASSUME NEW color \in Colors, SetColor(color)
      PROVE  PaintTypeOK' /\ NewStays'
  <2>1. item' \in [color : Colors, blending : BOOLEAN, antialiasing : BOOLEAN,
                   clampToEdge : BOOLEAN, sourceItem : Sources \cup {None}, dest : Places]
    BY <1>1 DEF SetColor, Blended, CalculatedBlending
  <2>2. /\ dirty' \in [geometry : BOOLEAN, material : BOOLEAN, newMaterial : BOOLEAN]
        /\ dirty'.newMaterial = dirty.newMaterial
    BY <1>1 DEF SetColor, Blended
  <2> QED BY <1>1, <2>1, <2>2 DEF SetColor
<1>2. ASSUME NEW b \in BOOLEAN, SetBlending(b)
      PROVE  PaintTypeOK' /\ NewStays'
  BY <1>2 DEF SetBlending, Blended
<1>3. ASSUME NEW b \in BOOLEAN, SetAntialiasing(b)
      PROVE  PaintTypeOK' /\ NewStays'
  BY <1>3 DEF SetAntialiasing
<1>4. ASSUME NEW b \in BOOLEAN, SetClampToEdge(b)
      PROVE  PaintTypeOK' /\ NewStays'
  BY <1>4 DEF SetClampToEdge
<1>5. ASSUME NEW d \in Places, SetDest(d)
      PROVE  PaintTypeOK' /\ NewStays'
  <2>1. CASE d = item.dest
    BY <1>5, <2>1 DEF SetDest
  <2>2. CASE d # item.dest
    <3>1. item' = [item EXCEPT !.dest = d] /\ dirty' = [dirty EXCEPT !.material = TRUE]
          /\ asked'
      BY <1>5, <2>2 DEF SetDest
    <3>2. item' \in [color : Colors, blending : BOOLEAN, antialiasing : BOOLEAN,
                     clampToEdge : BOOLEAN, sourceItem : Sources \cup {None},
                     dest : Places]
      BY <3>1
    <3>3. dirty' \in [geometry : BOOLEAN, material : BOOLEAN, newMaterial : BOOLEAN]
          /\ (dirty.newMaterial => dirty'.newMaterial) /\ asked' \in BOOLEAN
      BY <3>1
    <3> QED BY <1>5, <3>2, <3>3 DEF SetDest
  <2> QED BY <2>1, <2>2
<1>6. \A l \in Lengths : << l, l >> \in Places
  BY DEF Lengths, Places
<1> QED BY <1>1, <1>2, <1>3, <1>4, <1>5, <1>6

LEMMA SourcesType ==
    ASSUME PaintTypeOK, NewStays,
           \/ \E s \in Sources \cup {None} : SetSourceItem(s)
           \/ \E s \in Sources : SourceDestroyed(s) \/ LayerChanges(s)
           \/ SceneChanges
           \/ MarkDirtyMaterial
           \/ \E p \in Providers : ProviderDestroyed(p),
           UNCHANGED << subclassVars, kind >>
    PROVE  PaintTypeOK' /\ NewStays'
<1> USE DEF PaintTypeOK, NewStays, subclassVars, itemVars, sourceVars, renderVars, Change,
            Asks
<1>1. ASSUME NEW s \in Sources \cup {None}, SourceBecomes(s)
      PROVE  /\ item' \in [color : Colors, blending : BOOLEAN, antialiasing : BOOLEAN,
                            clampToEdge : BOOLEAN, sourceItem : Sources \cup {None},
                            dest : Places]
             /\ dirty' \in [geometry : BOOLEAN, material : BOOLEAN, newMaterial : BOOLEAN]
             /\ dirty.newMaterial => dirty'.newMaterial
             /\ asked' \in BOOLEAN
             /\ refs' \in [Sources -> Int]
  <2>1. CASE s = item.sourceItem
    BY <1>1, <2>1 DEF SourceBecomes
  <2>2. CASE s # item.sourceItem
    <3>1. /\ item' = [item EXCEPT !.sourceItem = s]
          /\ refs' = Referred(item.sourceItem, s)
          /\ dirty' = [dirty EXCEPT !.material = TRUE,
                          !.newMaterial = @ \/ None \in {s, item.sourceItem}]
          /\ asked'
      BY <1>1, <2>2 DEF SourceBecomes
    <3>2. refs' \in [Sources -> Int]
      BY <3>1 DEF Referred
    <3>3. item' \in [color : Colors, blending : BOOLEAN, antialiasing : BOOLEAN,
                     clampToEdge : BOOLEAN, sourceItem : Sources \cup {None},
                     dest : Places]
      BY <3>1
    <3>4. /\ dirty' \in [geometry : BOOLEAN, material : BOOLEAN, newMaterial : BOOLEAN]
          /\ dirty.newMaterial => dirty'.newMaterial
      BY <3>1
    <3> QED BY <3>1, <3>2, <3>3, <3>4
  <2> QED BY <2>1, <2>2
<1>2. ASSUME NEW s \in Sources \cup {None}, SetSourceItem(s)
      PROVE  PaintTypeOK' /\ NewStays'
  <2>1. PICK t \in Sources \cup {None} : SourceBecomes(t)
    BY <1>2 DEF SetSourceItem
  <2> QED BY <1>1, <1>2, <2>1 DEF SetSourceItem
<1>3. ASSUME NEW s \in Sources, SourceDestroyed(s)
      PROVE  PaintTypeOK' /\ NewStays'
  <2>1. CASE s = item.sourceItem
    BY <1>1, <1>3, <2>1 DEF SourceDestroyed
  <2>2. CASE s # item.sourceItem
    BY <1>3, <2>2 DEF SourceDestroyed
  <2> QED BY <2>1, <2>2
<1>4. ASSUME NEW s \in Sources, LayerChanges(s)
      PROVE  PaintTypeOK' /\ NewStays'
  BY <1>4 DEF LayerChanges
<1>5. CASE SceneChanges
  <2>1. refs' \in [Sources -> Int] /\ inWindow' \in BOOLEAN
    BY <1>5 DEF SceneChanges
  <2>2. /\ DOMAIN node' \in PartNames
        /\ node' \in [DOMAIN node' -> [geometry : Geometries, material : Materials]]
        /\ DOMAIN node' # {} => DOMAIN node # {}
    BY <1>5 DEF SceneChanges, PartNames
  <2>3. hears' \in [provider : Providers \cup {None}, by : {"body", "fringe", "nobody"}]
        /\ asked' \in BOOLEAN
    <3>1. CASE inWindow
      BY <1>5, <3>1 DEF SceneChanges
    <3>2. CASE ~inWindow
      BY <1>5, <3>2 DEF SceneChanges
    <3> QED BY <3>1, <3>2
  <2>4. UNCHANGED << item, size, dirty, marks, providerOf, gone, dying >>
    BY <1>5 DEF SceneChanges
  <2> QED BY <2>1, <2>2, <2>3, <2>4
<1>6. CASE MarkDirtyMaterial
  BY <1>6 DEF MarkDirtyMaterial
<1>7. ASSUME NEW p \in Providers, ProviderDestroyed(p)
      PROVE  PaintTypeOK' /\ NewStays'
  <2>1. DOMAIN node' = DOMAIN node
        /\ node' \in [DOMAIN node -> [geometry : Geometries, material : Materials]]
    <3>1. CASE node' = node
      BY <3>1
    <3>2. CASE /\ hears.by \in DOMAIN node
               /\ node' = [node EXCEPT ![hears.by].material.provider = None]
      <4> DEFINE Part == [geometry : Geometries, material : Materials]
                 part == node[hears.by]
                 new == [part EXCEPT !.material.provider = None]
      <4>1. part \in Part
        BY <3>2
      <4>2. [part.material EXCEPT !.provider = None] \in Materials
        <5>1. part.material \in Materials
          BY <4>1
        <5> QED BY <5>1 DEF Materials
      <4>3. new = [part EXCEPT !.material = [part.material EXCEPT !.provider = None]]
        BY <4>1
      <4>4. new \in Part
        BY <4>1, <4>2, <4>3
      <4>5. node' = [node EXCEPT ![hears.by] = new]
        BY <3>2
      <4> HIDE DEF Part, new
      <4>6. node \in [DOMAIN node -> Part]
        BY DEF Part
      <4>7. DOMAIN node' = DOMAIN node /\ node' \in [DOMAIN node -> Part]
        BY <4>4, <4>5, <4>6
      <4> QED BY <4>7 DEF Part
    <3> QED BY <1>7, <3>1, <3>2 DEF ProviderDestroyed
  <2>2. marks' \in BOOLEAN /\ dying' \subseteq Providers
    BY <1>7 DEF ProviderDestroyed
  <2>3. hears' = hears \/ hears' = Disconnected
    BY <1>7 DEF ProviderDestroyed
  <2>4. hears' \in [provider : Providers \cup {None}, by : {"body", "fringe", "nobody"}]
    BY <2>3 DEF Disconnected
  <2> QED BY <1>7, <2>1, <2>2, <2>4 DEF ProviderDestroyed
<1> QED BY <1>2, <1>3, <1>4, <1>5, <1>6, <1>7

LEMMA BeziergonType ==
    ASSUME PaintTypeOK, NewStays, BeziergonNext
    PROVE  PaintTypeOK' /\ NewStays'
<1> USE DEF sourceVars, renderVars, Change, Asks
<1>0. UNCHANGED << angle, offset, kind >>
  BY DEF BeziergonNext
<1>1. ASSUME NEW p \in Points, NEW value \in Places, SetPoint(p, value)
      PROVE  PaintTypeOK' /\ NewStays'
  <2>1. points' \in [Points -> Places]
    <3>1. [points EXCEPT ![p] = value] \in [Points -> Places]
      BY DEF PaintTypeOK
    <3>2. points' = points \/ points' = Emitted([points EXCEPT ![p] = value], p, linked')
      BY <1>1 DEF SetPoint
    <3>3. Emitted([points EXCEPT ![p] = value], p, linked') \in [Points -> Places]
      BY <3>1, EmittedType
    <3> QED BY <3>2, <3>3 DEF PaintTypeOK
  <2>2. /\ dirty' \in [geometry : BOOLEAN, material : BOOLEAN, newMaterial : BOOLEAN]
        /\ dirty.newMaterial => dirty'.newMaterial
        /\ asked' \in BOOLEAN
    BY <1>1 DEF SetPoint, PaintTypeOK
  <2> QED BY <1>0, <1>1, <2>1, <2>2 DEF SetPoint, PaintTypeOK, NewStays
<1>2. ASSUME NEW sz \in Places, Resize(sz), UNCHANGED << dirty, resolution >>,
             points' \in [Points -> Places]
      PROVE  PaintTypeOK' /\ NewStays'
  <2>1. item' \in [color : Colors, blending : BOOLEAN, antialiasing : BOOLEAN,
                   clampToEdge : BOOLEAN, sourceItem : Sources \cup {None}, dest : Places]
    BY <1>2 DEF Resize, PaintTypeOK
  <2> QED BY <1>0, <1>2, <2>1 DEF Resize, PaintTypeOK, NewStays
<1>3. ASSUME NEW l \in Lengths, SetWidth(l)
      PROVE  PaintTypeOK' /\ NewStays'
  <2>1. size' = << l, size[2] >> /\ size' \in Places /\ points \in [Points -> Places]
    BY <1>3 DEF SetWidth, Resize, Lengths, Places, PaintTypeOK
  <2>2. points' \in [Points -> Places]
    <3>1. CornerFollows(points, "topRight", size') \in [Points -> Places]
      BY <2>1, CornerFollowsType DEF Corner
    <3> QED BY <1>3, <2>1, <3>1, CornerFollowsType DEF SetWidth, Corner
  <2> QED BY <1>2, <1>3, <2>1, <2>2 DEF SetWidth
<1>4. ASSUME NEW l \in Lengths, SetHeight(l)
      PROVE  PaintTypeOK' /\ NewStays'
  <2>1. size' = << size[1], l >> /\ size' \in Places /\ points \in [Points -> Places]
    BY <1>4 DEF SetHeight, Resize, Lengths, Places, PaintTypeOK
  <2>2. points' \in [Points -> Places]
    <3>1. CornerFollows(points, "bottomLeft", size') \in [Points -> Places]
      BY <2>1, CornerFollowsType DEF Corner
    <3> QED BY <1>4, <2>1, <3>1, CornerFollowsType DEF SetHeight, Corner
  <2> QED BY <1>2, <1>4, <2>1, <2>2 DEF SetHeight
<1>5. ASSUME NEW r \in Resolutions, SetResolution(r)
      PROVE  PaintTypeOK' /\ NewStays'
  BY <1>0, <1>5 DEF SetResolution, PaintTypeOK, NewStays
<1>6. CASE PaintBeziergon
  <2>1. BeziergonGeometry \in Geometries /\ BeziergonFast \in BOOLEAN
        /\ points \in [Points -> Places] \cup {None}
    BY DEF PaintTypeOK, BeziergonGeometry, BeziergonFast, Contains, Geometries
  <2>2. UpdatePaintNode(BeziergonGeometry, points, BeziergonFast)
        /\ UNCHANGED << points, resolution >>
    BY <1>6 DEF PaintBeziergon
  <2>3. /\ DOMAIN node' \in PartNames
        /\ node' \in [DOMAIN node' -> [geometry : Geometries, material : Materials]]
        /\ NewStays'
    BY <2>1, <2>2, PaintType
  <2>4. /\ dirty' = [geometry |-> FALSE, material |-> FALSE, newMaterial |-> TRUE]
        /\ hears' \in [provider : Providers \cup {None}, by : {"body", "fringe", "nobody"}]
        /\ UNCHANGED << item, size, linked, inWindow, sourceVars, marks, changes >>
        /\ asked' = FALSE
    BY <2>2, PaintResult
  <2> QED BY <1>0, <2>2, <2>3, <2>4 DEF PaintTypeOK
<1>7. \A l \in Lengths : << l, l >> \in Places
  BY DEF Lengths, Places
<1> QED BY <1>1, <1>3, <1>4, <1>5, <1>6, <1>7, SettableAssumption DEF BeziergonNext

LEMMA ParallelogramType ==
    ASSUME PaintTypeOK, NewStays, ParallelogramNext
    PROVE  PaintTypeOK' /\ NewStays'
<1> USE DEF sourceVars, renderVars, Change, Asks
<1>0. UNCHANGED << points, resolution, kind >>
  BY DEF ParallelogramNext
<1>1. ASSUME NEW sz \in Places, Resize(sz), angle' = angle, offset' \in Angles \X Int,
             dirty' = [dirty EXCEPT !.geometry = TRUE]
      PROVE  PaintTypeOK' /\ NewStays'
  <2>1. item' \in [color : Colors, blending : BOOLEAN, antialiasing : BOOLEAN,
                   clampToEdge : BOOLEAN, sourceItem : Sources \cup {None}, dest : Places]
    BY <1>1 DEF Resize, PaintTypeOK
  <2>2. /\ dirty' \in [geometry : BOOLEAN, material : BOOLEAN, newMaterial : BOOLEAN]
        /\ dirty.newMaterial => dirty'.newMaterial
    BY <1>1 DEF PaintTypeOK
  <2> QED BY <1>0, <1>1, <2>1, <2>2 DEF Resize, PaintTypeOK, NewStays
<1>2. ASSUME NEW l \in Lengths, SetWidthOfParallelogram(l)
      PROVE  PaintTypeOK' /\ NewStays'
  <2>1. << l, size[2] >> \in Places /\ offset \in Angles \X Int
    BY DEF Lengths, Places, PaintTypeOK
  <2> QED BY <1>1, <1>2, <2>1 DEF SetWidthOfParallelogram
<1>3. ASSUME NEW l \in Lengths, SetHeightOfParallelogram(l)
      PROVE  PaintTypeOK' /\ NewStays'
  <2>1. << size[1], l >> \in Places /\ Slant(angle, l) \in Angles \X Int
    BY DEF Lengths, Places, PaintTypeOK, Slant
  <2> QED BY <1>1, <1>3, <2>1 DEF SetHeightOfParallelogram, UpdateOffset
<1>4. ASSUME NEW a \in Angles, SetAngle(a)
      PROVE  PaintTypeOK' /\ NewStays'
  <2>1. Slant(a, size[2]) \in Angles \X Int
    BY DEF Places, PaintTypeOK, Slant
  <2>2. /\ dirty' \in [geometry : BOOLEAN, material : BOOLEAN, newMaterial : BOOLEAN]
        /\ dirty.newMaterial => dirty'.newMaterial
    BY <1>4 DEF SetAngle, UpdateOffset, PaintTypeOK
  <2> QED BY <1>0, <1>4, <2>1, <2>2 DEF SetAngle, UpdateOffset, PaintTypeOK, NewStays
<1>5. CASE PaintParallelogram
  <2>1. ParallelogramGeometry \in Geometries /\ ParallelogramFast \in BOOLEAN
    BY DEF PaintTypeOK, ParallelogramGeometry, ParallelogramFast, Contains, Geometries
  <2>2. UpdatePaintNode(ParallelogramGeometry, None, ParallelogramFast)
        /\ UNCHANGED << angle, offset >>
    BY <1>5 DEF PaintParallelogram
  <2>3. /\ DOMAIN node' \in PartNames
        /\ node' \in [DOMAIN node' -> [geometry : Geometries, material : Materials]]
        /\ NewStays'
    BY <2>1, <2>2, PaintType
  <2>4. /\ dirty' = [geometry |-> FALSE, material |-> FALSE, newMaterial |-> TRUE]
        /\ hears' \in [provider : Providers \cup {None}, by : {"body", "fringe", "nobody"}]
        /\ UNCHANGED << item, size, linked, inWindow, sourceVars, marks, changes >>
        /\ asked' = FALSE
    BY <2>2, PaintResult
  <2> QED BY <1>0, <2>2, <2>3, <2>4 DEF PaintTypeOK
<1> QED BY <1>2, <1>3, <1>4, <1>5 DEF ParallelogramNext

\* Types, and materials that are created at every paint after the first, for every
\* run of the items.
THEOREM PaintTyped == Spec => [](PaintTypeOK /\ NewStays)
<1>1. Init => PaintTypeOK /\ NewStays
  BY PaintTypeInit DEF Init, ItemInit, NewStays
<1>2. PaintTypeOK /\ NewStays /\ [Next]_vars => PaintTypeOK' /\ NewStays'
  <2> SUFFICES ASSUME PaintTypeOK, NewStays, [Next]_vars
               PROVE  PaintTypeOK' /\ NewStays'
    OBVIOUS
  <2>1. CASE ItemNext
    BY <2>1, SettersType, SourcesType DEF ItemNext
  <2>2. CASE BeziergonNext
    BY <2>2, BeziergonType
  <2>3. CASE ParallelogramNext
    BY <2>3, ParallelogramType
  <2>4. CASE ProvidersNext
    BY <2>4, SourcesType DEF ProvidersNext
  <2>5. CASE UNCHANGED vars
    BY <2>5 DEF vars, itemVars, sourceVars, renderVars, subclassVars, PaintTypeOK,
                NewStays
  <2> QED BY <2>1, <2>2, <2>3, <2>4, <2>5 DEF Next
<1> QED BY <1>1, <1>2, PTL DEF Spec

----------------------------------------------------------------------------
(***************************************************************************)
(* The geometry of the nodes is the item's, or is marked for the next      *)
(* paint.                                                                  *)
(***************************************************************************)
CurrentGeometry == IF kind = "beziergon" THEN BeziergonGeometry ELSE ParallelogramGeometry

GeometryCurrent ==
    DOMAIN node # {} /\ ~dirty.geometry =>
        \A part \in DOMAIN node : node[part].geometry = CurrentGeometry

\* A Beziergon's nodes have the mesh of a resolution that it had.
MeshKnown ==
    DOMAIN node # {} /\ kind = "beziergon" =>
        node["body"].geometry[1] \in Resolutions \cup {<< 4, 4 >>}

ShapeInv == FringeWhenNeeded /\ GeometryCurrent /\ MeshKnown

\* A step that leaves the nodes' geometries alone, and says so when they are outdated.
ShapeKept ==
    /\ DOMAIN node' = {} \/
           /\ DOMAIN node' = DOMAIN node
           /\ \A part \in DOMAIN node : node'[part].geometry = node[part].geometry
    /\ dirty'.geometry \/ /\ ~dirty.geometry
                          /\ item'.antialiasing = item.antialiasing
                          /\ CurrentGeometry' = CurrentGeometry
    /\ kind' = kind

LEMMA KeptShape ==
    ASSUME PaintTypeOK, ShapeInv, ShapeKept
    PROVE  ShapeInv'
<1>1. FringeWhenNeeded'
  BY DEF ShapeInv, ShapeKept, FringeWhenNeeded
<1>2. GeometryCurrent'
  BY DEF ShapeInv, ShapeKept, GeometryCurrent
<1>3. MeshKnown'
  <2> SUFFICES ASSUME DOMAIN node' # {}, kind' = "beziergon"
               PROVE  node'["body"].geometry[1] \in Resolutions \cup {<< 4, 4 >>}
    BY DEF MeshKnown
  <2>1. "body" \in DOMAIN node /\ kind = "beziergon"
    BY DEF ShapeKept, PaintTypeOK, PartNames
  <2> QED BY <2>1 DEF ShapeKept, ShapeInv, MeshKnown
<1> QED BY <1>1, <1>2, <1>3 DEF ShapeInv

LEMMA ItemShape ==
    ASSUME PaintTypeOK, ItemNext \/ ProvidersNext
    PROVE  ShapeKept
<1> USE DEF PaintTypeOK, subclassVars, itemVars, sourceVars, renderVars
<1>0. UNCHANGED << subclassVars, kind >>
  BY DEF ItemNext, ProvidersNext
<1>1. CurrentGeometry' = CurrentGeometry
          \/ item'.antialiasing # item.antialiasing \/ size' # size
  BY <1>0 DEF CurrentGeometry, BeziergonGeometry, ParallelogramGeometry
<1>2. ASSUME NEW color \in Colors, SetColor(color)
      PROVE  ShapeKept
  BY <1>0, <1>1, <1>2 DEF SetColor, Blended, ShapeKept
<1>3. ASSUME NEW b \in BOOLEAN, SetBlending(b)
      PROVE  ShapeKept
  BY <1>0, <1>1, <1>3 DEF SetBlending, Blended, ShapeKept
<1>4. ASSUME NEW b \in BOOLEAN, SetAntialiasing(b)
      PROVE  ShapeKept
  BY <1>0, <1>4 DEF SetAntialiasing, ShapeKept
<1>5. ASSUME NEW b \in BOOLEAN, SetClampToEdge(b)
      PROVE  ShapeKept
  BY <1>0, <1>1, <1>5 DEF SetClampToEdge, ShapeKept
<1>6. ASSUME NEW d, SetDest(d)
      PROVE  ShapeKept
  <2>1. CASE d = item.dest
    BY <1>0, <1>1, <1>6, <2>1 DEF SetDest, ShapeKept
  <2>2. CASE d # item.dest
    <3>1. item'.antialiasing = item.antialiasing /\ dirty'.geometry = dirty.geometry
          /\ UNCHANGED << size, node >>
      BY <1>6, <2>2 DEF SetDest
    <3> QED BY <1>0, <1>1, <3>1 DEF ShapeKept
  <2> QED BY <2>1, <2>2
<1>7. ASSUME NEW s, SourceBecomes(s), UNCHANGED << size, node >>
      PROVE  ShapeKept
  <2>1. item'.antialiasing = item.antialiasing /\ dirty'.geometry = dirty.geometry
    <3>1. CASE s = item.sourceItem
      BY <1>7, <3>1 DEF SourceBecomes
    <3>2. CASE s # item.sourceItem
      <4>1. /\ item' = [item EXCEPT !.sourceItem = s]
            /\ dirty' = [dirty EXCEPT !.material = TRUE,
                            !.newMaterial = @ \/ None \in {s, item.sourceItem}]
        BY <1>7, <3>2 DEF SourceBecomes
      <4> QED BY <4>1
    <3> QED BY <3>1, <3>2
  <2> QED BY <1>0, <1>1, <1>7, <2>1 DEF ShapeKept
<1>8. ASSUME NEW s, SetSourceItem(s)
      PROVE  ShapeKept
  BY <1>7, <1>8 DEF SetSourceItem
<1>9. ASSUME NEW s, SourceDestroyed(s)
      PROVE  ShapeKept
  <2>1. CASE s = item.sourceItem
    BY <1>7, <1>9, <2>1 DEF SourceDestroyed
  <2>2. CASE s # item.sourceItem
    BY <1>0, <1>1, <1>9, <2>2 DEF SourceDestroyed, ShapeKept
  <2> QED BY <2>1, <2>2
<1>10. ASSUME NEW s, LayerChanges(s)
       PROVE  ShapeKept
  BY <1>0, <1>1, <1>10 DEF LayerChanges, ShapeKept
<1>11. CASE SceneChanges
  BY <1>0, <1>1, <1>11 DEF SceneChanges, ShapeKept
<1>12. CASE MarkDirtyMaterial
  BY <1>0, <1>1, <1>12 DEF MarkDirtyMaterial, ShapeKept
<1>13. ASSUME NEW p, ProviderDestroyed(p)
       PROVE  ShapeKept
  <2>1. DOMAIN node' = DOMAIN node
        /\ \A part \in DOMAIN node : node'[part].geometry = node[part].geometry
    BY <1>13 DEF ProviderDestroyed
  <2>2. UNCHANGED << item, size, dirty >>
    BY <1>13 DEF ProviderDestroyed
  <2> QED BY <1>0, <1>1, <2>1, <2>2 DEF ShapeKept
<1> QED BY <1>2, <1>3, <1>4, <1>5, <1>6, <1>8, <1>9, <1>10, <1>11, <1>12, <1>13
        DEF ItemNext, ProvidersNext

\* After a paint every part has the current geometry, and the fringe is there when it
\* should be.
LEMMA PaintShape ==
    ASSUME PaintTypeOK, NewStays, ShapeInv, NEW state, NEW fast,
           UpdatePaintNode(CurrentGeometry, state, fast),
           UNCHANGED << subclassVars, kind >>
    PROVE  /\ ShapeInv'
           /\ \A part \in DOMAIN node' : node'[part].geometry = CurrentGeometry
<1>1. /\ DOMAIN node' = Painted
      /\ item' = item /\ size' = size /\ CurrentGeometry' = CurrentGeometry
  <2>1. DOMAIN node' = Painted /\ item' = item /\ size' = size
    BY PaintResult
  <2> QED BY <2>1 DEF CurrentGeometry, BeziergonGeometry, ParallelogramGeometry,
                      subclassVars
<1>2. ASSUME NEW part \in Painted
      PROVE  node'[part].geometry = CurrentGeometry
  <2>1. node'[part] = NewPart(part, CurrentGeometry, state, fast)
    BY PaintedPart
  <2> QED BY <2>1 DEF NewPart, Painted, ShapeInv, GeometryCurrent
<1>3. item.antialiasing <=> "fringe" \in Painted
  BY DEF Painted, ShapeInv, FringeWhenNeeded, PaintTypeOK
<1>4. "body" \in Painted
  BY DEF Painted, PaintTypeOK, PartNames
<1>5. MeshKnown'
  <2> SUFFICES ASSUME kind' = "beziergon"
               PROVE  node'["body"].geometry[1] \in Resolutions \cup {<< 4, 4 >>}
    BY DEF MeshKnown
  <2>1. node'["body"].geometry = << resolution, item.antialiasing >>
    BY <1>2, <1>4 DEF CurrentGeometry, BeziergonGeometry
  <2> QED BY <2>1 DEF PaintTypeOK
<1> QED BY <1>1, <1>2, <1>3, <1>5 DEF ShapeInv, FringeWhenNeeded, GeometryCurrent

LEMMA SubclassShape ==
    ASSUME PaintTypeOK, NewStays, ShapeInv, BeziergonNext \/ ParallelogramNext
    PROVE  ShapeInv'
<1> USE DEF sourceVars, renderVars
<1>1. ASSUME NEW p, NEW value, SetPoint(p, value), kind = "beziergon", kind' = kind
      PROVE  ShapeKept
  BY <1>1 DEF SetPoint, ShapeKept, PaintTypeOK, CurrentGeometry, BeziergonGeometry
<1>2. ASSUME NEW l, SetWidth(l) \/ SetHeight(l), kind = "beziergon", kind' = kind
      PROVE  ShapeKept
  <2>1. item'.antialiasing = item.antialiasing /\ UNCHANGED << dirty, resolution, node >>
    BY <1>2 DEF SetWidth, SetHeight, Resize, PaintTypeOK
  <2> QED BY <1>2, <2>1 DEF ShapeKept, PaintTypeOK, CurrentGeometry, BeziergonGeometry
<1>3. ASSUME NEW r, SetResolution(r), kind' = kind
      PROVE  ShapeKept
  BY <1>3 DEF SetResolution, ShapeKept, PaintTypeOK
<1>4. ASSUME NEW l, SetWidthOfParallelogram(l) \/ SetHeightOfParallelogram(l), kind' = kind
      PROVE  ShapeKept
  <2>1. dirty'.geometry /\ UNCHANGED node
    BY <1>4 DEF SetWidthOfParallelogram, SetHeightOfParallelogram, UpdateOffset, Resize,
                PaintTypeOK
  <2> QED BY <1>4, <2>1 DEF ShapeKept
<1>5. ASSUME NEW a, SetAngle(a), kind' = kind
      PROVE  ShapeKept
  BY <1>5 DEF SetAngle, UpdateOffset, ShapeKept, PaintTypeOK
<1>6. CASE BeziergonNext /\ PaintBeziergon
  <2>1. UpdatePaintNode(CurrentGeometry, points, BeziergonFast)
        /\ UNCHANGED << subclassVars, kind >>
    BY <1>6 DEF BeziergonNext, PaintBeziergon, CurrentGeometry, subclassVars
  <2> QED BY <2>1, PaintShape
<1>7. CASE ParallelogramNext /\ PaintParallelogram
  <2>1. UpdatePaintNode(CurrentGeometry, None, ParallelogramFast)
        /\ UNCHANGED << subclassVars, kind >>
    BY <1>7 DEF ParallelogramNext, PaintParallelogram, CurrentGeometry, subclassVars
  <2> QED BY <2>1, PaintShape
<1> QED BY <1>1, <1>2, <1>3, <1>4, <1>5, <1>6, <1>7, KeptShape
        DEF BeziergonNext, ParallelogramNext

LEMMA ShapeInvariant == Spec => [](PaintTypeOK /\ NewStays /\ ShapeInv)
<1>1. Init => ShapeInv
  BY DEF Init, ItemInit, ShapeInv, FringeWhenNeeded, GeometryCurrent, MeshKnown
<1>2. PaintTypeOK /\ NewStays /\ ShapeInv /\ [Next]_vars => ShapeInv'
  <2> SUFFICES ASSUME PaintTypeOK, NewStays, ShapeInv, [Next]_vars
               PROVE  ShapeInv'
    OBVIOUS
  <2>1. CASE UNCHANGED vars
    <3>1. UNCHANGED << item, size, dirty, node, points, resolution, angle, offset, kind >>
      BY <2>1 DEF vars, itemVars, renderVars, subclassVars
    <3> QED BY <3>1 DEF ShapeInv, FringeWhenNeeded, GeometryCurrent, MeshKnown,
                        CurrentGeometry, BeziergonGeometry, ParallelogramGeometry
  <2> QED BY <2>1, ItemShape, KeptShape, SubclassShape DEF Next
<1> QED BY <1>1, <1>2, PaintTyped, PTL DEF Spec

\* An antialiased item that is painted has its fringe, after any changes in any order.
THEOREM FringeIsThere == Spec => []FringeWhenNeeded
BY ShapeInvariant, PTL DEF ShapeInv

\* The mesh of any item that is painted is filled, stays inside and leaves no vertex
\* out, whatever resolutions it was given.
THEOREM MeshDrawn == Spec => []MeshIsDrawn
<1>1. PaintTypeOK /\ MeshKnown => MeshIsDrawn
  <2> SUFFICES ASSUME PaintTypeOK, MeshKnown, DOMAIN node # {}
               PROVE  IF kind = "beziergon"
                      THEN LET r == node["body"].geometry[1]
                           IN  Filled(r[1], r[2]) /\ Inside(r[1], r[2])
                                   /\ Covered(r[1], r[2])
                      ELSE FrameIndices = 0 .. FrameVertexCount - 1
    BY DEF MeshIsDrawn
  <2>1. ASSUME kind = "beziergon", NEW r, r = node["body"].geometry[1]
        PROVE  Filled(r[1], r[2]) /\ Inside(r[1], r[2]) /\ Covered(r[1], r[2])
    <3>1. r[1] \in Nat /\ r[2] \in Nat /\ CountsFit(r[1], r[2])
      BY <2>1, ResolutionsAssumption DEF MeshKnown
    <3> QED BY <3>1, MeshesAreFilled, MeshesStayInside, MeshesAreCovered
  <2>2. FrameIndices = 0 .. FrameVertexCount - 1
    <3>1. \A x \in 0 .. 2, y \in 0 .. 2 :
              FrameQuad(x, y) = {y * 4 + x, y * 4 + x + 1, y * 4 + 4 + x, y * 4 + 4 + x + 1}
      <4> TAKE x \in 0 .. 2, y \in 0 .. 2
      <4>1. \A v \in 0 .. 15 : Int2UShort(v) = v
        BY WidthsAssumption DEF Int2UShort
      <4>2. y * 4 + x \in 0 .. 15 /\ y * 4 + (x + 1) \in 0 .. 15
            /\ (y + 1) * 4 + x \in 0 .. 15 /\ (y + 1) * 4 + (x + 1) \in 0 .. 15
        OBVIOUS
      <4>3. FrameQuad(x, y) =
                {Int2UShort(y * 4 + x), Int2UShort(y * 4 + (x + 1)),
                 Int2UShort((y + 1) * 4 + x), Int2UShort((y + 1) * 4 + (x + 1))}
        BY DEF FrameQuad
      <4> QED BY <4>1, <4>2, <4>3
    <3>2. FrameIndices = UNION {FrameQuad(0, 0), FrameQuad(1, 0), FrameQuad(2, 0),
                                FrameQuad(0, 1), FrameQuad(2, 1),
                                FrameQuad(0, 2), FrameQuad(1, 2), FrameQuad(2, 2)}
      <4>1. 0 .. 2 = {0, 1, 2}
        OBVIOUS
      <4>2. UNION {FrameQuad(x, y) : x \in {0, 1, 2}, y \in {0, 2}} =
                UNION {FrameQuad(0, 0), FrameQuad(1, 0), FrameQuad(2, 0),
                       FrameQuad(0, 2), FrameQuad(1, 2), FrameQuad(2, 2)}
        OBVIOUS
      <4> QED BY <4>1, <4>2 DEF FrameIndices
    <3>3. /\ FrameQuad(0, 0) = {0, 1, 4, 5}  /\ FrameQuad(1, 0) = {1, 2, 5, 6}
          /\ FrameQuad(2, 0) = {2, 3, 6, 7}  /\ FrameQuad(0, 1) = {4, 5, 8, 9}
          /\ FrameQuad(2, 1) = {6, 7, 10, 11} /\ FrameQuad(0, 2) = {8, 9, 12, 13}
          /\ FrameQuad(1, 2) = {9, 10, 13, 14} /\ FrameQuad(2, 2) = {10, 11, 14, 15}
      BY <3>1
    <3>4. FrameIndices = {0, 1, 2, 3, 4, 5, 6, 7, 8, 9, 10, 11, 12, 13, 14, 15}
      BY <3>2, <3>3
    <3> QED BY <3>4 DEF FrameVertexCount
  <2> QED BY <2>1, <2>2
<1> QED BY <1>1, ShapeInvariant, PTL DEF ShapeInv

\* Nothing that changed since the last paint is forgotten by the next one.
THEOREM PaintShows == Spec => PaintShowsItem
<1>1. PaintTypeOK /\ NewStays /\ ShapeInv /\ [Next]_vars =>
          (Paint => \A part \in DOMAIN node' : Shows(part)')
  <2> SUFFICES ASSUME PaintTypeOK, NewStays, ShapeInv, kind' = kind, Paint
               PROVE  \A part \in DOMAIN node' : Shows(part)'
    BY DEF Next, vars, ItemNext, BeziergonNext, ParallelogramNext, ProvidersNext
  <2> TAKE part \in DOMAIN node'
  <2>1. ASSUME NEW geometry, NEW state, NEW fast, UpdatePaintNode(geometry, state, fast)
        PROVE  node'[part] = NewPart(part, geometry, state, fast)
               /\ DOMAIN node' = Painted /\ UNCHANGED << item, size >>
    <3>1. DOMAIN node' = Painted /\ UNCHANGED << item, size >>
      BY <2>1, PaintResult
    <3>2. part \in Painted
      BY <3>1
    <3> QED BY <2>1, <3>1, <3>2, PaintedPart
  <2>2. CASE kind = "beziergon" /\ PaintBeziergon
    <3>1. node'[part] = NewPart(part, BeziergonGeometry, points, BeziergonFast)
          /\ DOMAIN node' = Painted /\ UNCHANGED << item, size, points, resolution >>
      BY <2>1, <2>2 DEF PaintBeziergon
    <3>2. node'[part].geometry = BeziergonGeometry
      BY <2>2, <3>1 DEF NewPart, Painted, ShapeInv, GeometryCurrent, CurrentGeometry
    <3>3. node'[part].material =
              [color |-> item.color, dest |-> item.dest, state |-> points,
               blending |-> part = "fringe" \/ item.blending,
               fast |-> BeziergonFast, provider |-> Provided]
      BY <3>1 DEF NewPart
    <3>4. BeziergonGeometry' = BeziergonGeometry /\ BeziergonFast' = BeziergonFast
      BY <3>1 DEF BeziergonGeometry, BeziergonFast
    <3> QED BY <2>2, <3>1, <3>2, <3>3, <3>4 DEF Shows
  <2>3. CASE kind = "parallelogram" /\ PaintParallelogram
    <3>1. node'[part] = NewPart(part, ParallelogramGeometry, None, ParallelogramFast)
          /\ DOMAIN node' = Painted /\ UNCHANGED << item, size, angle, offset >>
      BY <2>1, <2>3 DEF PaintParallelogram
    <3>2. node'[part].geometry = ParallelogramGeometry
      BY <2>3, <3>1 DEF NewPart, Painted, ShapeInv, GeometryCurrent, CurrentGeometry
    <3>3. node'[part].material =
              [color |-> item.color, dest |-> item.dest, state |-> None,
               blending |-> part = "fringe" \/ item.blending,
               fast |-> ParallelogramFast, provider |-> Provided]
      BY <3>1 DEF NewPart
    <3>4. /\ ParallelogramGeometry' = ParallelogramGeometry
          /\ ParallelogramFast' = ParallelogramFast
      BY <3>1 DEF ParallelogramGeometry, ParallelogramFast
    <3> QED BY <2>3, <3>1, <3>2, <3>3, <3>4 DEF Shows
  <2> QED BY <2>2, <2>3 DEF Paint
<1> QED BY <1>1, ShapeInvariant, PTL DEF PaintShowsItem, Spec

----------------------------------------------------------------------------
(***************************************************************************)
(* The references to the window, and the provider of the last node.        *)
(***************************************************************************)
\* What no step of a subclass changes.
LEMMA SubclassKeeps ==
    ASSUME BeziergonNext \/ ParallelogramNext, PaintTypeOK
    PROVE  /\ UNCHANGED << inWindow, providerOf, gone, refs, dying >>
           /\ item'.sourceItem = item.sourceItem
           /\ \/ UNCHANGED << node, hears >>
              \/ \E geometry, state, fast : UpdatePaintNode(geometry, state, fast)
<1> USE DEF sourceVars, renderVars
<1>1. ASSUME NEW p, NEW value, SetPoint(p, value)
      PROVE  UNCHANGED << inWindow, providerOf, gone, refs, dying, item, node, hears >>
  BY <1>1 DEF SetPoint
<1>2. ASSUME NEW sz, Resize(sz)
      PROVE  /\ UNCHANGED << inWindow, providerOf, gone, refs, dying, node, hears >>
             /\ item'.sourceItem = item.sourceItem
  BY <1>2 DEF Resize, PaintTypeOK
<1>3. ASSUME NEW r, SetResolution(r)
      PROVE  UNCHANGED << inWindow, providerOf, gone, refs, dying, item, node, hears >>
  BY <1>3 DEF SetResolution
<1>4. ASSUME NEW a, SetAngle(a)
      PROVE  UNCHANGED << inWindow, providerOf, gone, refs, dying, item, node, hears >>
  BY <1>4 DEF SetAngle
<1>5. ASSUME NEW geometry, NEW state, NEW fast, UpdatePaintNode(geometry, state, fast)
      PROVE  UNCHANGED << inWindow, providerOf, gone, refs, dying, item >>
  BY <1>5 DEF UpdatePaintNode
<1>6. ASSUME BeziergonNext
      PROVE  \/ \E p, value : SetPoint(p, value)
             \/ \E sz : Resize(sz)
             \/ \E r : SetResolution(r)
             \/ \E geometry, state, fast : UpdatePaintNode(geometry, state, fast)
  BY <1>6 DEF BeziergonNext, SetWidth, SetHeight, PaintBeziergon
<1>7. ASSUME ParallelogramNext
      PROVE  \/ \E sz : Resize(sz)
             \/ \E a : SetAngle(a)
             \/ \E geometry, state, fast : UpdatePaintNode(geometry, state, fast)
  BY <1>7 DEF ParallelogramNext, SetWidthOfParallelogram, SetHeightOfParallelogram,
              PaintParallelogram
<1> QED BY <1>1, <1>2, <1>3, <1>4, <1>5, <1>6, <1>7

\* Every reference to the window is taken back, in any order of changes of the source,
\* of the window and of the source's own life.
THEOREM RefsBalanced == Spec => []WindowRefsBalanced
<1>1. Init => WindowRefsBalanced
  BY NoneAssumption DEF Init, ItemInit, WindowRefsBalanced
<1>2. PaintTypeOK /\ WindowRefsBalanced /\ [Next]_vars => WindowRefsBalanced'
  <2> SUFFICES ASSUME PaintTypeOK, WindowRefsBalanced, [Next]_vars
               PROVE  WindowRefsBalanced'
    OBVIOUS
  <2> USE DEF sourceVars, renderVars, itemVars
  <2>0. ASSUME UNCHANGED << refs, inWindow >>, item'.sourceItem = item.sourceItem
        PROVE  WindowRefsBalanced'
    BY <2>0 DEF WindowRefsBalanced
  <2>1. ASSUME NEW s \in Sources \cup {None}, SourceBecomes(s), UNCHANGED inWindow
        PROVE  WindowRefsBalanced'
    <3>1. CASE s = item.sourceItem
      BY <2>0, <2>1, <3>1 DEF SourceBecomes
    <3>2. CASE s # item.sourceItem
      <4>1. item'.sourceItem = s /\ refs' = Referred(item.sourceItem, s)
        BY <2>1, <3>2 DEF SourceBecomes, PaintTypeOK
      <4> QED BY <2>1, <3>2, <4>1, NoneAssumption DEF Referred, WindowRefsBalanced,
                 PaintTypeOK
    <3> QED BY <3>1, <3>2
  <2>2. ASSUME NEW s \in Sources \cup {None}, SetSourceItem(s)
        PROVE  WindowRefsBalanced'
    <3>1. PICK t \in Sources \cup {None} : SourceBecomes(t)
      BY <2>2 DEF SetSourceItem
    <3> QED BY <2>1, <2>2, <3>1 DEF SetSourceItem
  <2>3. ASSUME NEW s \in Sources, SourceDestroyed(s)
        PROVE  WindowRefsBalanced'
    <3>1. CASE s = item.sourceItem
      BY <2>1, <2>3, <3>1 DEF SourceDestroyed
    <3>2. CASE s # item.sourceItem
      BY <2>0, <2>3, <3>2 DEF SourceDestroyed
    <3> QED BY <3>1, <3>2
  <2>4. CASE SceneChanges
    <3>1. /\ inWindow' = ~inWindow /\ item' = item
          /\ refs' = [s \in Sources |->
                         IF s # item.sourceItem THEN refs[s]
                         ELSE IF inWindow THEN refs[s] - 1 ELSE refs[s] + 1]
      BY <2>4 DEF SceneChanges
    <3>2. ASSUME NEW s \in Sources
          PROVE  refs'[s] = IF inWindow' /\ s = item'.sourceItem THEN 1 ELSE 0
      <4>1. refs[s] = IF inWindow /\ s = item.sourceItem THEN 1 ELSE 0
        BY DEF WindowRefsBalanced
      <4>2. (inWindow' <=> ~inWindow) /\ item'.sourceItem = item.sourceItem
            /\ refs[s] \in Int
        BY <3>1 DEF PaintTypeOK
      <4>3. refs'[s] = IF s # item.sourceItem THEN refs[s]
                       ELSE IF inWindow THEN refs[s] - 1 ELSE refs[s] + 1
        BY <3>1
      <4>4. CASE inWindow
        BY <4>1, <4>2, <4>3, <4>4
      <4>5. CASE ~inWindow
        BY <4>1, <4>2, <4>3, <4>5
      <4> QED BY <4>4, <4>5
    <3> QED BY <3>2 DEF WindowRefsBalanced
  <2>5. ASSUME NEW color, SetColor(color)
        PROVE  WindowRefsBalanced'
    <3>1. UNCHANGED << refs, inWindow >> /\ item'.sourceItem = item.sourceItem
      BY <2>5 DEF SetColor, Blended, PaintTypeOK
    <3> QED BY <2>0, <3>1
  <2>6. ASSUME NEW b, SetBlending(b) \/ SetAntialiasing(b) \/ SetClampToEdge(b)
        PROVE  WindowRefsBalanced'
    <3>1. UNCHANGED << refs, inWindow >> /\ item'.sourceItem = item.sourceItem
      BY <2>6 DEF SetBlending, SetAntialiasing, SetClampToEdge, Blended, PaintTypeOK
    <3> QED BY <2>0, <3>1
  <2>7. ASSUME NEW d, SetDest(d)
        PROVE  WindowRefsBalanced'
    <3>1. UNCHANGED << refs, inWindow >> /\ item'.sourceItem = item.sourceItem
      BY <2>7 DEF SetDest, PaintTypeOK
    <3> QED BY <2>0, <3>1
  <2>8. ASSUME NEW s, LayerChanges(s)
        PROVE  WindowRefsBalanced'
    BY <2>0, <2>8 DEF LayerChanges
  <2>9. CASE MarkDirtyMaterial
    BY <2>0, <2>9 DEF MarkDirtyMaterial
  <2>10. CASE ProvidersNext
    BY <2>0, <2>10 DEF ProvidersNext, ProviderDestroyed
  <2>11. CASE BeziergonNext \/ ParallelogramNext
    BY <2>0, <2>11, SubclassKeeps
  <2>12. CASE UNCHANGED vars
    BY <2>0, <2>12 DEF vars
  <2> QED BY <2>2, <2>3, <2>4, <2>5, <2>6, <2>7, <2>8, <2>9, <2>10, <2>11, <2>12
          DEF Next, ItemNext
<1> QED BY <1>1, <1>2, PaintTyped, PTL DEF Spec

\* The part that was painted last hears of the end of its provider, which still lives.
LastHears ==
    DOMAIN node # {} /\ node[Last(DOMAIN node)].material.provider # None =>
        /\ hears = [provider |-> node[Last(DOMAIN node)].material.provider,
                    by |-> Last(DOMAIN node)]
        /\ hears.provider \in Live

\* The last node forgets each provider that is destroyed, whatever came before.
THEOREM LastForgets == Spec => []LastNodeForgetsProvider
<1>1. Init => LastHears
  BY DEF Init, ItemInit, LastHears
<1>2. PaintTypeOK /\ NewStays /\ LastHears /\ [Next]_vars => LastHears'
  <2> SUFFICES ASSUME PaintTypeOK, NewStays, LastHears, [Next]_vars
               PROVE  LastHears'
    OBVIOUS
  <2> USE DEF sourceVars, renderVars, itemVars
  <2>0. ASSUME UNCHANGED << node, hears >>, Live \subseteq Live'
        PROVE  LastHears'
    BY <2>0 DEF LastHears
  <2>1. ASSUME UNCHANGED << providerOf, dying >>
        PROVE  Live' = Live
    BY <2>1 DEF Live
  <2>2. ASSUME NEW s \in Sources, SourceDestroyed(s)
        PROVE  LastHears'
    <3>1. /\ dying' = dying \cup ({providerOf[s]} \ {None})
          /\ providerOf' = [providerOf EXCEPT ![s] = None]
          /\ UNCHANGED << node, hears >>
      BY <2>2 DEF SourceDestroyed
    <3>2. Live \subseteq Live'
      BY <3>1 DEF Live, PaintTypeOK
    <3> QED BY <2>0, <3>1, <3>2
  <2>3. ASSUME NEW s \in Sources, LayerChanges(s)
        PROVE  LastHears'
    <3>1. UNCHANGED << node, hears >>
      BY <2>3 DEF LayerChanges
    <3>2. CASE providerOf[s] = None
      <4>1. PICK p : providerOf' = [providerOf EXCEPT ![s] = p] /\ dying' = dying
        BY <2>3, <3>2 DEF LayerChanges
      <4>2. Live \subseteq Live'
        BY <3>2, <4>1 DEF Live, PaintTypeOK
      <4> QED BY <2>0, <3>1, <4>2
    <3>3. CASE providerOf[s] # None
      <4>1. providerOf' = [providerOf EXCEPT ![s] = None]
            /\ dying' = dying \cup {providerOf[s]}
        BY <2>3, <3>3 DEF LayerChanges
      <4>2. Live \subseteq Live'
        BY <4>1 DEF Live, PaintTypeOK
      <4> QED BY <2>0, <3>1, <4>2
    <3> QED BY <3>2, <3>3
  <2>4. CASE SceneChanges
    <3>1. UNCHANGED << providerOf, dying >>
      BY <2>4 DEF SceneChanges
    <3>2. DOMAIN node' = {} \/ UNCHANGED << node, hears >>
      BY <2>4 DEF SceneChanges
    <3> QED BY <2>0, <2>1, <3>1, <3>2 DEF LastHears
  <2>5. ASSUME NEW p \in Providers, ProviderDestroyed(p)
        PROVE  LastHears'
    <3>1. dying' = dying \ {p} /\ providerOf' = providerOf
      BY <2>5 DEF ProviderDestroyed
    <3>2. Live \ {p} \subseteq Live'
      BY <3>1 DEF Live
    <3>3. CASE hears.provider # p
      BY <2>5, <3>2, <3>3 DEF ProviderDestroyed, LastHears
    <3>4. CASE hears.provider = p
      <4>1. /\ node' = IF hears.by \in DOMAIN node
                       THEN [node EXCEPT ![hears.by].material.provider = None] ELSE node
            /\ p # None
        BY <2>5, <3>4, NoneAssumption DEF ProviderDestroyed
      <4>2. DOMAIN node' = DOMAIN node
        BY <4>1
      <4>3. ASSUME DOMAIN node # {}
            PROVE  node'[Last(DOMAIN node)].material.provider = None
        <5> DEFINE last == Last(DOMAIN node)
        <5>1. last \in DOMAIN node
          BY <4>3 DEF Last, PaintTypeOK, PartNames
        <5>2. node[last] \in [geometry : Geometries, material : Materials]
          BY <5>1 DEF PaintTypeOK
        <5> HIDE DEF last
        <5>3. node[last].material.provider # None => hears.by = last
          BY <4>3 DEF LastHears, last
        <5>4. CASE hears.by = last
          <6>1. node' = [node EXCEPT ![last].material.provider = None]
            BY <4>1, <5>1, <5>4
          <6>2. node'[last] = [node[last] EXCEPT !.material.provider = None]
            BY <5>1, <6>1
          <6>3. [node[last] EXCEPT !.material.provider = None].material.provider = None
            BY <5>2 DEF Materials
          <6> QED BY <6>2, <6>3 DEF last
        <5>5. CASE hears.by # last
          <6>1. node'[last] = node[last]
            BY <4>1, <5>1, <5>5
          <6> QED BY <5>3, <5>5, <6>1 DEF last
        <5> QED BY <5>4, <5>5 DEF last
      <4> QED BY <4>2, <4>3 DEF LastHears
    <3> QED BY <3>3, <3>4
  <2>6. ASSUME NEW geometry, NEW state, NEW fast, UpdatePaintNode(geometry, state, fast)
        PROVE  LastHears'
    <3>1. /\ DOMAIN node' = Painted
          /\ Provided # None => hears' = [provider |-> Provided, by |-> Last(Painted)]
          /\ UNCHANGED << item, providerOf, dying >>
      BY <2>6, PaintResult
    <3>2. Last(Painted) \in Painted
      BY DEF Last, Painted, PaintTypeOK, PartNames
    <3>3. node'[Last(Painted)].material.provider = Provided
      <4>1. node'[Last(Painted)] = NewPart(Last(Painted), geometry, state, fast)
        BY <2>6, <3>2, PaintedPart
      <4> QED BY <4>1 DEF NewPart
    <3>4. Provided # None => Provided \in Live'
      BY <3>1 DEF Provided, Live, PaintTypeOK
    <3> QED BY <3>1, <3>3, <3>4 DEF LastHears
  <2>7. ASSUME NEW color, SetColor(color)
        PROVE  LastHears'
    BY <2>0, <2>1, <2>7 DEF SetColor
  <2>8. ASSUME NEW b, SetBlending(b) \/ SetAntialiasing(b) \/ SetClampToEdge(b)
        PROVE  LastHears'
    <3>1. UNCHANGED << node, hears, providerOf, dying >>
      BY <2>8 DEF SetBlending, SetAntialiasing, SetClampToEdge
    <3> QED BY <2>0, <2>1, <3>1
  <2>9. ASSUME NEW d, SetDest(d) \/ SetSourceItem(d)
        PROVE  LastHears'
    <3>1. UNCHANGED << node, hears, providerOf, dying >>
      BY <2>9 DEF SetDest, SetSourceItem
    <3> QED BY <2>0, <2>1, <3>1
  <2>10. CASE MarkDirtyMaterial
    BY <2>0, <2>1, <2>10 DEF MarkDirtyMaterial
  <2>11. CASE BeziergonNext \/ ParallelogramNext
    <3>1. UNCHANGED << providerOf, dying >>
      BY <2>11, SubclassKeeps
    <3>2. \/ UNCHANGED << node, hears >>
          \/ \E geometry, state, fast : UpdatePaintNode(geometry, state, fast)
      BY <2>11, SubclassKeeps
    <3> QED BY <2>0, <2>1, <2>6, <3>1, <3>2
  <2>12. CASE UNCHANGED vars
    BY <2>0, <2>1, <2>12 DEF vars
  <2> QED BY <2>2, <2>3, <2>4, <2>5, <2>7, <2>8, <2>9, <2>10, <2>11, <2>12
          DEF Next, ItemNext, ProvidersNext
<1>3. LastHears => LastNodeForgetsProvider
  BY DEF LastHears, LastNodeForgetsProvider, Last, Samples
<1> QED BY <1>1, <1>2, <1>3, PaintTyped, PTL DEF Spec

----------------------------------------------------------------------------
(***************************************************************************)
(* The points that were never set.                                         *)
(***************************************************************************)
Controls == FirstControl \cup SecondControl

\* A control point that is connected is where the points before it put it.
Settled(at, links, p) == p \in links => at[p] = Interpolation(at, << 0, 0 >>, p)

\* The control points that follow a corner.
FollowsCorner(c, p) ==
    CASE p = "controlTopLeft"    -> c \in {"topLeft", "topRight"}
      [] p = "controlBottomLeft" -> c \in {"bottomLeft", "bottomRight"}
      [] p = "controlLeftTop"    -> c \in {"topLeft", "bottomLeft"}
      [] p = "controlRightTop"   -> c \in {"topRight", "bottomRight"}

LEMMA PointNames ==
    /\ \A p \in FirstControl : /\ Second(p) \in SecondControl /\ p \notin Corner
                               /\ p \notin SecondControl /\ p \in Points
    /\ \A q \in SecondControl : /\ q \notin Corner /\ q \notin FirstControl /\ q \in Points
                                /\ \E p \in FirstControl : Second(p) = q
    /\ \A p, q \in FirstControl : Second(p) = Second(q) => p = q
    /\ \A p \in FirstControl : \A at, sz : Interpolation(at, sz, Second(p)) = at[p]
    /\ Corner \subseteq Points
<1>1. \A p \in FirstControl : \A at, sz : Interpolation(at, sz, Second(p)) = at[p]
  BY DEF FirstControl, Second, Interpolation
<1> QED  BY <1>1 DEF Points, Corner, FirstControl, SecondControl, Second

\* A corner has two pairs of control points that follow it, and its slots run through
\* both: the second point, the first one with its own slot, and the other pair the other
\* way round.
LEMMA CornerSlots ==
    ASSUME NEW c \in Corner
    PROVE  \E f, g \in FirstControl :
              /\ f # g
              /\ Slots(c)[1] = Second(f) /\ Slots(c)[2] = f
              /\ Slots(c)[3] = g /\ Slots(c)[4] = Second(g)
              /\ \A p \in FirstControl : FollowsCorner(c, p) => p \in {f, g}
<1>1. CASE c = "topLeft"
  BY <1>1 DEF FirstControl, Slots, Second, FollowsCorner
<1>2. CASE c = "topRight"
  BY <1>2 DEF FirstControl, Slots, Second, FollowsCorner
<1>3. CASE c = "bottomLeft"
  BY <1>3 DEF FirstControl, Slots, Second, FollowsCorner
<1>4. CASE c = "bottomRight"
  BY <1>4 DEF FirstControl, Slots, Second, FollowsCorner
<1> QED  BY <1>1, <1>2, <1>3, <1>4 DEF Corner

\* What a control point is calculated from.
LEMMA InterpolationOf ==
    ASSUME NEW at, NEW new, NEW sz, NEW tz, NEW p \in FirstControl,
           \A c \in Corner : FollowsCorner(c, p) => new[c] = at[c]
    PROVE  Interpolation(new, sz, p) = Interpolation(at, tz, p)
BY DEF FirstControl, Corner, Interpolation, FollowsCorner

\* After its slot a control point is settled, and so is the one behind it if it was
\* before; no other point moves.
LEMMA FollowsSettles ==
    ASSUME NEW at \in [Points -> Places], NEW links, NEW p \in Controls
    PROVE  LET new == Follows(at, p, links)
           IN  /\ new \in [Points -> Places]
               /\ \A q \in Points \ {p} : new[q] = at[q]
               /\ Settled(new, links, p)
               /\ p \notin links => new = at
<1>1. p \in Points
  BY PointNames DEF Controls
<1>2. CASE p \notin links
  BY <1>1, <1>2 DEF Follows, Settled
<1>3. CASE p \in links
  <2> DEFINE value == Interpolation(at, << 0, 0 >>, p)
             new == [at EXCEPT ![p] = value]
  <2>1. Follows(at, p, links) = new
    BY <1>3 DEF Follows
  <2>2. Follows(at, p, links) \in [Points -> Places]
    BY <1>1, CalculatedType
  <2>3. new[p] = value /\ \A q \in Points \ {p} : new[q] = at[q]
    BY <1>1
  <2>4. Interpolation(new, << 0, 0 >>, p) = value
    <3> HIDE DEF new
    <3>1. CASE p \in FirstControl
      <4>1. \A c \in Corner : new[c] = at[c]
        BY <2>3, <3>1, PointNames
      <4> HIDE DEF value
      <4>2. Interpolation(new, << 0, 0 >>, p) = Interpolation(at, << 0, 0 >>, p)
        BY <3>1, <4>1, InterpolationOf
      <4> QED  BY <4>2 DEF value
    <3>2. CASE p \in SecondControl
      <4>1. PICK f \in FirstControl : Second(f) = p
        BY <3>2, PointNames
      <4>2. f \in Points \ {p}
        BY <3>2, <4>1, PointNames
      <4>3. new[f] = at[f]
        BY <2>3, <4>2
      <4> QED  BY <4>1, <4>3, PointNames
    <3> QED  BY <3>1, <3>2 DEF Controls
  <2> HIDE DEF value, new
  <2> QED  BY <1>3, <2>1, <2>2, <2>3, <2>4 DEF Settled, value
<1> QED  BY <1>2, <1>3

LEMMA SettledStays ==
    ASSUME NEW at, NEW new, NEW links, NEW f \in FirstControl,
           new[f] = at[f], new[Second(f)] = at[Second(f)],
           \A c \in Corner : FollowsCorner(c, f) => new[c] = at[c]
    PROVE  /\ Settled(at, links, f) => Settled(new, links, f)
           /\ Settled(at, links, Second(f)) => Settled(new, links, Second(f))
<1>1. Interpolation(new, << 0, 0 >>, f) = Interpolation(at, << 0, 0 >>, f)
  BY InterpolationOf
<1>2. /\ Interpolation(new, << 0, 0 >>, Second(f)) = new[f]
      /\ Interpolation(at, << 0, 0 >>, Second(f)) = at[f]
  BY PointNames
<1> QED  BY <1>1, <1>2 DEF Settled

\* The slot of a first control point, with the slot of its own signal.
LEMMA CalculatedSettles ==
    ASSUME NEW at \in [Points -> Places], NEW links, NEW f \in FirstControl
    PROVE  LET new == Calculated(at, f, links)
           IN  /\ new \in [Points -> Places]
               /\ \A q \in Points \ {f, Second(f)} : new[q] = at[q]
               /\ Settled(new, links, f)
               /\ Settled(at, links, Second(f)) => Settled(new, links, Second(f))
<1>1. f \in Controls /\ Second(f) \in Controls /\ f # Second(f) /\ f \in Points
      /\ Second(f) \in Points
  BY PointNames DEF Controls
<1>2. CASE f \in links
  <2> DEFINE a == Follows(at, f, links)
             b == Follows(a, Second(f), links)
  <2>1. /\ a \in [Points -> Places] /\ \A q \in Points \ {f} : a[q] = at[q]
        /\ Settled(a, links, f)
    BY <1>1, FollowsSettles
  <2> HIDE DEF a
  <2>2. /\ b \in [Points -> Places] /\ \A q \in Points \ {Second(f)} : b[q] = a[q]
        /\ Settled(b, links, Second(f))
    BY <1>1, <2>1, FollowsSettles
  <2>3. Calculated(at, f, links) = b
    BY <1>2 DEF Calculated, a
  <2> HIDE DEF b
  <2>4. Settled(b, links, f)
    <3>1. \A c \in Corner : b[c] = a[c]
      BY <2>2, PointNames
    <3>2. Interpolation(b, << 0, 0 >>, f) = Interpolation(a, << 0, 0 >>, f)
      BY <3>1, InterpolationOf
    <3> QED  BY <1>1, <2>1, <2>2, <3>2 DEF Settled
  <2> QED  BY <2>1, <2>2, <2>3, <2>4
<1>3. CASE f \notin links
  <2>1. Calculated(at, f, links) = at
    BY <1>3 DEF Calculated, Follows
  <2> QED  BY <1>3, <2>1 DEF Settled
<1> QED  BY <1>2, <1>3

\* After the signal of a corner every control point is settled, if those that do not
\* follow the corner were.
LEMMA CornerSettles ==
    ASSUME NEW at \in [Points -> Places], NEW links, NEW c \in Corner,
           \A f \in FirstControl : ~FollowsCorner(c, f) =>
               Settled(at, links, f) /\ Settled(at, links, Second(f))
    PROVE  LET new == Emitted(at, c, links)
           IN  /\ new \in [Points -> Places]
               /\ \A d \in Corner : new[d] = at[d]
               /\ \A p \in Controls : Settled(new, links, p)
<1>1. PICK f, g \in FirstControl :
          /\ f # g
          /\ Slots(c)[1] = Second(f) /\ Slots(c)[2] = f
          /\ Slots(c)[3] = g /\ Slots(c)[4] = Second(g)
          /\ \A p \in FirstControl : FollowsCorner(c, p) => p \in {f, g}
  BY CornerSlots
<1>2. /\ f \in Points /\ g \in Points /\ Second(f) \in Points /\ Second(g) \in Points
      /\ Second(f) \in Controls /\ Second(g) \in Controls
      /\ Second(f) \notin FirstControl /\ Second(g) \notin FirstControl
      /\ f # Second(f) /\ f # Second(g) /\ g # Second(f) /\ g # Second(g)
      /\ Second(f) # Second(g)
      /\ \A d \in Corner : d \in Points /\ d \notin {f, g, Second(f), Second(g)}
  BY <1>1, PointNames DEF Controls
<1> DEFINE u == Calculated(at, Second(f), links)
           v == Calculated(u, f, links)
           w == Calculated(v, g, links)
           z == Calculated(w, Second(g), links)
<1>3. Emitted(at, c, links) = z
  BY <1>1 DEF Emitted
<1>4. /\ u \in [Points -> Places] /\ \A q \in Points \ {Second(f)} : u[q] = at[q]
      /\ Settled(u, links, Second(f))
  BY <1>2, FollowsSettles DEF Calculated
<1> HIDE DEF u
<1>5. /\ v \in [Points -> Places] /\ \A q \in Points \ {f, Second(f)} : v[q] = u[q]
      /\ Settled(v, links, f) /\ Settled(v, links, Second(f))
  BY <1>4, CalculatedSettles
<1> HIDE DEF v
<1>6. /\ w \in [Points -> Places] /\ \A q \in Points \ {g, Second(g)} : w[q] = v[q]
      /\ Settled(w, links, g)
  BY <1>5, CalculatedSettles
<1> HIDE DEF w
<1>7. /\ z \in [Points -> Places] /\ \A q \in Points \ {Second(g)} : z[q] = w[q]
      /\ Settled(z, links, Second(g))
  BY <1>2, <1>6, FollowsSettles DEF Calculated
<1> HIDE DEF z
<1>8. \A q \in Points \ {f, g, Second(f), Second(g)} : z[q] = at[q]
  BY <1>4, <1>5, <1>6, <1>7
<1>9. \A d \in Corner : z[d] = at[d] /\ z[d] = v[d] /\ z[d] = w[d]
  BY <1>2, <1>6, <1>7, <1>8
<1>10. Settled(z, links, f) /\ Settled(z, links, Second(f))
  <2>1. z[f] = v[f] /\ z[Second(f)] = v[Second(f)]
    BY <1>1, <1>2, <1>6, <1>7
  <2> QED  BY <1>5, <1>9, <2>1, SettledStays
<1>11. Settled(z, links, g)
  <2>1. z[g] = w[g]
    BY <1>2, <1>7
  <2>2. Interpolation(z, << 0, 0 >>, g) = Interpolation(w, << 0, 0 >>, g)
    BY <1>9, InterpolationOf
  <2> QED  BY <1>6, <2>1, <2>2 DEF Settled
<1>12. ASSUME NEW h \in FirstControl, h # f, h # g
       PROVE  Settled(z, links, h) /\ Settled(z, links, Second(h))
  <2>1. ~FollowsCorner(c, h)
    BY <1>1, <1>12
  <2>2. z[h] = at[h] /\ z[Second(h)] = at[Second(h)]
    <3>1. /\ h \in Points \ {f, g, Second(f), Second(g)}
          /\ Second(h) \in Points \ {f, g, Second(f), Second(g)}
      BY <1>1, <1>2, <1>12, PointNames
    <3> QED  BY <1>8, <3>1
  <2> QED  BY <1>9, <2>1, <2>2, SettledStays
<1>13. \A p \in Controls : Settled(z, links, p)
  <2>1. \A h \in FirstControl : Settled(z, links, h) /\ Settled(z, links, Second(h))
    BY <1>7, <1>10, <1>11, <1>12
  <2> QED  BY <2>1, PointNames DEF Controls
<1> QED  BY <1>3, <1>7, <1>9, <1>13

\* Where the size puts a corner.
CornerRight(at, sz, c) == c \in linked => at[c] = Interpolation(at, sz, c)

\* The slot of a corner after a change of size.
LEMMA CornerFollowsSettles ==
    ASSUME NEW at \in [Points -> Places], NEW c \in Corner, NEW sz \in Places,
           \A p \in Controls : Settled(at, linked, p)
    PROVE  LET new == CornerFollows(at, c, sz)
           IN  /\ new \in [Points -> Places]
               /\ \A d \in Corner \ {c} : new[d] = at[d]
               /\ CornerRight(new, sz, c)
               /\ \A p \in Controls : Settled(new, linked, p)
<1>1. CASE c \notin linked
  BY <1>1 DEF CornerFollows, CornerRight
<1>2. CASE c \in linked
  <2> DEFINE value == Interpolation(at, sz, c)
             moved == [at EXCEPT ![c] = value]
             new == Emitted(moved, c, linked)
  <2>1. c \in Points /\ value \in Places
    BY DEF Points, Corner, Interpolation, Places
  <2>2. /\ moved \in [Points -> Places] /\ moved[c] = value
        /\ \A q \in Points \ {c} : moved[q] = at[q]
    BY <2>1
  <2>3. CornerFollows(at, c, sz) = new
    BY <1>2 DEF CornerFollows
  <2>4. \A b : Interpolation(b, sz, c) = value
    BY DEF Corner, Interpolation
  <2> HIDE DEF moved, value
  <2>5. ASSUME NEW f \in FirstControl, ~FollowsCorner(c, f)
        PROVE  Settled(moved, linked, f) /\ Settled(moved, linked, Second(f))
    <3>1. f \in Points \ {c} /\ Second(f) \in Points \ {c}
      BY PointNames
    <3>2. \A d \in Corner : FollowsCorner(d, f) => moved[d] = at[d]
      BY <2>2, <2>5, PointNames
    <3>3. Settled(at, linked, f) /\ Settled(at, linked, Second(f))
      BY PointNames DEF Controls
    <3> QED  BY <2>2, <3>1, <3>2, <3>3, SettledStays
  <2>6. /\ new \in [Points -> Places]
        /\ \A d \in Corner : new[d] = moved[d]
        /\ \A p \in Controls : Settled(new, linked, p)
    BY <2>2, <2>5, CornerSettles
  <2> HIDE DEF new
  <2>7. CornerRight(new, sz, c)
    BY <2>2, <2>4, <2>6 DEF CornerRight
  <2>8. \A d \in Corner \ {c} : new[d] = at[d]
    BY <2>2, <2>6, PointNames
  <2> QED  BY <2>3, <2>6, <2>7, <2>8
<1> QED  BY <1>1, <1>2

\* Which points the invariant is about: a Parallelogram has none.
LinksOfKind == kind = "parallelogram" => linked \cap Points = {}

PointsRight ==
    /\ \A c \in Corner : CornerRight(points, size, c)
    /\ \A p \in Controls : Settled(points, linked, p)

LEMMA PointsRightSays == DefaultsFollow <=> PointsRight
<1>1. \A p \in Controls : \A at, sz : Interpolation(at, sz, p) = Interpolation(at, << 0, 0 >>, p)
  BY DEF Controls, FirstControl, SecondControl, Interpolation
<1>2. Points = Corner \cup Controls
  BY DEF Points, Controls
<1> QED  BY <1>1, <1>2 DEF DefaultsFollow, PointsRight, CornerRight, Settled

\* The setter of a point: the points that follow it are settled after its signal.
LEMMA SetPointSettles ==
    ASSUME PaintTypeOK, PointsRight, NEW p \in Points, NEW value \in Places,
           SetPoint(p, value)
    PROVE  PointsRight'
<1>1. linked' = linked \ {p} /\ size' = size /\ points \in [Points -> Places]
  BY DEF SetPoint, PaintTypeOK
<1>2. CASE value = points[p]
  BY <1>1, <1>2 DEF SetPoint, PointsRight, CornerRight, Settled
<1>3. CASE value # points[p]
  <2> DEFINE moved == [points EXCEPT ![p] = value]
             new == Emitted(moved, p, linked')
  <2>1. points' = new
    BY <1>3 DEF SetPoint
  <2>2. /\ moved \in [Points -> Places] /\ \A q \in Points \ {p} : moved[q] = points[q]
    BY <1>1
  <2> HIDE DEF moved
  <2>3. \A c \in Corner : \A at : Interpolation(at, size, c) = Interpolation(points, size, c)
    BY DEF Corner, Interpolation
  <2>4. SUFFICES /\ \A c \in Corner : new[c] = moved[c]
                 /\ \A q \in Controls : Settled(new, linked', q)
    <3> HIDE DEF new
    <3>1. ASSUME /\ \A c \in Corner : new[c] = moved[c]
                 /\ \A q \in Controls : Settled(new, linked', q)
          PROVE  PointsRight'
      <4>1. ASSUME NEW c \in Corner PROVE CornerRight(points, size, c)'
        <5> SUFFICES ASSUME c \in linked' PROVE new[c] = Interpolation(new, size, c)
          BY <1>1, <2>1 DEF CornerRight
        <5>1. c \in linked /\ c # p /\ c \in Points
          BY <1>1, PointNames
        <5>2. new[c] = points[c]
          BY <2>2, <3>1, <5>1
        <5>3. points[c] = Interpolation(points, size, c)
          BY <5>1 DEF PointsRight, CornerRight
        <5> QED  BY <2>3, <5>2, <5>3
      <4> QED  BY <2>1, <3>1, <4>1 DEF PointsRight
    <3> QED  BY <3>1
  <2>5. ASSUME NEW f \in FirstControl, f # p, Second(f) # p, ~FollowsCorner(p, f) \/ p \notin Corner
        PROVE  Settled(moved, linked', f) /\ Settled(moved, linked', Second(f))
    <3>1. /\ f \in Points \ {p} /\ Second(f) \in Points \ {p}
          /\ \A c \in Corner : FollowsCorner(c, f) => moved[c] = points[c]
      BY <2>2, <2>5, PointNames
    <3>2. Settled(points, linked', f) /\ Settled(points, linked', Second(f))
      BY <1>1, PointNames DEF PointsRight, Settled, Controls
    <3> QED  BY <2>2, <3>1, <3>2, SettledStays
  <2>6. CASE p \in Corner
    <3>1. \A f \in FirstControl : f # p /\ Second(f) # p
      BY <2>6, PointNames
    <3> QED  BY <2>2, <2>5, <2>6, <3>1, CornerSettles
  <2>7. CASE p \in FirstControl
    <3>1. new = Follows(moved, Second(p), linked')
      BY <2>7, PointNames DEF Emitted
    <3> HIDE DEF new
    <3>2. Second(p) \in Controls /\ Second(p) # p /\ p \notin Corner
      BY <2>7, PointNames DEF Controls
    <3>3. /\ \A q \in Points \ {Second(p)} : new[q] = moved[q]
          /\ Settled(new, linked', Second(p))
      BY <2>2, <3>1, <3>2, FollowsSettles
    <3>4. \A c \in Corner : new[c] = moved[c]
      BY <3>3, <2>7, PointNames
    <3>5. Settled(new, linked', p)
      BY <1>1 DEF Settled
    <3>6. ASSUME NEW f \in FirstControl, f # p
          PROVE  Settled(new, linked', f) /\ Settled(new, linked', Second(f))
      <4>1. Second(f) # p /\ f # Second(p) /\ Second(f) # Second(p)
        BY <2>7, <3>6, PointNames
      <4>2. Settled(moved, linked', f) /\ Settled(moved, linked', Second(f))
        BY <2>5, <3>2, <3>6, <4>1
      <4>3. new[f] = moved[f] /\ new[Second(f)] = moved[Second(f)]
        BY <3>3, <4>1, PointNames
      <4> QED  BY <3>4, <4>2, <4>3, SettledStays
    <3> QED  BY <3>3, <3>4, <3>5, <3>6, PointNames DEF Controls
  <2>8. CASE p \in SecondControl
    <3>1. new = moved /\ p \notin Corner /\ p \notin FirstControl
      BY <2>8, PointNames DEF Emitted
    <3> HIDE DEF new
    <3>2. PICK g \in FirstControl : Second(g) = p
      BY <2>8, PointNames
    <3>3. ASSUME NEW f \in FirstControl, f # g
          PROVE  Settled(moved, linked', f) /\ Settled(moved, linked', Second(f))
      BY <2>5, <3>1, <3>2, <3>3, PointNames
    <3>4. Settled(moved, linked', p)
      BY <1>1 DEF Settled
    <3>5. Settled(moved, linked', g)
      <4>1. Settled(points, linked', g)
        BY <1>1, PointNames DEF PointsRight, Settled, Controls
      <4>2. moved[g] = points[g] /\ \A c \in Corner : moved[c] = points[c]
        BY <2>2, <3>1, PointNames
      <4>3. Interpolation(moved, << 0, 0 >>, g) = Interpolation(points, << 0, 0 >>, g)
        BY <4>2, InterpolationOf
      <4> QED  BY <4>1, <4>2, <4>3 DEF Settled
    <3> QED  BY <3>1, <3>2, <3>3, <3>4, <3>5, PointNames DEF Controls
  <2> QED  BY <2>6, <2>7, <2>8 DEF Points
<1> QED  BY <1>2, <1>3

\* The slots of a change of size: the corner that keeps its place had the one that the
\* new size gives it.
LEMMA ResizeSettles ==
    ASSUME PaintTypeOK, PointsRight, NEW l \in Lengths, SetWidth(l) \/ SetHeight(l)
    PROVE  PointsRight'
<1>1. PICK c \in {"topRight", "bottomLeft"} :
          /\ points' = CornerFollows(CornerFollows(points, c, size'), "bottomRight", size')
          /\ linked' = linked
          /\ size' \in Places /\ size \in Places
          /\ c = "topRight" => size'[2] = size[2]
          /\ c = "bottomLeft" => size'[1] = size[1]
  <2>1. CASE SetWidth(l)
    BY <2>1 DEF SetWidth, Resize, Lengths, Places, PaintTypeOK
  <2>2. CASE SetHeight(l)
    BY <2>2 DEF SetHeight, Resize, Lengths, Places, PaintTypeOK
  <2> QED  BY <2>1, <2>2
<1> DEFINE first == CornerFollows(points, c, size')
           new == CornerFollows(first, "bottomRight", size')
<1>2. c \in Corner /\ "bottomRight" \in Corner /\ c # "bottomRight" /\ points \in [Points -> Places]
  BY DEF Corner, PaintTypeOK
<1>3. /\ first \in [Points -> Places]
      /\ \A d \in Corner \ {c} : first[d] = points[d]
      /\ CornerRight(first, size', c)
      /\ \A p \in Controls : Settled(first, linked, p)
  BY <1>1, <1>2, CornerFollowsSettles DEF PointsRight
<1> HIDE DEF first
<1>4. /\ \A d \in Corner \ {"bottomRight"} : new[d] = first[d]
      /\ CornerRight(new, size', "bottomRight")
      /\ \A p \in Controls : Settled(new, linked, p)
  BY <1>1, <1>2, <1>3, CornerFollowsSettles
<1>5. points' = new
  BY <1>1 DEF first
<1> HIDE DEF new
<1>6. ASSUME NEW d \in Corner PROVE CornerRight(new, size', d)
  <2>1. \A at, b : Interpolation(at, size', d) = Interpolation(b, size', d)
    BY DEF Corner, Interpolation
  <2>2. CASE d = "bottomRight"
    BY <1>4, <2>2
  <2>3. CASE d = c
    BY <1>2, <1>3, <1>4, <2>1, <2>3 DEF CornerRight
  <2>4. CASE d \notin {c, "bottomRight"}
    <3>1. new[d] = points[d]
      BY <1>3, <1>4, <2>4
    <3>2. \A at, b : Interpolation(at, size', d) = Interpolation(b, size, d)
      BY <1>1, <2>4 DEF Corner, Interpolation
    <3> QED  BY <3>1, <3>2 DEF PointsRight, CornerRight
  <2> QED  BY <2>2, <2>3, <2>4
<1> QED  BY <1>1, <1>4, <1>5, <1>6 DEF PointsRight, CornerRight

\* What leaves the points of a Beziergon alone.
LEMMA KeptPoints ==
    ASSUME PointsRight, points' = points, size' = size, linked' \subseteq linked
    PROVE  PointsRight'
BY DEF PointsRight, CornerRight, Settled

LEMMA PointsStep ==
    ASSUME PaintTypeOK, NewStays, LinksOfKind, PointsRight, [Next]_vars
    PROVE  LinksOfKind' /\ PointsRight'
<1> USE DEF sourceVars, renderVars, itemVars
<1>1. CASE ItemNext \/ ProvidersNext
  <2>1. points' = points /\ size' = size /\ linked' \subseteq linked /\ kind' = kind
    BY <1>1 DEF ItemNext, ProvidersNext, subclassVars, SetColor, SetBlending, SetAntialiasing,
       SetClampToEdge, SetDest, SetSourceItem, SourceDestroyed, LayerChanges, SceneChanges,
       MarkDirtyMaterial, ProviderDestroyed
  <2> QED  BY <2>1, KeptPoints DEF LinksOfKind
<1>2. CASE BeziergonNext
  <2>1. ASSUME NEW p \in SettablePoints, NEW l \in Lengths, SetPoint(p, << l, l >>)
        PROVE  PointsRight'
    BY <2>1, SetPointSettles, SettableAssumption DEF Lengths, Places
  <2>2. ASSUME NEW l \in Lengths, SetWidth(l) \/ SetHeight(l)
        PROVE  PointsRight'
    BY <2>2, ResizeSettles
  <2>3. ASSUME NEW r \in Resolutions, SetResolution(r)
        PROVE  PointsRight'
    BY <2>3, KeptPoints DEF SetResolution
  <2>4. ASSUME PaintBeziergon PROVE PointsRight'
    <3>1. points' = points /\ size' = size /\ linked' = linked
      BY <2>4 DEF PaintBeziergon, UpdatePaintNode
    <3> QED  BY <3>1, KeptPoints
  <2>5. kind' = kind /\ kind = "beziergon"
    BY <1>2 DEF BeziergonNext
  <2> QED  BY <1>2, <2>1, <2>2, <2>3, <2>4, <2>5 DEF BeziergonNext, LinksOfKind
<1>3. CASE ParallelogramNext
  <2>1. kind = "parallelogram" /\ kind' = kind /\ points' = points /\ linked' = linked
    BY <1>3 DEF ParallelogramNext, SetWidthOfParallelogram, SetHeightOfParallelogram, SetAngle,
       PaintParallelogram, UpdatePaintNode, Resize
  <2>2. \A p \in Corner \cup Controls : p \notin linked'
    BY <2>1 DEF LinksOfKind, Points, Controls
  <2> QED  BY <2>1, <2>2 DEF LinksOfKind, PointsRight, CornerRight, Settled
<1>4. CASE UNCHANGED vars
  BY <1>4, KeptPoints DEF vars, subclassVars, LinksOfKind
<1> QED  BY <1>1, <1>2, <1>3, <1>4 DEF Next

\* A point that was never set is where its neighbours or the size put it, for any points
\* that QML sets in any order: the slots of a corner end with both pairs that follow it
\* settled, whichever of the four were disconnected (beziergon.cpp:226-262, 509-522).
THEOREM DefaultsAreFollowed == Spec => []DefaultsFollow
<1>1. Init => LinksOfKind /\ PointsRight
  <2> SUFFICES ASSUME Init PROVE LinksOfKind /\ PointsRight
    OBVIOUS
  <2>1. LinksOfKind
    BY DEF Init, LinksOfKind, Points, Corner, FirstControl, SecondControl
  <2>2. points = [p \in Points |-> << 0, 0 >>] /\ size = << 0, 0 >>
    BY DEF Init, ItemInit, BeziergonInit
  <2>3. \A p \in Points : Interpolation(points, << 0, 0 >>, p) = << 0, 0 >>
    BY <2>2 DEF Interpolation, Middle, Points, Corner, FirstControl, SecondControl
  <2>4. \A p \in Points : points[p] = << 0, 0 >>
    BY <2>2
  <2> QED  BY <2>1, <2>2, <2>3, <2>4 DEF PointsRight, CornerRight, Settled, Points, Controls
<1>2. PaintTypeOK /\ NewStays /\ LinksOfKind /\ PointsRight /\ [Next]_vars
          => LinksOfKind' /\ PointsRight'
  BY PointsStep
<1> QED  BY <1>1, <1>2, PaintTyped, PointsRightSays, PTL DEF Spec

----------------------------------------------------------------------------
(***************************************************************************)
(* The uniform block: the twenty writes and the layout rules of std140.    *)
(* The recursive functions of the model are determined by their equations: *)
(* a function of starts satisfies them, and a least place at which another *)
(* one differed from it would not.                                         *)
(***************************************************************************)
\* A set of numbers that is not empty has a least one.
LEMMA LeastNumber ==
    ASSUME NEW D \in SUBSET Nat, D # {}
    PROVE  \E n \in D : \A m \in D : n <= m
<1>1. PICK n \in D : \A m \in D : << m, n >> \notin OpToRel(<, Nat)
  BY NatLessThanWellFounded, WFMin
<1>2. ASSUME NEW m \in D PROVE n <= m
  <2>1. << m, n >> \in Nat \X Nat
    OBVIOUS
  <2>2. ~(m < n)
    BY <1>1, <2>1 DEF OpToRel
  <2> QED  BY <2>2
<1> QED  BY <1>2

\* The types of the block's members.
MemberType(i) ==
    CASE i = 1 -> "mat4" [] i \in {3, 6, 7} -> "vec4" [] i \in {2, 4, 5} -> "float"
      [] i = 8 -> "int" [] OTHER -> "vec2"

LEMMA MemberTypes ==
    /\ BeziergonMembers \in Seq({"mat4", "vec4", "vec2", "float", "int"})
    /\ Len(BeziergonMembers) = 20
    /\ \A i \in 1 .. 20 : BeziergonMembers[i] = MemberType(i)
<1> DEFINE S == {"mat4", "vec4", "vec2", "float", "int"}
           points12 == [i \in 1 .. 12 |-> "vec2"]
<1>1. BaseMembers \in Seq(S) /\ Len(BaseMembers) = 8
  BY DEF BaseMembers
<1>2. points12 \in Seq(S) /\ Len(points12) = 12
  OBVIOUS
<1>3. BeziergonMembers = BaseMembers \o points12
  BY DEF BeziergonMembers
<1>4. \A i \in 1 .. 8 : BaseMembers[i] = MemberType(i)
  BY DEF BaseMembers, MemberType
<1>5. \A i \in 1 .. 12 : points12[i] = MemberType(i + 8)
  BY DEF MemberType
<1> HIDE DEF points12, S
<1>6. /\ BeziergonMembers \in Seq(S)
      /\ Len(BeziergonMembers) = Len(BaseMembers) + Len(points12)
      /\ \A i \in 1 .. Len(BaseMembers) + Len(points12) : BeziergonMembers[i] =
             IF i <= Len(BaseMembers) THEN BaseMembers[i] ELSE points12[i - Len(BaseMembers)]
  <2>1. BaseMembers \in Seq(S) /\ points12 \in Seq(S)
    BY <1>1, <1>2
  <2> DEFINE both == BaseMembers \o points12
  <2>2. /\ both \in Seq(S) /\ Len(both) = Len(BaseMembers) + Len(points12)
        /\ \A i \in 1 .. Len(BaseMembers) + Len(points12) : both[i] =
               IF i <= Len(BaseMembers) THEN BaseMembers[i] ELSE points12[i - Len(BaseMembers)]
    BY <2>1, ConcatProperties
  <2> HIDE DEF both
  <2>3. BeziergonMembers = both
    BY <1>3 DEF both
  <2> QED  BY <2>2, <2>3
<1>7. ASSUME NEW i \in 1 .. 20 PROVE BeziergonMembers[i] = MemberType(i)
  <2>1. CASE i <= 8
    <3>1. i \in 1 .. 8 /\ i \in 1 .. Len(BaseMembers) + Len(points12) /\ i <= Len(BaseMembers)
      BY <1>1, <1>2, <2>1
    <3>2. BeziergonMembers[i] = BaseMembers[i]
      BY <1>6, <3>1
    <3> QED  BY <1>4, <3>1, <3>2
  <2>2. CASE i > 8
    <3>1. i - 8 \in 1 .. 12 /\ (i - 8) + 8 = i
      BY <2>2
    <3>2. /\ Len(BaseMembers) = 8 /\ Len(points12) = 12
          /\ i \in 1 .. Len(BaseMembers) + Len(points12) /\ ~(i <= Len(BaseMembers))
      BY <1>1, <1>2, <2>2
    <3>3. BeziergonMembers[i] = points12[i - Len(BaseMembers)]
      BY <1>6, <3>2
    <3> QED  BY <1>5, <3>1, <3>2, <3>3
  <2> QED  BY <2>1, <2>2
<1> QED  BY <1>1, <1>2, <1>6, <1>7 DEF S

\* Where the members of the block start.
MemberStart(i) ==
    CASE i = 1 -> 0 [] i = 2 -> 64 [] i = 3 -> 80 [] i = 4 -> 96 [] i = 5 -> 100
      [] i = 6 -> 112 [] i = 7 -> 128 [] i = 8 -> 144 [] OTHER -> 152 + 8 * (i - 9)

MemberEnd(i) == IF i = 0 THEN 0 ELSE MemberStart(i) + Bytes[MemberType(i)]

MemberParts(i) == Bytes[MemberType(i)] \div PartBytes(MemberType(i))

LEMMA MemberFacts ==
    ASSUME NEW i \in 1 .. 20
    PROVE  /\ MemberStart(i) \in Nat /\ MemberEnd(i) \in Nat /\ MemberEnd(i - 1) \in Nat
           /\ MemberParts(i) \in {1, 2, 4} /\ PartBytes(MemberType(i)) \in {4, 64}
           /\ MemberStart(i) + MemberParts(i) * PartBytes(MemberType(i)) = MemberEnd(i)
           /\ MemberEnd(i) <= 248
           /\ Align(MemberEnd(i - 1), WriteAlignment(MemberType(i))) = MemberStart(i)
<1>1. CASE i \in 1 .. 8
  <2>1. i = 1 \/ i = 2 \/ i = 3 \/ i = 4 \/ i = 5 \/ i = 6 \/ i = 7 \/ i = 8
    BY <1>1
  <2> QED
    BY <2>1 DEF MemberStart, MemberEnd, MemberParts, MemberType, Bytes, PartBytes,
       Align, WriteAlignment
<1>2. CASE i = 9
  BY <1>2 DEF MemberStart, MemberEnd, MemberParts, MemberType, Bytes, PartBytes, Align,
     WriteAlignment
<1>3. CASE i \in 10 .. 20
  <2>1. /\ MemberType(i) = "vec2" /\ MemberType(i - 1) = "vec2"
        /\ MemberStart(i) = 152 + 8 * (i - 9) /\ MemberEnd(i - 1) = MemberStart(i)
        /\ MemberEnd(i) = MemberStart(i) + 8 /\ MemberParts(i) = 2
        /\ PartBytes("vec2") = 4
    BY <1>3 DEF MemberStart, MemberEnd, MemberParts, MemberType, Bytes, PartBytes
  <2>2. PICK k \in Nat : MemberStart(i) = 8 * k /\ 8 * k \in 0 .. 240
    <3>1. i + 10 \in Nat /\ MemberStart(i) = 8 * (i + 10) /\ 8 * (i + 10) \in 0 .. 240
      BY <1>3, <2>1
    <3> QED  BY <3>1
  <2>3. ((8 * k) + 7) % 8 = 7
    OBVIOUS
  <2>4. Align(8 * k, 8) = 8 * k
    BY <2>3 DEF Align
  <2>5. WriteAlignment("vec2") = 8
    BY DEF WriteAlignment
  <2> QED  BY <2>1, <2>2, <2>4, <2>5
<1> QED  BY <1>1, <1>2, <1>3

\* The parts of a member in the buffer, and what is in it after i members.
MemberBlock(i) ==
    {[at |-> MemberStart(i) + (k - 1) * PartBytes(MemberType(i)), member |-> i, part |-> k] :
        k \in 1 .. MemberParts(i)}

WrittenBlock(i) == UNION {MemberBlock(j) : j \in 1 .. i}

Written(i) == [offset |-> MemberEnd(i), size |-> 248, block |-> WrittenBlock(i)]

\* write() of a member puts all of its parts where the member starts: the buffer is long
\* enough for the last.
LEMMA WriteMember ==
    ASSUME NEW i \in 1 .. 20
    PROVE  Write(Written(i - 1), MemberType(i), i) = Written(i)
<1> DEFINE type == MemberType(i)
           start == MemberStart(i)
           part == PartBytes(type)
           n == MemberParts(i)
           Ends(k) == start + k * part
           fits == {k \in 1 .. n : Ends(k) <= 248}
           last == CHOOSE k \in fits : \A j \in fits : j <= k
<1>1. /\ start \in Nat /\ MemberEnd(i) \in Nat /\ MemberEnd(i) <= 248
      /\ n \in {1, 2, 4} /\ part \in {4, 64}
      /\ start + n * part = MemberEnd(i)
      /\ Align(MemberEnd(i - 1), WriteAlignment(type)) = start
  BY MemberFacts
<1>2. Write(Written(i - 1), type, i) =
          [Written(i - 1) EXCEPT
              !.offset = IF fits = {} THEN start ELSE Ends(last),
              !.block = @ \cup {[at |-> Ends(k - 1), member |-> i, part |-> k] : k \in fits}]
  <2> DEFINE w == Written(i - 1)
             raw == Align(w.offset, WriteAlignment(type))
             RawEnds(k) == raw + k * PartBytes(type)
             rawFits == {k \in 1 .. (Bytes[type] \div PartBytes(type)) : RawEnds(k) <= w.size}
  <2>1. Write(w, type, i) =
          [w EXCEPT
              !.offset = IF rawFits = {} THEN raw
                         ELSE RawEnds(CHOOSE k \in rawFits : \A j \in rawFits : j <= k),
              !.block = @ \cup {[at |-> RawEnds(k - 1), member |-> i, part |-> k] :
                                   k \in rawFits}]
    <3> HIDE DEF w
    <3> QED  BY DEF Write
  <2>2. w.offset = MemberEnd(i - 1) /\ w.size = 248
    BY DEF Written
  <2>3. raw = start
    <3> HIDE DEF w, type, start
    <3> QED  BY <1>1, <2>2
  <2>4. rawFits = fits /\ \A k : RawEnds(k) = Ends(k)
    <3> HIDE DEF w, raw, start
    <3> QED  BY <2>2, <2>3 DEF MemberParts
  <2> HIDE DEF w, raw, rawFits, fits, RawEnds, Ends
  <2>5. Write(w, type, i) =
          [w EXCEPT
              !.offset = IF fits = {} THEN start ELSE Ends(last),
              !.block = @ \cup {[at |-> Ends(k - 1), member |-> i, part |-> k] : k \in fits}]
    <3> DEFINE rawLast == CHOOSE k \in rawFits : \A j \in rawFits : j <= k
               rawPut == {[at |-> RawEnds(k - 1), member |-> i, part |-> k] : k \in rawFits}
               put == {[at |-> Ends(k - 1), member |-> i, part |-> k] : k \in fits}
    <3>1. rawLast = last
      BY <2>4 DEF last
    <3>2. rawPut = put
      BY <2>4
    <3>3. RawEnds(rawLast) = Ends(last)
      BY <2>4, <3>1
    <3> HIDE DEF rawLast, rawPut, put, last
    <3>4. Write(w, type, i) =
            [w EXCEPT !.offset = IF rawFits = {} THEN raw ELSE RawEnds(rawLast),
                      !.block = @ \cup rawPut]
      BY <2>1 DEF rawLast, rawPut
    <3>5. Write(w, type, i) =
            [w EXCEPT !.offset = IF fits = {} THEN start ELSE Ends(last),
                      !.block = @ \cup put]
      BY <2>3, <2>4, <3>2, <3>3, <3>4
    <3> QED  BY <3>5 DEF put
  <2> QED  BY <2>5 DEF w
<1> HIDE DEF start, part, n
<1>3. fits = 1 .. n
  <2>1. ASSUME NEW k \in 1 .. n PROVE Ends(k) <= 248
    <3>1. k * part <= n * part
      BY <1>1
    <3> QED  BY <1>1, <3>1
  <2> QED  BY <2>1
<1>4. last = n /\ fits # {}
  BY <1>1, <1>3
<1>5. Ends(last) = MemberEnd(i)
  BY <1>1, <1>4
<1>6. {[at |-> Ends(k - 1), member |-> i, part |-> k] : k \in fits} = MemberBlock(i)
  BY <1>3 DEF MemberBlock, start, part, n
<1>7. WrittenBlock(i) = WrittenBlock(i - 1) \cup MemberBlock(i)
  <2>1. 1 .. i = (1 .. (i - 1)) \cup {i}
    OBVIOUS
  <2> QED  BY <2>1 DEF WrittenBlock
<1> HIDE DEF fits, last, Ends
<1>8. Write(Written(i - 1), type, i) =
          [Written(i - 1) EXCEPT !.offset = MemberEnd(i), !.block = @ \cup MemberBlock(i)]
  BY <1>2, <1>4, <1>5, <1>6
<1>9. Written(i - 1) = [offset |-> MemberEnd(i - 1), size |-> 248, block |-> WrittenBlock(i - 1)]
      /\ Written(i) = [offset |-> MemberEnd(i), size |-> 248, block |-> WrittenBlock(i)]
  BY DEF Written
<1>10. Write(Written(i - 1), type, i) =
          [offset |-> MemberEnd(i), size |-> 248,
           block |-> WrittenBlock(i - 1) \cup MemberBlock(i)]
  <2> DEFINE w == Written(i - 1)
             end == MemberEnd(i)
             before == WrittenBlock(i - 1)
             this == MemberBlock(i)
             l == [w EXCEPT !.offset = end, !.block = @ \cup this]
             r == [offset |-> end, size |-> 248, block |-> before \cup this]
  <2>1. w = [offset |-> MemberEnd(i - 1), size |-> 248, block |-> before]
    BY <1>9
  <2> HIDE DEF w, end, before, this
  <2>2. DOMAIN l = {"offset", "size", "block"} /\ DOMAIN r = {"offset", "size", "block"}
    BY <2>1
  <2>3. l["offset"] = r["offset"] /\ l["size"] = r["size"] /\ l["block"] = r["block"]
    BY <2>1
  <2>4. l = [f \in DOMAIN l |-> l[f]] /\ r = [f \in DOMAIN r |-> r[f]]
    <3>1. l = [f \in DOMAIN l |-> l[f]]
      BY <2>1
    <3>2. r = [f \in DOMAIN r |-> r[f]]
      OBVIOUS
    <3> QED  BY <3>1, <3>2
  <2> HIDE DEF l, r
  <2>5. \A f \in DOMAIN l : l[f] = r[f]
    BY <2>2, <2>3
  <2>6. l = r
    BY <2>2, <2>4, <2>5
  <2> QED  BY <1>8, <2>6 DEF l, r, w, end, before, this
<1> QED  BY <1>7, <1>9, <1>10

\* updateUniformData() of a Beziergon with a buffer of the block's size.
LEMMA WrittenAll == BlockOf(BeziergonMembers, 248) = WrittenBlock(20)
<1> DEFINE Def(f) == [i \in 0 .. Len(BeziergonMembers) |->
                        IF i = 0 THEN [offset |-> 0, size |-> 248, block |-> {}]
                                 ELSE Write(f[i - 1], BeziergonMembers[i], i)]
           all == [i \in 0 .. 20 |-> Written(i)]
           written == CHOOSE f : f = Def(f)
<1>1. BlockOf(BeziergonMembers, 248) = written[Len(BeziergonMembers)].block
  BY DEF BlockOf
<1>2. Len(BeziergonMembers) = 20 /\ \A i \in 1 .. 20 : BeziergonMembers[i] = MemberType(i)
  BY MemberTypes
<1>3. Written(0) = [offset |-> 0, size |-> 248, block |-> {}]
  BY DEF Written, MemberEnd, WrittenBlock
<1>4. all = Def(all)
  <2>1. ASSUME NEW i \in 0 .. 20 PROVE all[i] = Def(all)[i]
    <3>1. CASE i = 0
      BY <1>2, <1>3, <3>1
    <3>2. CASE i # 0
      <4>1. i \in 1 .. 20 /\ i - 1 \in 0 .. 20
        BY <3>2
      <4>2. all[i - 1] = Written(i - 1)
        BY <4>1
      <4>3. Write(Written(i - 1), MemberType(i), i) = Written(i)
        BY <4>1, WriteMember
      <4>4. Def(all)[i] = Write(all[i - 1], BeziergonMembers[i], i)
        <5> HIDE DEF all
        <5> QED  BY <1>2, <3>2
      <4> QED  BY <1>2, <4>1, <4>2, <4>3, <4>4
    <3> QED  BY <3>1, <3>2
  <2>2. Def(all) = [i \in 0 .. 20 |-> Def(all)[i]]
    <3> HIDE DEF all
    <3> QED  BY <1>2
  <2>3. all = [i \in 0 .. 20 |-> all[i]]
    OBVIOUS
  <2> HIDE DEF all, Def
  <2> QED  BY <2>1, <2>2, <2>3
<1>5. written = Def(written)
  <2> HIDE DEF all, Def
  <2> QED  BY <1>4
<1>6. \A i \in 0 .. 20 : written[i] = Written(i)
  <2> DEFINE Wrong == {i \in 0 .. 20 : written[i] # Written(i)}
  <2> SUFFICES ASSUME Wrong # {} PROVE FALSE
    OBVIOUS
  <2>0. Wrong \in SUBSET Nat
    OBVIOUS
  <2>1. PICK i \in Wrong : \A j \in Wrong : i <= j
    <3> HIDE DEF Wrong
    <3> QED  BY <2>0, LeastNumber
  <2> HIDE DEF written
  <2>2. written[i] = IF i = 0 THEN [offset |-> 0, size |-> 248, block |-> {}]
                              ELSE Write(written[i - 1], BeziergonMembers[i], i)
    <3>1. i \in 0 .. Len(BeziergonMembers)
      BY <1>2
    <3>2. written[i] = Def(written)[i]
      <4> HIDE DEF Def
      <4> QED  BY <1>5
    <3>3. Def(written)[i] = IF i = 0 THEN [offset |-> 0, size |-> 248, block |-> {}]
                              ELSE Write(written[i - 1], BeziergonMembers[i], i)
      BY <3>1
    <3> QED  BY <3>2, <3>3
  <2>3. CASE i = 0
    BY <1>3, <2>2, <2>3
  <2>4. CASE i # 0
    <3>1. i \in 1 .. 20 /\ i - 1 \in 0 .. 20 /\ ~(i <= i - 1)
      BY <2>4
    <3>2. written[i - 1] = Written(i - 1)
      BY <2>1, <3>1
    <3> QED  BY <1>2, <2>2, <2>4, <3>1, <3>2, WriteMember
  <2> QED  BY <2>3, <2>4
<1> HIDE DEF written
<1>7. written[Len(BeziergonMembers)] = Written(20)
  BY <1>2, <1>6
<1> QED  BY <1>1, <1>7 DEF Written

\* The next multiple that std140 asks for is where write() aligned.
LEMMA NextMember ==
    ASSUME NEW i \in 2 .. 20
    PROVE  LET o == MemberEnd(i - 1)
               n == StdAlignment[MemberType(i)]
           IN  (CHOOSE m \in o .. (o + n - 1) : m % n = 0) = MemberStart(i)
<1> DEFINE o == MemberEnd(i - 1)
           n == StdAlignment[MemberType(i)]
           Next4(m) == m \in o .. (o + n - 1) /\ m % n = 0
<1>1. \A m : Next4(m) <=> m = MemberStart(i)
  <2>1. CASE i \in 2 .. 9
    <3>1. i = 2 \/ i = 3 \/ i = 4 \/ i = 5 \/ i = 6 \/ i = 7 \/ i = 8 \/ i = 9
      BY <2>1
    <3> QED
      BY <3>1 DEF MemberStart, MemberEnd, MemberType, Bytes, StdAlignment
  <2>2. CASE i \in 10 .. 20
    <3>1. /\ MemberStart(i) = 152 + 8 * (i - 9) /\ o = MemberStart(i) /\ n = 8
      BY <2>2 DEF MemberStart, MemberEnd, MemberType, Bytes, StdAlignment
    <3>2. PICK k \in Nat : MemberStart(i) = 8 * k
      <4>1. i + 10 \in Nat /\ MemberStart(i) = 8 * (i + 10)
        BY <2>2, <3>1
      <4> QED  BY <4>1
    <3>3. \A m \in (8 * k) .. (8 * k + 7) : m % 8 = 0 <=> m = 8 * k
      OBVIOUS
    <3> HIDE DEF o, n
    <3>4. o = 8 * k /\ n = 8 /\ o + n - 1 = 8 * k + 7 /\ o \in o .. (o + n - 1)
      BY <3>1, <3>2
    <3> QED  BY <3>2, <3>3, <3>4
  <2> QED  BY <2>1, <2>2
<1> HIDE DEF o, n
<1>2. \E m \in o .. (o + n - 1) : m % n = 0
  BY <1>1
<1>3. Next4(CHOOSE m \in o .. (o + n - 1) : m % n = 0)
  BY <1>2
<1> QED  BY <1>1, <1>3 DEF o, n

\* A shader finds each member where MemberStart says.
LEMMA OffsetsAre ==
    /\ \A i \in 1 .. 20 : StdOffsets(BeziergonMembers)[i] = MemberStart(i)
    /\ StdSize(BeziergonMembers) = 248
<1> DEFINE NextMultiple(o, n) == CHOOSE m \in o .. (o + n - 1) : m % n = 0
           Def(f) == [i \in 1 .. Len(BeziergonMembers) |->
                        IF i = 1 THEN 0
                        ELSE NextMultiple(f[i - 1] + Bytes[BeziergonMembers[i - 1]],
                                          StdAlignment[BeziergonMembers[i]])]
           all == [i \in 1 .. 20 |-> MemberStart(i)]
           offsets == CHOOSE f : f = Def(f)
<1>1. StdOffsets(BeziergonMembers) = offsets
  BY DEF StdOffsets
<1>2. Len(BeziergonMembers) = 20 /\ \A i \in 1 .. 20 : BeziergonMembers[i] = MemberType(i)
  BY MemberTypes
<1>3. MemberStart(1) = 0
  BY DEF MemberStart
<1>4. ASSUME NEW i \in 2 .. 20
      PROVE  NextMultiple(MemberStart(i - 1) + Bytes[BeziergonMembers[i - 1]],
                          StdAlignment[BeziergonMembers[i]]) = MemberStart(i)
  <2>1. MemberStart(i - 1) + Bytes[BeziergonMembers[i - 1]] = MemberEnd(i - 1)
        /\ BeziergonMembers[i] = MemberType(i)
    BY <1>2 DEF MemberEnd
  <2> QED  BY <2>1, NextMember
<1> HIDE DEF NextMultiple
<1>5. all = Def(all)
  <2>1. ASSUME NEW i \in 1 .. 20 PROVE all[i] = Def(all)[i]
    <3>1. CASE i = 1
      BY <1>2, <1>3, <3>1
    <3>2. CASE i # 1
      <4>1. i \in 2 .. 20 /\ i - 1 \in 1 .. 20
        BY <3>2
      <4>2. all[i - 1] = MemberStart(i - 1)
        BY <4>1
      <4>3. Def(all)[i] = NextMultiple(all[i - 1] + Bytes[BeziergonMembers[i - 1]],
                                       StdAlignment[BeziergonMembers[i]])
        <5> HIDE DEF all
        <5> QED  BY <1>2, <3>2
      <4> QED  BY <1>4, <4>1, <4>2, <4>3
    <3> QED  BY <3>1, <3>2
  <2>2. Def(all) = [i \in 1 .. 20 |-> Def(all)[i]]
    <3> HIDE DEF all
    <3> QED  BY <1>2
  <2>3. all = [i \in 1 .. 20 |-> all[i]]
    OBVIOUS
  <2> HIDE DEF all, Def
  <2> QED  BY <2>1, <2>2, <2>3
<1>6. offsets = Def(offsets)
  <2> HIDE DEF all, Def
  <2> QED  BY <1>5
<1> HIDE DEF offsets
<1>7. ASSUME NEW i \in 1 .. 20
      PROVE  offsets[i] = IF i = 1 THEN 0
                          ELSE NextMultiple(offsets[i - 1] + Bytes[BeziergonMembers[i - 1]],
                                            StdAlignment[BeziergonMembers[i]])
  <2>1. offsets[i] = Def(offsets)[i]
    <3> HIDE DEF Def
    <3> QED  BY <1>6
  <2> QED  BY <1>2, <2>1
<1>8. \A i \in 1 .. 20 : offsets[i] = MemberStart(i)
  <2> DEFINE Wrong == {i \in 1 .. 20 : offsets[i] # MemberStart(i)}
  <2> SUFFICES ASSUME Wrong # {} PROVE FALSE
    OBVIOUS
  <2>0. Wrong \in SUBSET Nat
    OBVIOUS
  <2>1. PICK i \in Wrong : \A j \in Wrong : i <= j
    <3> HIDE DEF Wrong
    <3> QED  BY <2>0, LeastNumber
  <2>2. CASE i = 1
    BY <1>3, <1>7, <2>2
  <2>3. CASE i # 1
    <3>1. i \in 2 .. 20 /\ i - 1 \in 1 .. 20 /\ ~(i <= i - 1)
      BY <2>3
    <3>2. offsets[i - 1] = MemberStart(i - 1)
      BY <2>1, <3>1
    <3> QED  BY <1>4, <1>7, <3>1, <3>2
  <2> QED  BY <2>2, <2>3
<1>9. StdSize(BeziergonMembers) = 248
  <2>1. StdSize(BeziergonMembers) = offsets[20] + Bytes[BeziergonMembers[20]]
    BY <1>1, <1>2 DEF StdSize
  <2>2. offsets[20] = 240 /\ BeziergonMembers[20] = "vec2"
    BY <1>2, <1>8 DEF MemberStart, MemberType
  <2> QED  BY <2>1, <2>2 DEF Bytes
<1> QED  BY <1>1, <1>8, <1>9

\* Every value that a Beziergon writes into its uniform buffer is where the std140 block
\* of its shaders has the member (material.h:77-180, the shaders' uniform blocks).
THEOREM MembersArrive == ArrivingMembers = 1 .. 20
<1> DEFINE offsets == StdOffsets(BeziergonMembers)
           block == BlockOf(BeziergonMembers, StdSize(BeziergonMembers))
<1>1. Len(BeziergonMembers) = 20 /\ \A i \in 1 .. 20 : BeziergonMembers[i] = MemberType(i)
  BY MemberTypes
<1>2. (\A i \in 1 .. 20 : offsets[i] = MemberStart(i)) /\ block = WrittenBlock(20)
  BY OffsetsAre, WrittenAll
<1> HIDE DEF offsets, block
<1>3. ASSUME NEW i \in 1 .. 20, NEW k \in 1 .. MemberParts(i)
      PROVE  [at |-> offsets[i] + (k - 1) * PartBytes(BeziergonMembers[i]),
              member |-> i, part |-> k] \in block
  <2> DEFINE piece == [at |-> MemberStart(i) + (k - 1) * PartBytes(MemberType(i)),
                       member |-> i, part |-> k]
  <2>1. piece \in MemberBlock(i)
    BY DEF MemberBlock
  <2>2. piece \in WrittenBlock(20)
    BY <2>1 DEF WrittenBlock
  <2> QED  BY <1>1, <1>2, <2>2
<1>4. \A i \in 1 .. 20 :
          Bytes[BeziergonMembers[i]] \div PartBytes(BeziergonMembers[i]) = MemberParts(i)
  BY <1>1 DEF MemberParts
<1>5. ArrivingMembers =
          {i \in 1 .. Len(BeziergonMembers) :
              LET part == PartBytes(BeziergonMembers[i])
              IN  \A k \in 1 .. (Bytes[BeziergonMembers[i]] \div part) :
                      [at |-> offsets[i] + (k - 1) * part, member |-> i, part |-> k] \in block}
  BY DEF ArrivingMembers, offsets, block
<1> QED  BY <1>1, <1>3, <1>4, <1>5

----------------------------------------------------------------------------
(***************************************************************************)
(* What is on the screen while no repaint is due.                          *)
(***************************************************************************)
\* Does a part of the node show the colour, dest, points and missing source?
Drawn(part) ==
    /\ node[part].material.color = item.color
    /\ node[part].material.dest = item.dest
    /\ kind = "beziergon" => node[part].material.state = points
    /\ item.sourceItem = None => node[part].material.provider = None

OnScreen == inWindow /\ ~asked => \A part \in DOMAIN node : Drawn(part)

\* A step that asks for a repaint, or changes nothing that is drawn.
LEMMA KeptScreen ==
    ASSUME OnScreen,
           \/ asked'
           \/ ~inWindow'
           \/ /\ UNCHANGED << inWindow, asked, kind, points >>
              /\ item'.color = item.color /\ item'.dest = item.dest
              /\ item'.sourceItem = item.sourceItem
              /\ DOMAIN node' = DOMAIN node
              /\ \A part \in DOMAIN node :
                    \/ node'[part] = node[part]
                    \/ node'[part].material = [node[part].material EXCEPT !.provider = None]
                       /\ node[part].material \in Materials
    PROVE  OnScreen'
<1> SUFFICES ASSUME inWindow', ~asked', NEW part \in DOMAIN node'
             PROVE  Drawn(part)'
  BY DEF OnScreen
<1>1. part \in DOMAIN node /\ Drawn(part)
  BY DEF OnScreen
<1>2. CASE node'[part] = node[part]
  BY <1>1, <1>2 DEF Drawn
<1>3. CASE node'[part].material = [node[part].material EXCEPT !.provider = None]
           /\ node[part].material \in Materials
  <2>1. /\ node'[part].material.color = node[part].material.color
        /\ node'[part].material.dest = node[part].material.dest
        /\ node'[part].material.state = node[part].material.state
        /\ node'[part].material.provider = None
    BY <1>3 DEF Materials
  <2> QED  BY <1>1, <2>1 DEF Drawn
<1> QED  BY <1>1, <1>2, <1>3

LEMMA ScreenStep ==
    ASSUME PaintTypeOK, NewStays, OnScreen, [Next]_vars
    PROVE  OnScreen'
<1> USE DEF sourceVars, renderVars, itemVars, Asks
<1>1. ASSUME NEW geometry, NEW state, NEW fast, UpdatePaintNode(geometry, state, fast),
             kind = "beziergon" => state = points, UNCHANGED << points, kind >>
      PROVE  OnScreen'
  <2>1. DOMAIN node' = Painted /\ UNCHANGED item
    BY <1>1, PaintResult
  <2> SUFFICES ASSUME NEW part \in Painted PROVE Drawn(part)'
    BY <2>1 DEF OnScreen
  <2>2. node'[part] = NewPart(part, geometry, state, fast)
    BY <1>1, PaintedPart
  <2>3. /\ node'[part].material.color = item.color
        /\ node'[part].material.dest = item.dest
        /\ node'[part].material.state = state
        /\ node'[part].material.provider = Provided
    BY <2>2 DEF NewPart
  <2> QED  BY <1>1, <2>1, <2>3 DEF Drawn, Provided
<1>2. CASE ItemNext
  <2>0. UNCHANGED << points, kind >>
    BY <1>2 DEF ItemNext, subclassVars
  <2>1. ASSUME NEW color \in Colors, SetColor(color) PROVE OnScreen'
    BY <2>1, KeptScreen DEF SetColor
  <2>2. ASSUME NEW b \in BOOLEAN, SetBlending(b) \/ SetAntialiasing(b) \/ SetClampToEdge(b)
        PROVE  OnScreen'
    <3>1. UNCHANGED << inWindow, asked, node >>
      BY <2>2 DEF SetBlending, SetAntialiasing, SetClampToEdge
    <3>2. /\ item'.color = item.color /\ item'.dest = item.dest
          /\ item'.sourceItem = item.sourceItem
      BY <2>2 DEF SetBlending, SetAntialiasing, SetClampToEdge, Blended, PaintTypeOK
    <3> QED  BY <2>0, <3>1, <3>2, KeptScreen
  <2>3. ASSUME NEW dest, SetDest(dest) PROVE OnScreen'
    BY <2>0, <2>3, KeptScreen DEF SetDest
  <2>4. ASSUME NEW s, SourceBecomes(s), UNCHANGED << inWindow, node >> PROVE OnScreen'
    BY <2>0, <2>4, KeptScreen DEF SourceBecomes
  <2>5. ASSUME NEW s, SetSourceItem(s) PROVE OnScreen'
    BY <2>4, <2>5 DEF SetSourceItem
  <2>6. ASSUME NEW s \in Sources, SourceDestroyed(s) PROVE OnScreen'
    BY <2>0, <2>4, <2>6, KeptScreen DEF SourceDestroyed
  <2>7. ASSUME NEW s \in Sources, LayerChanges(s) PROVE OnScreen'
    BY <2>0, <2>7, KeptScreen DEF LayerChanges
  <2>8. CASE SceneChanges
    BY <2>8, KeptScreen DEF SceneChanges
  <2>9. CASE MarkDirtyMaterial
    BY <2>9, KeptScreen DEF MarkDirtyMaterial
  <2> QED  BY <1>2, <2>1, <2>2, <2>3, <2>5, <2>6, <2>7, <2>8, <2>9 DEF ItemNext
<1>3. CASE BeziergonNext
  <2>0. UNCHANGED kind
    BY <1>3 DEF BeziergonNext
  <2>1. ASSUME NEW p, NEW value, SetPoint(p, value) PROVE OnScreen'
    <3>1. CASE value = points[p]
      BY <2>0, <2>1, <3>1, KeptScreen DEF SetPoint
    <3>2. CASE value # points[p]
      BY <2>1, <3>2, KeptScreen DEF SetPoint
    <3> QED  BY <3>1, <3>2
  <2>2. ASSUME NEW l, SetWidth(l) \/ SetHeight(l) PROVE OnScreen'
    BY <2>2, KeptScreen DEF SetWidth, SetHeight, Resize
  <2>3. ASSUME NEW r, SetResolution(r) PROVE OnScreen'
    BY <2>3, KeptScreen DEF SetResolution
  <2>4. CASE PaintBeziergon
    BY <1>1, <2>0, <2>4 DEF PaintBeziergon
  <2> QED  BY <1>3, <2>1, <2>2, <2>3, <2>4 DEF BeziergonNext
<1>4. CASE ParallelogramNext
  <2>0. UNCHANGED << points, kind >> /\ kind # "beziergon"
    BY <1>4 DEF ParallelogramNext
  <2>1. ASSUME NEW l, SetWidthOfParallelogram(l) \/ SetHeightOfParallelogram(l)
        PROVE  OnScreen'
    BY <2>1, KeptScreen DEF SetWidthOfParallelogram, SetHeightOfParallelogram, Resize
  <2>2. ASSUME NEW a, SetAngle(a) PROVE OnScreen'
    BY <2>2, KeptScreen DEF SetAngle
  <2>3. CASE PaintParallelogram
    BY <1>1, <2>0, <2>3 DEF PaintParallelogram
  <2> QED  BY <1>4, <2>1, <2>2, <2>3 DEF ParallelogramNext
<1>5. CASE ProvidersNext
  <2>1. PICK p \in Providers : ProviderDestroyed(p)
    BY <1>5 DEF ProvidersNext
  <2>2. UNCHANGED << item, inWindow, asked, kind, points >>
    BY <1>5, <2>1 DEF ProvidersNext, ProviderDestroyed, subclassVars
  <2>3. /\ DOMAIN node' = DOMAIN node
        /\ \A part \in DOMAIN node :
              \/ node'[part] = node[part]
              \/ node'[part].material = [node[part].material EXCEPT !.provider = None]
    BY <2>1 DEF ProviderDestroyed, PaintTypeOK
  <2>4. \A part \in DOMAIN node : node[part].material \in Materials
    BY DEF PaintTypeOK
  <2> QED  BY <2>2, <2>3, <2>4, KeptScreen
<1>6. CASE UNCHANGED vars
  BY <1>6, KeptScreen DEF vars, subclassVars
<1> QED  BY <1>2, <1>3, <1>4, <1>5, <1>6 DEF Next

\* An item that awaits no repaint is on the screen with its colour, dest and points, each
\* where its shader reads it, and without a texture when it has no source: every change
\* of these asks for a repaint, and each paint sets all of them (samplergeometry.cpp:63-212).
THEOREM ScreenShows == Spec => []ScreenShowsItem
<1>1. Init => OnScreen
  BY DEF Init, ItemInit, OnScreen
<1>2. PaintTypeOK /\ NewStays /\ OnScreen /\ [Next]_vars => OnScreen'
  BY ScreenStep
<1>3. OnScreen => ScreenShowsItem
  <2>1. {Color, Dest} \cup Corners \subseteq ArrivingMembers
    BY MembersArrive DEF Color, Dest, Corners
  <2> QED  BY <2>1 DEF OnScreen, Drawn, ScreenShowsItem, Samples
<1> QED  BY <1>1, <1>2, <1>3, PaintTyped, PTL DEF Spec
=============================================================================
