--------------------------- MODULE MCSurfaceGroup ----------------------------
(***************************************************************************)
(* SurfaceGroup, and the QuickWindow in it, on small instances: values,    *)
(* names of layers and z are interchangeable.                              *)
(***************************************************************************)
EXTENDS SurfaceGroup, TLC

WindowSymmetry ==
    Permutations(Values) \cup Permutations(LayerNames) \cup Permutations(Zs)
=============================================================================
