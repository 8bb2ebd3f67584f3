--------------------------- MODULE MCPaintedItems ---------------------------
EXTENDS PaintedItems, TLC

Addresses == Permutations(Sources) \cup Permutations(Providers)
SomeResolutions == {<< 0, 0 >>, << 1, 5 >>}
=============================================================================
