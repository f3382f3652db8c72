----------------------------- MODULE MCPanelUI -----------------------------
EXTENDS PanelUI, TLC

CONSTANTS f1, f2, a, b, c1, c2

Symmetry == Permutations(Calls) \cup Permutations(Fps)
=============================================================================
