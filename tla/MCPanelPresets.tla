--------------------------- MODULE MCPanelPresets ---------------------------
(* PanelPresets with two panels, two displays and an input.  The two names   *)
(* let the panels share a preset, have one each, or be renamed either way.   *)
(* No definition tells one panel, name or display from another.              *)
EXTENDS PanelPresets, TLC

CONSTANTS p1, p2, n1, n2, d1, d2, i1

MCSymmetry ==
  Permutations({p1, p2}) \cup Permutations({n1, n2}) \cup Permutations({d1, d2})
=============================================================================
