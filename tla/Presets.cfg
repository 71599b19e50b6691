SPECIFICATION Spec
CONSTANTS
  p1 = p1
  p2 = p2
  n1 = n1
  n2 = n2
  d1 = d1
  d2 = d2
  i1 = i1
  Panels = {p1, p2}
  Names = {n1, n2}
  Displays = {d1, d2}
  Inputs = {i1}
  MaxListed = 1
INVARIANTS
  TypeOK
  NamesUnique
  NotBoth
PROPERTY
  ImplementsDisplayUse
SYMMETRY MCSymmetry
