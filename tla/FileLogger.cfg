SPECIFICATION MCSpec
CONSTANTS
  c1 = c1
  c2 = c2
  c3 = c3
  Socket = Socket
  Call = {c1, c2, c3}
  MaxLines = 2
SYMMETRY MCSymmetry
INVARIANTS
  NeverOnClosed
  EndsOnStderr
  AloneAppends
