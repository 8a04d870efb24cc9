\* Full-row writers against promotions, the staleness sweep and direct transitions.
SPECIFICATION Spec
CONSTANTS
  NoMemory = NoMemory
  Memories = {m1, m2}
  Curators = {k1}
  Batchers = {}
  Editors = {e1}
  Settlers = {}
  Sweepers = {s1}
  MaxSupersedes = 1
SYMMETRY Symmetry
INVARIANT EditsStick
\* The store stops when every memory is archived, narrowed and redacted.
CHECK_DEADLOCK FALSE
