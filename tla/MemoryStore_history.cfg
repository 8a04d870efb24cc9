\* Promotions, batches, reviewed settlements and direct transitions.
SPECIFICATION Spec
CONSTANTS
  NoMemory = NoMemory
  Memories = {m1, m2, m3}
  Curators = {k1, k2}
  Batchers = {b1}
  Editors = {}
  Settlers = {r1}
  Sweepers = {}
  MaxSupersedes = 2
SYMMETRY Symmetry
INVARIANTS NoCircularHistory ReceiptsTell
PROPERTY ImplementsLifecycle
\* The store stops when every memory is archived and no candidate is left.
CHECK_DEADLOCK FALSE
