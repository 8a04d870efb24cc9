\* Two writers, two merges of which one may be killed, two alterations.
SPECIFICATION Spec
CONSTANTS
  Nobody = Nobody
  Events = {e1, e2}
  Writers = {w1, w2}
  Mergers = {g1, g2}
  MaxCrashes = 1
  MaxEdits = 2
SYMMETRY Symmetry
INVARIANTS BreaksExact AlarmExact AnchorsLinked VerdictsTrue
PROPERTIES ImplementsLedger
