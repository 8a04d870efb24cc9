\* One promoter and one operator, with nothing stopped for the redaction.
CONSTANTS
  Candidates = {"c1", "c2", "c3"}
  Texts = {"secret", "clean", "other"}
  TextOf <- MCTextOf
  Replacements = {"clean", "other"}
  Promoters = {"p"}
  Intakes = {"i"}
  Operators = {"o"}
  Recovering = FALSE
  Quiet = FALSE
  MaxRedactions = 2
  None = None
SPECIFICATION Spec
INVARIANTS
  OneMemory
  StaysGone
  TrailTrue
PROPERTY ImplementsWording
\* Redactions are bounded and captures come to an end.
CHECK_DEADLOCK FALSE
