\* Two promoters and a recovery run; the operator stops them before a redaction.
CONSTANTS
  Candidates = {"c1", "c2", "c3"}
  Texts = {"secret", "clean", "other"}
  TextOf <- MCTextOf
  Replacements = {"clean", "other"}
  Promoters = {"p", "q"}
  Intakes = {"i"}
  Operators = {"o"}
  Recovering = TRUE
  Quiet = TRUE
  MaxRedactions = 2
  None = None
SPECIFICATION Spec
INVARIANTS
  ConstraintKept
  CopiesGone
\* Redactions are bounded and captures come to an end.
CHECK_DEADLOCK FALSE
