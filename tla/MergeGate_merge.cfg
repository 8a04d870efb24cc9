\* Two merges into one store and one into its copy, the clones given in both orders.
CONSTANTS
  Memories <- MCMemories
  Texts <- MCTexts
  TextOf <- MCTextOf
  Refused = {"secret"}
  Contents <- MCContents
  Bases <- MCBases
  Clones = {"A", "B"}
  Targets = {"x", "y"}
  Mergers = {"p", "q", "r"}
  Into <- MCInto
  Order <- MCOrder
  Retirable = {3}
  Redactable = {5}
  MaxKills = 1
  Redacted = "redacted"
SPECIFICATION Spec
INVARIANTS
  OneMemoryPerText
  MergeIsAtomic
  Commutes
PROPERTIES
  Converges
\* A refused merge really stops.
CHECK_DEADLOCK FALSE
