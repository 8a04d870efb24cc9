\* The triggers may change under an open hold; an import may be rolled back.
SPECIFICATION Spec
CONSTANTS
  NoCandidate = NoCandidate
  Candidates = {c1, c2}
  Imported = {c1}
  Workers = {w1, w2}
  Reviewers = {r1}
  MaxActive = 1
  MaxAdvice = 1
  MaxRuleChanges = 1
  MaxCrashes = 0
SYMMETRY Symmetry
INVARIANTS TypeOK CapRespected 
PROPERTY ResolvedOnce
