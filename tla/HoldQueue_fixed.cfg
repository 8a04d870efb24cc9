\* The policy and the stored text stay as they are; processes may be killed, an
\* import rolled back.
SPECIFICATION FairSpec
CONSTANTS
  NoCandidate = NoCandidate
  Candidates = {c1, c2}
  Imported = {c1}
  Workers = {w1, w2}
  Reviewers = {r1}
  MaxActive = 1
  MaxAdvice = 0
  MaxRuleChanges = 0
  MaxCrashes = 1
INVARIANTS HeldUntilResolved ClosedUnpromoted
PROPERTIES ImplementsPromise EveryHoldEnds
