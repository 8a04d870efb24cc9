\* One export of the daemon fails.
CONSTANTS
  Ids = {"m"}
  Dirs = {"guides", "decisions"}
  Archive = "archive"
  Refreshers = {}
  Daemons = {"daemon"}
  Operators = {}
  Faults = {"swallow"}
  MaxFaults = 1
  MaxBeside = 0
  MaxRev = 1
  MaxClock = 2
SPECIFICATION Spec
INVARIANT GaugeHonest
