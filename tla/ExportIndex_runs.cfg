\* A refresh or a reconcile beside the daemon's cycles, and one fault.
CONSTANTS
  Ids = {"m"}
  Dirs = {"guides", "decisions"}
  Archive = "archive"
  Refreshers = {"api"}
  Daemons = {"daemon"}
  Operators = {"operator"}
  Faults = {"kill", "write", "swallow"}
  MaxFaults = 1
  MaxBeside = 1
  MaxRev = 2
  MaxClock = 2
SPECIFICATION Spec
INVARIANTS
  TypeOK
  CursorSound
  FreshIsIndexed
  ReconcileRepairs
PROPERTY EventuallyIndexed
