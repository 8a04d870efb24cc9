\* The daemon, the ingest command, a vault import and the sweep at once.
CONSTANTS
  Candidates = {"a", "b", "s"}
  Captures = {"capture"}
  Receipts = {"receipt"}
  Vaults = {"vault"}
  Sorted <- MCSorted
  LinesOf <- MCLines
  Refused = {"s"}
  Admitted = {"b"}
  Daemons = {"daemon"}
  Commands = {"command"}
  SweepInstalled = TRUE
  Cap = 1
  MaxBeside = 1
  MaxFaults = 1
SPECIFICATION Spec
INVARIANTS
  TypeOK
  HandedOnce
  LedgerTrue
PROPERTY EveryCaptureDecided
