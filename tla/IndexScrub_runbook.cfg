\* One process that refreshes or reindexes at any time, one fault; an unchanged
\* text is not exported again.
CONSTANTS
  Paths = {"curated", "archive"}
  Archive = "archive"
  Processes = {"daemon"}
  MaxTouches = 0
  MaxFaults = 1
  None = None
SPECIFICATION Spec
INVARIANTS
  StoreClean
  Confirmed
  Withheld
PROPERTIES
  EventuallyScrubbed
