SPECIFICATION Spec
CONSTANTS
  Vrp = {v1, v2}
  WellFormed = {v1, v2}
  InitialBackoff = 2
  MaxBackoff = 3
  Overlap = TRUE
  MaxQueries = 0
  MaxSerial = 3
  MaxRestarts = 0
  MaxFailures = 0
INVARIANT Synced
