SPECIFICATION Spec
CONSTANTS
  Vrp = {v1, v2, v3}
  WellFormed = {v1, v2}
  InitialBackoff = 2
  MaxBackoff = 3
  Overlap = FALSE
  MaxQueries = 2
  MaxSerial = 2
  MaxRestarts = 1
  MaxFailures = 1
INVARIANTS
  BackoffBounded
  LiveWasATable
  Synced
PROPERTY Converges
