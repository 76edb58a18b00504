SPECIFICATION SiteSpec
CONSTANTS
  Configs <- AllConfigs
  Visited <- VisitedConfigs
  MaxChanges = 1
  MaxStarts = 2
  MaxBackoff = 4
  MaxEffects = 2
  MaxLosses = 1
INVARIANTS
  ExitTellsWhy
  SingleConnection
  StatusIsTrue
PROPERTIES
  StopsWhenCancelled
  Reconnects
