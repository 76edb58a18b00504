SPECIFICATION VerdictSpec
CONSTANTS
  ASN = {1, 2, 3, 4, 5}
  Small = {1, 2, 3}
  MaxLen = 5
  Inputs <- AllInputs
  VrpSets <- AllVrpSets
  Announced <- Block
  Width <- Widths
  Marker <- MappedMarker
  Origin = {0, 7}
  MaxVRPs = 2
INVARIANTS
  LeakIffNotUpThenDown
  MissingDataNeverAccuses
  BlameIsPlausible
  PrependingKeepsTheBlame
  ValidateAnswers
