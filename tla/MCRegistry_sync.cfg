CONSTANTS
  Names <- MCNames
  Lower <- MCLower
  StaticModels <- MCStatic
  Catalogs <- MCCatalogs
  MAX_CHANGES = 3
SPECIFICATION FairSpec
INVARIANTS
  TypeOK
  WholeSnapshots
PROPERTIES
  SteadyModelsStayAccepted
  StaticNamesGoForGood
  EventuallyMirrors
