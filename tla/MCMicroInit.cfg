SPECIFICATION FairSpec
CONSTANTS
  Markers <- MCMarkers
  NoMarker <- MCNoMarker
INVARIANTS
  TypeOK
  EmbeddedStays
  PanicOnlyWhen
PROPERTIES
  HonoursContract
  HandsOver
CHECK_DEADLOCK FALSE
