CONSTANTS
  Kinds <- AllKinds
  Alphabet <- Unsigned
  MaxLength = 7
  Width = 8
  MaxConfigBytes = 18
  OffsetSpan = 1073741824
  Files <- MCFiles
  Writings <- MCWritings
  MaxEdits = 2
  Code <- MCCode
  Word = 32
  BlSpan = 8
  AdrpSpan = 8
  Page = 4
  RegionSizes <- MCRegionSizes
  TableBytes = 4
  Base = 2
  Stride = 5
  Rows = 4
  Rates <- MCRates
SPECIFICATION Spec
INVARIANTS LinesReadAsWritten IntegersReadAsWritten HexReadAsWritten AdmittedAsWritten AdmittedIsUsable AddressesExact TargetIsTheOneCalled ReviewedSitesAgree SelfTestDetects LogFits
CHECK_DEADLOCK FALSE
