\* Two dives per run through the parser and both formatters.
SPECIFICATION Spec
CONSTANTS
  ParserModels <- MCModels
  Data <- MCData
  Headers <- MCHeaders
  Strays <- MCStrays
  MaxParsed = 2
  MaxTime = 32
INVARIANTS
  TypeOK
  ReadsInside
  WaypointsAreSpaced
  ReadingsAreTheDivesOwn
  UddfSamplesAreComplete
  CsvRowsAreOwn
  TanksHaveTheirGas
PROPERTY
  ParsingEnds
\* A run stops when it is done or has failed.
CHECK_DEADLOCK FALSE
