\* One dive through the CSV formatter.
SPECIFICATION Spec
CONSTANTS
  ParserModels <- MCModels
  Data <- MCData
  Headers <- MCHeaders
  Strays <- MCStrays
  MaxParsed = 1
  MaxTime = 32
INVARIANT CsvRowsAreComplete
CHECK_DEADLOCK FALSE
