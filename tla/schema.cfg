SPECIFICATION SchemaSpec
CONSTANTS
  Schemas <- MCSchemas
  Values <- MCValues
  Height <- MCHeight
  Tallest = 9
  Matches <- MCMatches
  Refused = {"(a+)+"}
  Broken = {"["}
  Multiples <- MCMultiples
  SUPPORTED_SCHEMA_KEYS <- MCSupported
  EXTRACT_SCHEMA_KNOB_KEYS = {"budget"}
  MAX_SCHEMA_DEPTH = 3
  MAX_PATTERN_VALUE_LENGTH = 3
INVARIANTS
  VerdictSound
  BoundaryAgrees
CHECK_DEADLOCK FALSE
