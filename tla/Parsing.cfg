\* Every input up to a length, over small alphabets.
SPECIFICATION Spec
CONSTANTS
  BufferSize = 3
  Word = 8
  Ring = 3
  WriteBufferSize = 524288
  ReadBufferSize = 262144
  Inputs <- MCInputs
  Patterns <- MCPatterns
  Configs <- MCConfigs
INVARIANTS LinesOnce LineParsed PointsPacked TimesExact EscapeExact TagsStored SeriesExact PathsMatched IndexComplete
CHECK_DEADLOCK FALSE
