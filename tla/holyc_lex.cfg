SPECIFICATION Spec
CONSTANTS
  Sources <- LexTexts
  STR_LEN = 2
  CHAR_LEN = 2
  I32MAX = 127
INVARIANTS SourceIsTiled LongestSpelling NegativeExponentIsFlagged
PROPERTIES EndsWithEof
CHECK_DEADLOCK FALSE
