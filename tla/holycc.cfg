SPECIFICATION Spec
CONSTANTS
  Corpora <- LintCorpora
  CapNames = {"A", "B", "F32"}
  Builtins = {"Print"}
  MaxDepth = 10
  ParserItem <- TopItem
INVARIANTS ProductionsAdvance OperatorsNest MarkersInSwitch UndeclaredIsReported CallsAreCounted SiblingBlocksAreCompared SwitchArmsAreCompared FloatsAreNotMasked
PROPERTIES SourceIsKept
CHECK_DEADLOCK FALSE
