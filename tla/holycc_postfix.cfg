SPECIFICATION Spec
CONSTANTS
  Corpora <- PrefixCorpora
  CapNames = {"A", "B", "F32"}
  Builtins = {"Print"}
  MaxDepth = 10
  ParserItem <- TopItem
INVARIANTS PostfixBindsTighter
CHECK_DEADLOCK FALSE
