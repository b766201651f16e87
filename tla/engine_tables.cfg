SPECIFICATION Spec
CONSTANTS
  Engines = {e1}
  Letters = {a}
  MaxInput = 0
  None = None
  WubiTables = {"86", "98"}
  Wubi86 = "86"
  FastFiles = {"file"}
  PageSize = 2
  GuintRange = 65536
  MaxLoaders = 2
  MaxStarting = 0
  Texts <- MCTexts
  WubiExact <- MCWubiExact
  WubiOthers <- MCWubiOthers
  PinyinWords <- MCPinyinWords
  FastOutput <- MCFastOutput
CHECK_DEADLOCK FALSE
INVARIANTS MissingIsLoading
 
