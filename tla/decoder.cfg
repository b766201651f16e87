CONSTANTS
  Spellings <- MCSpellings
  Lemmas <- MCLemmas
  RawLines <- MCRawLines
  ValidHanzis = {}
  Psb <- MCPsb
  Queries <- MCQueries
  kMaxMileStone = 100
  kMaxParsingMark = 600
  kMaxRowNum = 40
  kMaxPinyinSize = 6
  kMaxSpellings = 4
  kMaxNodeARow = 3
  kMtrxNdPoolSize = 200
  kDmiPoolSize = 800
  kMaxLpiCachePerId = 2
SPECIFICATION Spec
INVARIANTS ReferencesLive SearchedAnew SegmentsCover 
CONSTRAINT FewLeft
