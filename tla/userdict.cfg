SPECIFICATION Spec
CONSTANTS
  Lemmas <- MCLemmas
  Phrases <- MCPhrases
  Downloads <- MCDownloads
  Initial <- MCInitial
  Queries <- MCQueries
  Counts = {2}
  MaxLemmas = 2
  MaxGone = 2
  MaxSyncs = 2
  kUserDictPreAlloc = 1
  kUserDictAverageNchar = 3
  kUserDictCacheSize = 2
  kUserDictMissCacheSize = 2
  kUserDictMaxFrequency = 2
  kUserDictMaxLemmaCount = 2
  kUserDictRatio = 70
 
PROPERTIES FlushIsExact PutsOnce
