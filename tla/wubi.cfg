SPECIFICATION Spec
CONSTANTS
  LetterCount = 2
  MaxCode = 2
  Texts = {v, w}
  Freqs = {1, 2}
  MaxLines = 3
CHECK_DEADLOCK FALSE
INVARIANTS TypeOK EndsHaveWords ExactNeverHidden LostOnlyToEqual HintIsFirstCode
PROPERTIES KeepsTable
