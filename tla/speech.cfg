SPECIFICATION Spec
CONSTANTS
  Threads = {t1, t2}
  None = None
  MaxCandidates = 2
CHECK_DEADLOCK FALSE
INVARIANTS TypeOK TogglesForPatient  AttrsCoverTexts
PROPERTIES SpeechModeEnds TornListHeals
