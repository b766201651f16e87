SPECIFICATION Spec
CONSTANTS
  Unset = Unset
  SavedTables = {"98"}
  Ids = {"id"}
  MaxSignals = 2
  KeyCount = 2
  CmdCount = 1
  MaxRow = 3
  MaxHidden = 1
  Typed <- MCTyped
  Given <- MCGiven
  Faults <- MCFaults
INVARIANTS TypeOK ChoicesSurvive CredentialsFollow SavedIsShown FileHasTypableKeys 
CONSTRAINT OneAtATime
