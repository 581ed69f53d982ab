SPECIFICATION Spec
CONSTANTS
  Lanes = 2
  Retries = 2
  Versions <- MCVersions
  MaxRuns = 2
INVARIANT DoneInOrder
PROPERTY ScriptEnds
CHECK_DEADLOCK FALSE
