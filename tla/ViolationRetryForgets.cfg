SPECIFICATION FairSpec
CONSTANTS
  a1 = a1
  a2 = a2
  None = None
  Owners = {a1, a2}
  Local = {a1}
  Steady = {a1}
  MaxCalls = 2
  Data <- AllData
  Steps = 2
  MaxLag = 2
  MaxEdits = 0
  MaxFaults = 1
PROPERTY UnchangedMeansPublished
CHECK_DEADLOCK FALSE
