SPECIFICATION Clients
CONSTANTS
  a1 = a1
  a2 = a2
  None = None
  Owners = {a1, a2}
  Local = {a1}
  Steady = {a1}
  MaxCalls = 1
  Data <- Details
  Steps = 2
  MaxLag = 2
  MaxEdits = 1
  MaxFaults = 1
  Targets <- AllTargets
  Home = "home"
  Labelled <- AllTargets
  Siblings <- AllSiblings
  Values = {1, 3}
  Word = 3
  Resources <- AllResources
  Surroundings <- AllSurroundings
  MaxChanges = 2
  MaxFailures = 1
PROPERTIES OthersAreLeft ResultsAreTrue ObjectsSettle ResolutionIsSound ValuesFollow
CHECK_DEADLOCK FALSE
