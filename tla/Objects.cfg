SPECIFICATION Libraries
CONSTANTS
  Texts <- PavedTexts
  MaxUint = 3
  Resources = {"r1"}
  Name <- OwnName
  MaxBirths = 2
  MaxRestarts = 1
INVARIANTS ParseIsExact PavedIsPrecise MergesAreStable AccessorsReadBack PackageIsFiles MetricsAreTrue
PROPERTIES PathsAreParsed NoOpKeepsTime ParseEnds PoliciesDecide ResourcesAreCounted
CHECK_DEADLOCK FALSE
