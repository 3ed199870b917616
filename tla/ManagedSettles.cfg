SPECIFICATION FairSpec
CONSTANTS
  Names = {"n1"}
  NoName = "noname"
  ManagedName = "n1"
  Specs = {"s1", "s2"}
  PolicyChoices <- DefaultPolicy
  DeletionPolicy = "Modern"
  Preexisting = {}
  managementPoliciesEnabled = TRUE
  deterministicExternalName = TRUE
  NamedByInitializer = TRUE
  HasReferences = TRUE
  LateInitializes = FALSE
  FilterEvents = TRUE
  FailedCreateMayTakeEffect = TRUE
  creationGracePeriod = 1
  ConsistencyDelay = 0
  RetrySteps = 2
  MaxTime = 1
  MaxEdits = 2
  MaxFaults = 1
PROPERTIES EventuallySettled
CHECK_DEADLOCK FALSE
