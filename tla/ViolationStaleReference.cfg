SPECIFICATION Spec
CONSTANTS
  Names = {"n1", "n2"}
  NoName = "noname"
  ManagedName = "n1"
  Specs = {"s1"}
  PolicyChoices <- DefaultPolicy
  DeletionPolicy = "Modern"
  Preexisting = {}
  managementPoliciesEnabled = TRUE
  deterministicExternalName = FALSE
  NamedByInitializer = FALSE
  HasReferences = TRUE
  LateInitializes = FALSE
  FilterEvents = FALSE
  FailedCreateMayTakeEffect = FALSE
  creationGracePeriod = 1
  ConsistencyDelay = 0
  RetrySteps = 2
  MaxTime = 2
  MaxEdits = 0
  MaxFaults = 2
INVARIANTS LeakFlagged
CHECK_DEADLOCK FALSE
