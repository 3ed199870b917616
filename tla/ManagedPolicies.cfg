SPECIFICATION Spec
CONSTANTS
  Names = {"n1"}
  NoName = "noname"
  ManagedName = "n1"
  Specs = {"s1"}
  PolicyChoices <- SomePolicies
  DeletionPolicy = "Modern"
  Preexisting = {"n1"}
  managementPoliciesEnabled = TRUE
  deterministicExternalName = TRUE
  NamedByInitializer = TRUE
  HasReferences = FALSE
  LateInitializes = TRUE
  FilterEvents = TRUE
  FailedCreateMayTakeEffect = FALSE
  creationGracePeriod = 1
  ConsistencyDelay = 0
  RetrySteps = 2
  MaxTime = 2
  MaxEdits = 2
  MaxFaults = 1
INVARIANTS RestIsJustified
PROPERTIES CreateFromLatest FinalizerRemoval
CHECK_DEADLOCK FALSE
